----------------------------- MODULE MCServeScope -----------------------------
(* Instances of ServeScope for TLC. *)
EXTENDS ServeScope, TLC

StartupsFullOne == << [Start |-> 1, Rate |-> 30, Full |-> 1] >>
LimitOne == << 1 >>

ConnSymmetry == Permutations(Conns)

\* Settings of MaxStartups in range, at the ends of it and beyond, and numbers of
\* unauthenticated connections up to above the default for Full.
SettingsChecked ==
  {Nil} \cup {<<c>> : c \in [Start : {-1, 0, 1, 3, 8, 9}, Rate : {-5, 0, 1, 30, 99, 100, 130}, Full : {-1, 0, 1, 3, 7, 8}]}
CountsChecked == 0..110
================================================================================
