---- MODULE MCReverseForward ----
EXTENDS ReverseForward, TLC
CONSTANTS f1, f2, c1, k
Key == [f \in Forwards |-> k]
ForwardPerms == Permutations(Forwards)
====
