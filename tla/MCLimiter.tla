-------------------------------- MODULE MCLimiter --------------------------------
(* Four tasks on two connections: two sessions and a forwarded channel on the first
   connection, one session on the second. *)
EXTENDS Limiter
CONSTANTS s1, s2, f1, s3, k1, k2

MCTasks == {s1, s2, f1, s3}
MCConns == {k1, k2}
MCSessions == {s1, s2, s3}
MCConnOf == [t \in MCTasks |-> IF t = s3 THEN k2 ELSE k1]
================================================================================
