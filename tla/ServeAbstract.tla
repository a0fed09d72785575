----------------------------- MODULE ServeAbstract -----------------------------
(***************************************************************************)
(* What Server.Serve and Server.HandleConn promise about one call, whatever *)
(* goroutines, locks and timers it is made of: connections are admitted     *)
(* only until the call stops accepting, each at most once, and the call     *)
(* returns only when no admitted connection is open any more.               *)
(***************************************************************************)
CONSTANT Conns

VARIABLES
  phase,   \* "open", "stopped" or "returned"
  status   \* of each connection: "new", "live" or "over"

Live == {c \in Conns : status[c] = "live"}

Init == phase = "open" /\ status = [c \in Conns |-> "new"]

Admit(c) ==
  /\ phase = "open" /\ status[c] = "new"
  /\ status' = [status EXCEPT ![c] = "live"]
  /\ UNCHANGED phase

Refuse(c) ==
  /\ phase # "returned" /\ status[c] = "new"
  /\ status' = [status EXCEPT ![c] = "over"]
  /\ phase' \in {phase, "returned"} /\ (phase' = "returned" => Live = {})

End(c) ==
  /\ status[c] = "live"
  /\ status' = [status EXCEPT ![c] = "over"]
  /\ UNCHANGED phase

Stop == phase = "open" /\ phase' = "stopped" /\ UNCHANGED status

Return ==
  /\ phase # "returned" /\ Live = {}
  /\ phase' = "returned"
  /\ UNCHANGED status

Next == Stop \/ Return \/ \E c \in Conns : Admit(c) \/ Refuse(c) \/ End(c)

Spec == Init /\ [][Next]_<<phase, status>>
================================================================================
