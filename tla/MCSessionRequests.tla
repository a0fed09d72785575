---------------------------- MODULE MCSessionRequests ----------------------------
(* What the clients of the session run send, and what its handlers register. *)
EXTENDS SessionRequests

Signals(c) == [kind |-> "signal", arg |-> c]
Break(c) == [kind |-> "break", arg |-> c]
Play(requests, calls) == [requests |-> requests, regs |-> calls]

SessionPlays == {
  Play(<<"signal", "signal", "start", "signal">>, <<Signals("s1"), Signals("s2")>>),
  Play(<<"start", "break">>, <<Break("b1"), Break(None)>>),
  Play(<<"pty-req", "start", "window-change">>, <<>>),
  Play(<<"env", "env", "agent", "start", "start">>, <<>>),
  Play(<<"unknown", "pty-req", "window-change", "env">>, <<>>)}

WindowSizes == {<<1, 1>>, <<2, 0>>, <<0, 3>>}
================================================================================
