----------------------------- MODULE DeferredProofs -----------------------------
(***************************************************************************)
(* Proofs about DeferredSubsystem for every number of later requests: what *)
(* the client sees on the channel, in which order.                         *)
(*                                                                         *)
(* deferredState decides what may be sent.  While it is 1 nothing is on    *)
(* the wire but the success reply that is being written, 2 leaves room for *)
(* a refusal and the close of the channel only, and 0 is entered only when *)
(* the success reply has been written.                                     *)
(***************************************************************************)
EXTENDS DeferredSubsystem, SequenceTheorems, TLAPS

Messages == {Success, Failure, ExitStatus, ChannelClose} \cup {Answer(id) : id \in Nat \ {0}}

Types ==
  /\ sent \in Nat /\ reqs \in Seq(Nat \ {0}) /\ next \in Seq(Nat \ {0}) /\ Len(next) <= 1
  /\ wire \in Seq(Messages)
  /\ state \in {0, 1, 2} /\ write \in {"none", "pending", "ok", "failed"}

\* How the flags of the response, its write and deferredState go together.
StateInv ==
  /\ ~answered => state = 1 /\ write = "none" /\ ~accepted /\ ~failed
  /\ state = 1 /\ answered => accepted /\ write # "none"
  /\ state = 0 => answered /\ write = "none"
  /\ write # "none" => (IF accepted THEN state = 1 ELSE state = 2)
  /\ answered /\ accepted /\ ~failed => state \in {0, 1}
  /\ writer = "none" <=> write = "none"

\* Later requests are served, and a result is waited for, only after acceptance.
ServeInv == loop = "serve" \/ result # "off" => state = 0

\* The channel as the client of a subsystem sees it that is not decided or was given
\* up, was refused, or was accepted.
Fresh == {<<>>, <<ChannelClose>>}
Refused == {<<Failure>>, <<Failure, ChannelClose>>}
Served(w) ==
  /\ Len(w) >= 1 /\ w[1] = Success
  /\ \A i \in 2..Len(w) : w[i].kind \in {"answer", "exit-status", "close"}
  /\ \A i, j \in 1..Len(w) : i < j /\ w[i].kind = "answer" /\ w[j].kind = "answer" => w[i].id < w[j].id

WireInv ==
  /\ state = 1 => wire = (IF write = "ok" THEN <<Success>> ELSE <<>>)
  /\ state = 2 => wire \in Fresh \cup Refused /\ (write = "pending" => wire \in Fresh)
  /\ state = 0 => Served(wire)

\* A close on the wire is the server's.
CloseInv == \A i \in 1..Len(wire) : wire[i] = ChannelClose => chanClosed

\* The requests answered, the one kept in next and those not received yet, in the
\* order in which they were sent.
OrderInv ==
  /\ \A i \in 1..Len(reqs) : reqs[i] <= sent
  /\ \A i, j \in 1..Len(reqs) : i < j => reqs[i] < reqs[j]
  /\ \A k \in 1..Len(next) : next[k] <= sent /\ \A i \in 1..Len(reqs) : next[k] < reqs[i]
  /\ \A m \in 1..Len(wire) : wire[m].kind = "answer" =>
       /\ wire[m].id <= sent
       /\ \A i \in 1..Len(reqs) : wire[m].id < reqs[i]
       /\ \A k \in 1..Len(next) : wire[m].id < next[k]

DeferredInv == Types /\ StateInv /\ ServeInv /\ WireInv /\ CloseInv /\ OrderInv

--------------------------------------------------------------------------------
(* Messages and what appending one does. *)

LEMMA MessageKinds ==
  /\ Success.kind = "success" /\ Success.id = 0
  /\ Failure.kind = "failure" /\ Failure.id = 0
  /\ ExitStatus.kind = "exit-status" /\ ChannelClose.kind = "close"
  /\ \A id : Answer(id).kind = "answer" /\ Answer(id).id = id
  BY DEF Success, Failure, ExitStatus, ChannelClose, Answer

LEMMA MessageTypes ==
  /\ Success \in Messages /\ Failure \in Messages /\ ExitStatus \in Messages /\ ChannelClose \in Messages
  /\ \A id \in Nat \ {0} : Answer(id) \in Messages
  BY DEF Messages

\* A message that is an answer is one to a later request.
LEMMA AnswerIds ==
  ASSUME NEW m \in Messages
  PROVE  /\ m.kind = "answer" => m.id \in Nat \ {0}
         /\ m.kind = "close" => m = ChannelClose
         /\ m.kind = "success" => m = Success
  BY DEF Messages, Success, Failure, ExitStatus, ChannelClose, Answer

\* Sequences of at most two messages.
LEMMA ShortSequences ==
  ASSUME NEW a \in Messages, NEW b \in Messages
  PROVE  /\ Append(<<>>, a) = <<a>> /\ Append(<<a>>, b) = <<a, b>>
         /\ SubSeq(<<a>>, 2, 1) = <<>> /\ SubSeq(<<a, b>>, 2, 2) = <<b>>
<1>1. <<>> \in Seq(Messages) /\ <<a>> \in Seq(Messages) /\ <<a, b>> \in Seq(Messages)
  OBVIOUS
<1>2. Append(<<>>, a) = <<a>>
  <2>1. Append(<<>>, a) \in Seq(Messages) /\ Len(Append(<<>>, a)) = 1 /\ Append(<<>>, a)[1] = a
    BY <1>1
  <2> QED
    BY <1>1, <2>1, SeqEqual
<1>3. Append(<<a>>, b) = <<a, b>>
  <2>1. PICK u, v : u = Append(<<a>>, b) /\ v = <<a, b>>
    OBVIOUS
  <2>2. u \in Seq(Messages) /\ Len(u) = 2 /\ u[1] = a /\ u[2] = b
    BY <1>1, <2>1
  <2>3. v \in Seq(Messages) /\ Len(v) = 2 /\ v[1] = a /\ v[2] = b
    BY <1>1, <2>1
  <2>4. \A i \in 1..Len(u) : u[i] = v[i]
    BY <2>2, <2>3
  <2>5. u = v
    BY <2>2, <2>3, <2>4, SeqEqual
  <2> QED
    BY <2>1, <2>5
<1>4. SubSeq(<<a>>, 2, 1) = <<>>
  BY <1>1
<1>5. SubSeq(<<a, b>>, 2, 2) = <<b>>
  <2>1. PICK u, v : u = SubSeq(<<a, b>>, 2, 2) /\ v = <<b>>
    OBVIOUS
  <2>2. u \in Seq(Messages) /\ Len(u) = 1 /\ u[1] = b
    BY <1>1, <2>1
  <2>3. v \in Seq(Messages) /\ Len(v) = 1 /\ v[1] = b
    BY <2>1
  <2>4. \A i \in 1..Len(u) : u[i] = v[i]
    BY <2>2, <2>3
  <2>5. u = v
    BY <2>2, <2>3, <2>4, SeqEqual
  <2> QED
    BY <2>1, <2>5
<1> QED
  BY <1>2, <1>3, <1>4, <1>5

\* Sends appends one message or, on a closed channel or connection, none.
LEMMA SendsOne ==
  ASSUME Types, NEW m \in Messages, Sends(<<m>>)
  PROVE  \/ wire' = wire
         \/ ~chanClosed /\ ~connClosed /\ wire' = Append(wire, m)
<1>1. wire \o <<m>> = Append(wire, m)
  BY DEF Types
<1> QED
  BY <1>1 DEF Sends

LEMMA Appended ==
  ASSUME NEW w \in Seq(Messages), NEW m \in Messages
  PROVE  /\ Append(w, m) \in Seq(Messages) /\ Len(Append(w, m)) = Len(w) + 1
         /\ \A i \in 1..Len(w) : Append(w, m)[i] = w[i]
         /\ Append(w, m)[Len(w) + 1] = m
  OBVIOUS

\* An accepted subsystem's channel stays one when a later answer, an exit status or a
\* close follows.
LEMMA ServedAppend ==
  ASSUME NEW w \in Seq(Messages), Served(w), NEW m \in Messages, m.kind \in {"answer", "exit-status", "close"},
         m.kind = "answer" => \A i \in 1..Len(w) : w[i].kind = "answer" => w[i].id < m.id
  PROVE  Served(Append(w, m))
<1>1. PICK v : v = Append(w, m)
  OBVIOUS
<1>2. /\ v \in Seq(Messages) /\ Len(v) = Len(w) + 1 /\ Len(w) \in Nat
      /\ \A i \in 1..Len(w) : v[i] = w[i]
      /\ v[Len(w) + 1] = m
  BY <1>1, Appended
<1>3. Len(v) >= 1 /\ v[1] = Success
  BY <1>2 DEF Served
<1>4. \A i \in 2..Len(v) : v[i].kind \in {"answer", "exit-status", "close"}
  <2> TAKE i \in 2..Len(v)
  <2>1. CASE i = Len(w) + 1
    BY <1>2, <2>1
  <2>2. CASE i \in 2..Len(w)
    BY <1>2, <2>2 DEF Served
  <2> QED
    BY <1>2, <2>1, <2>2
<1>5. \A i, j \in 1..Len(v) : i < j /\ v[i].kind = "answer" /\ v[j].kind = "answer" => v[i].id < v[j].id
  <2> TAKE i, j \in 1..Len(v)
  <2> HAVE i < j /\ v[i].kind = "answer" /\ v[j].kind = "answer"
  <2>1. i \in 1..Len(w) /\ v[i] = w[i]
    BY <1>2
  <2>2. CASE j = Len(w) + 1
    BY <1>2, <2>1, <2>2
  <2>3. CASE j \in 1..Len(w)
    BY <1>2, <2>1, <2>3 DEF Served
  <2> QED
    BY <1>2, <2>2, <2>3
<1> QED
  BY <1>1, <1>3, <1>4, <1>5 DEF Served

--------------------------------------------------------------------------------
LEMMA DeferredInit == Init => DeferredInv
<1> SUFFICES ASSUME Init PROVE DeferredInv
  OBVIOUS
<1>1. Types
  BY DEF Init, Types
<1>2. StateInv /\ ServeInv
  BY DEF Init, StateInv, ServeInv
<1>3. WireInv /\ CloseInv /\ OrderInv
  BY DEF Init, WireInv, CloseInv, OrderInv
<1> QED
  BY <1>1, <1>2, <1>3 DEF DeferredInv

\* A step of the client, the handler or a goroutine that neither answers nor sends.
LEMMA DeferredKept ==
  ASSUME DeferredInv, UNCHANGED <<sent, reqs, next, responseVars, chanClosed, wire>>, ServeInv'
  PROVE  DeferredInv'
<1>1. Types' /\ StateInv'
  BY DEF DeferredInv, Types, StateInv, responseVars
<1>2. WireInv' /\ CloseInv' /\ OrderInv'
  BY DEF DeferredInv, WireInv, CloseInv, OrderInv, responseVars
<1> QED
  BY <1>1, <1>2 DEF DeferredInv

\* A step that closes the channel, if it does, and sends no answer.
LEMMA DeferredSent ==
  ASSUME DeferredInv, UNCHANGED <<sent, reqs, next, responseVars>>, ServeInv', WireInv', CloseInv',
         wire' \in Seq(Messages),
         \A m \in 1..Len(wire') : wire'[m].kind = "answer" => m \in 1..Len(wire) /\ wire'[m] = wire[m]
  PROVE  DeferredInv'
<1>1. Types' /\ StateInv'
  BY DEF DeferredInv, Types, StateInv, responseVars
<1>2. OrderInv'
  BY DEF DeferredInv, OrderInv
<1> QED
  BY <1>1, <1>2 DEF DeferredInv

\* The server closes the channel while deferredState is not 1.
LEMMA DeferredCloses ==
  ASSUME DeferredInv, UNCHANGED <<sent, reqs, next, responseVars>>, ServeInv', state # 1,
         chanClosed', Sends(<<ChannelClose>>)
  PROVE  DeferredInv'
<1>1. wire' = wire \/ (~chanClosed /\ wire' = Append(wire, ChannelClose))
  BY SendsOne, MessageTypes DEF DeferredInv
<1>2. CloseInv'
  BY DEF CloseInv
<1>3. wire \in Seq(Messages) /\ state' = state /\ write' = write
  BY DEF DeferredInv, Types, responseVars
<1>4. CASE wire' = wire
  BY <1>2, <1>3, <1>4, DeferredSent DEF DeferredInv, WireInv
<1>5. CASE ~chanClosed /\ wire' = Append(wire, ChannelClose)
  <2>1. /\ wire' \in Seq(Messages) /\ Len(wire') = Len(wire) + 1 /\ Len(wire) \in Nat
        /\ \A i \in 1..Len(wire) : wire'[i] = wire[i]
        /\ wire'[Len(wire) + 1] = ChannelClose
    BY <1>3, <1>5, Appended, MessageTypes
  <2>2. \A m \in 1..Len(wire') : wire'[m].kind = "answer" => m \in 1..Len(wire) /\ wire'[m] = wire[m]
    BY <2>1, MessageKinds
  <2>3. \A i \in 1..Len(wire) : wire[i] # ChannelClose
    BY <1>5 DEF DeferredInv, CloseInv
  <2>4. state = 2 => (wire = <<>> \/ wire = <<Failure>>) /\ (write = "pending" => wire = <<>>)
    <3>1. <<ChannelClose>>[1] = ChannelClose /\ <<Failure, ChannelClose>>[2] = ChannelClose
          /\ Len(<<ChannelClose>>) = 1 /\ Len(<<Failure, ChannelClose>>) = 2
      OBVIOUS
    <3>2. wire # <<ChannelClose>> /\ wire # <<Failure, ChannelClose>>
      BY <2>3, <3>1
    <3> QED
      BY <3>2 DEF DeferredInv, WireInv, Fresh, Refused
  <2>5. Append(<<>>, ChannelClose) = <<ChannelClose>> /\ Append(<<Failure>>, ChannelClose) = <<Failure, ChannelClose>>
    BY ShortSequences, MessageTypes
  <2>6. state = 2 => wire' \in Fresh \cup Refused /\ (write = "pending" => wire' \in Fresh)
    BY <1>5, <2>4, <2>5 DEF Fresh, Refused
  <2>7. state = 0 => Served(wire')
    BY <1>3, <1>5, ServedAppend, MessageTypes, MessageKinds DEF DeferredInv, WireInv
  <2>8. WireInv'
    BY <1>3, <2>6, <2>7 DEF WireInv, Served
  <2> QED
    BY <1>2, <2>1, <2>2, <2>8, DeferredSent
<1> QED
  BY <1>1, <1>4, <1>5

\* Exit, once the subsystem is accepted: the exit status and the close, or nothing.
LEMMA DeferredExits ==
  ASSUME DeferredInv, UNCHANGED <<sent, reqs, next, responseVars>>, ServeInv', state = 0, Exit
  PROVE  DeferredInv'
<1>1. wire \in Seq(Messages) /\ state' = state /\ write' = write /\ Served(wire)
  BY DEF DeferredInv, Types, WireInv, responseVars
<1>2. CASE wire' = wire
  <2>1. CloseInv'
    BY <1>2 DEF DeferredInv, CloseInv, Exit
  <2> QED
    BY <1>1, <1>2, <2>1, DeferredSent DEF DeferredInv, WireInv
<1>3. CASE wire' = wire \o <<ExitStatus, ChannelClose>> /\ ~exited
  <2>1. PICK v : v = Append(wire, ExitStatus)
    OBVIOUS
  <2>2. wire' = Append(v, ChannelClose)
    BY <1>1, <1>3, <2>1, MessageTypes
  <2>3. Served(v)
    BY <1>1, <2>1, ServedAppend, MessageTypes, MessageKinds
  <2>4. /\ v \in Seq(Messages) /\ Len(v) = Len(wire) + 1 /\ Len(wire) \in Nat
        /\ \A i \in 1..Len(wire) : v[i] = wire[i]
        /\ v[Len(wire) + 1] = ExitStatus
    BY <1>1, <2>1, Appended, MessageTypes
  <2>5. Served(wire')
    BY <2>2, <2>3, <2>4, ServedAppend, MessageTypes, MessageKinds
  <2>6. /\ wire' \in Seq(Messages) /\ Len(wire') = Len(v) + 1
        /\ \A i \in 1..Len(v) : wire'[i] = v[i]
        /\ wire'[Len(v) + 1] = ChannelClose
    BY <2>2, <2>4, Appended, MessageTypes
  <2>7. \A m \in 1..Len(wire') : wire'[m].kind = "answer" => m \in 1..Len(wire) /\ wire'[m] = wire[m]
    BY <2>4, <2>6, MessageKinds
  <2>8. WireInv'
    BY <1>1, <2>5 DEF WireInv, Served
  <2>9. CloseInv'
    BY <1>3 DEF CloseInv, Exit
  <2> QED
    BY <2>6, <2>7, <2>8, <2>9, DeferredSent
<1> QED
  BY <1>2, <1>3 DEF Exit, Sends

\* reply and abandon: nothing is sent yet.
LEMMA DeferredAnswers ==
  ASSUME DeferredInv, UNCHANGED <<sent, reqs, next, chanClosed, wire>>, writer = "none",
         \/ UNCHANGED responseVars
         \/ ~answered /\ Abandon
         \/ ~answered /\ \E who \in {"loop", "handler"}, ok \in BOOLEAN : Decide(who, ok),
         loop' = "serve" \/ result' # "off" => loop = "serve" \/ result # "off"
  PROVE  DeferredInv'
<1>1. CASE UNCHANGED responseVars
  <2>1. ServeInv'
    BY <1>1 DEF DeferredInv, ServeInv, responseVars
  <2> QED
    BY <1>1, <2>1, DeferredKept
<1>2. ASSUME ~answered, Abandon \/ \E who \in {"loop", "handler"}, ok \in BOOLEAN : Decide(who, ok)
      PROVE  DeferredInv'
  <2>1. state = 1 /\ write = "none" /\ ~accepted /\ ~failed /\ wire = <<>>
    BY <1>2 DEF DeferredInv, StateInv, WireInv
  <2>2. answered' /\ ~failed'
    BY <1>2, <2>1 DEF Abandon, Decide
  <2>3. StateInv' /\ state' \in {0, 1, 2} /\ state' # 0 /\ write' \in {"none", "pending"}
    <3>1. CASE Abandon
      BY <2>1, <2>2, <3>1 DEF Abandon, StateInv
    <3>2. ASSUME NEW who \in {"loop", "handler"}, NEW ok \in BOOLEAN, Decide(who, ok)
          PROVE  StateInv' /\ state' \in {0, 1, 2} /\ state' # 0 /\ write' \in {"none", "pending"}
      <4>1. CASE ok
        BY <2>1, <2>2, <3>2, <4>1 DEF Decide, StateInv
      <4>2. CASE ~ok
        BY <2>1, <2>2, <3>2, <4>2 DEF Decide, StateInv
      <4> QED
        BY <4>1, <4>2
    <3> QED
      BY <1>2, <3>1, <3>2
  <2>4. Types'
    BY <2>3 DEF DeferredInv, Types
  <2>5. WireInv'
    BY <2>1, <2>3 DEF WireInv, Fresh
  <2>6. ServeInv'
    BY <2>1 DEF DeferredInv, ServeInv
  <2>7. CloseInv' /\ OrderInv'
    BY DEF DeferredInv, CloseInv, OrderInv
  <2> QED
    BY <2>3, <2>4, <2>5, <2>6, <2>7 DEF DeferredInv
<1> QED
  BY <1>1, <1>2

\* The reply to the subsystem request is the first message on the channel.
LEMMA DeferredWritten == ASSUME DeferredInv, ReplyStep PROVE DeferredInv'
<1> USE DEF clientVars, connVars, loopVars, handlerVars, endVars
<1>1. CASE ReplyWritten
  <2>1. write = "pending" /\ write' = "ok" /\ ~chanClosed /\ ~connClosed /\ UNCHANGED <<sent, reqs, next, chanClosed, loop, result>>
        /\ UNCHANGED <<answered, accepted, failed, done, writer, state>>
    BY <1>1 DEF ReplyWritten
  <2>2. answered /\ state = (IF accepted THEN 1 ELSE 2)
    BY <2>1 DEF DeferredInv, StateInv
  <2>3. wire = <<>>
    <3>1. <<ChannelClose>>[1] = ChannelClose /\ Len(<<ChannelClose>>) = 1
      OBVIOUS
    <3>2. wire # <<ChannelClose>>
      BY <2>1, <3>1 DEF DeferredInv, CloseInv
    <3> QED
      BY <2>1, <2>2, <3>2 DEF DeferredInv, WireInv, Fresh
  <2>4. wire' = <<IF accepted THEN Success ELSE Failure>>
    BY <1>1, <2>1, <2>3 DEF ReplyWritten, Sends
  <2>5. PICK m \in {Success, Failure} : wire' = <<m>> /\ m = (IF accepted THEN Success ELSE Failure)
    BY <2>4
  <2>6. wire' \in Seq(Messages) /\ Len(wire') = 1 /\ wire'[1] = m /\ m.kind # "answer" /\ m # ChannelClose
    BY <2>5, MessageTypes, MessageKinds
  <2>7. Types'
    BY <2>1, <2>6 DEF DeferredInv, Types
  <2>8. StateInv' /\ ServeInv'
    BY <2>1 DEF DeferredInv, StateInv, ServeInv
  <2>9. WireInv'
    BY <2>1, <2>2, <2>5 DEF WireInv, Refused
  <2>10. CloseInv'
    BY <2>6 DEF CloseInv
  <2>11. OrderInv'
    BY <2>1, <2>6 DEF DeferredInv, OrderInv
  <2> QED
    BY <2>7, <2>8, <2>9, <2>10, <2>11 DEF DeferredInv
<1>2. CASE ReplyFails
  <2>1. write = "pending" /\ write' = "failed" /\ UNCHANGED <<sent, reqs, next, chanClosed, loop, result, wire>>
        /\ UNCHANGED <<answered, accepted, failed, done, writer, state>>
    BY <1>2 DEF ReplyFails
  <2>2. Types' /\ StateInv' /\ ServeInv'
    BY <2>1 DEF DeferredInv, Types, StateInv, ServeInv
  <2>3. WireInv'
    BY <2>1 DEF DeferredInv, StateInv, WireInv
  <2>4. CloseInv' /\ OrderInv'
    BY <2>1 DEF DeferredInv, CloseInv, OrderInv
  <2> QED
    BY <2>2, <2>3, <2>4 DEF DeferredInv
<1>3. CASE ReplySettles
  <2>1. /\ write \in {"ok", "failed"} /\ write' = "none" /\ writer' = "none"
        /\ state' = (IF write = "failed" THEN 2 ELSE IF accepted THEN 0 ELSE state)
        /\ UNCHANGED <<sent, reqs, next, chanClosed, result, wire, answered, accepted>>
    BY <1>3 DEF ReplySettles
  <2>2. (failed' <=> write = "failed") /\ (loop' = "serve" => loop = "serve")
    BY <1>3 DEF ReplySettles
  <2>3. answered /\ state = (IF accepted THEN 1 ELSE 2)
    BY <2>1 DEF DeferredInv, StateInv
  <2>4. ServeInv'
    BY <2>1, <2>2, <2>3 DEF DeferredInv, ServeInv
  <2>5. Types'
    BY <2>1, <2>3 DEF DeferredInv, Types
  <2>6. StateInv'
    BY <2>1, <2>2, <2>3 DEF StateInv
  <2>7. Served(<<Success>>)
    BY DEF Served
  <2>8. WireInv'
    <3>1. CASE write = "failed"
      BY <2>1, <2>3, <3>1 DEF DeferredInv, WireInv, Fresh
    <3>2. CASE write = "ok" /\ accepted
      <4>1. wire' = <<Success>> /\ state' = 0
        BY <2>1, <2>3, <3>2 DEF DeferredInv, WireInv
      <4> QED
        BY <2>7, <4>1 DEF WireInv, Served
    <3>3. CASE write = "ok" /\ ~accepted
      BY <2>1, <2>3, <3>3 DEF DeferredInv, WireInv
    <3> QED
      BY <2>1, <3>1, <3>2, <3>3
  <2>9. CloseInv' /\ OrderInv'
    BY <2>1 DEF DeferredInv, CloseInv, OrderInv
  <2> QED
    BY <2>4, <2>5, <2>6, <2>8, <2>9 DEF DeferredInv
<1> QED
  BY <1>1, <1>2, <1>3 DEF ReplyStep

\* The client sends one more request, and the loop takes one while it waits.
LEMMA DeferredReceives == ASSUME DeferredInv, ClientSends \/ SelectRequest PROVE DeferredInv'
<1> USE DEF clientVars, connVars, loopVars, handlerVars, endVars, responseVars
<1>1. sent \in Nat /\ reqs \in Seq(Nat \ {0}) /\ wire \in Seq(Messages) /\ next \in Seq(Nat \ {0}) /\ OrderInv
  BY DEF DeferredInv, Types
<1>2. CASE ClientSends
  <2>1. sent' = sent + 1 /\ reqs' = Append(reqs, sent + 1) /\ UNCHANGED <<responseVars, next, wire, chanClosed, loop, result>>
    BY <1>2 DEF ClientSends
  <2>2. /\ reqs' \in Seq(Nat \ {0}) /\ Len(reqs') = Len(reqs) + 1 /\ reqs'[Len(reqs) + 1] = sent + 1
        /\ \A i \in 1..Len(reqs) : reqs'[i] = reqs[i] /\ reqs[i] \in Nat
        /\ \A k \in 1..Len(next) : next[k] \in Nat
        /\ \A i \in 1..Len(wire) : wire[i].kind = "answer" => wire[i].id \in Nat
    BY <1>1, <2>1, AnswerIds
  <2>3. OrderInv'
    BY <1>1, <2>1, <2>2 DEF OrderInv
  <2>4. Types' /\ StateInv' /\ ServeInv'
    BY <1>1, <2>1, <2>2 DEF DeferredInv, Types, StateInv, ServeInv
  <2>5. WireInv' /\ CloseInv'
    BY <2>1 DEF DeferredInv, WireInv, CloseInv
  <2> QED
    BY <2>3, <2>4, <2>5 DEF DeferredInv
<1>3. CASE SelectRequest
  <2>1. /\ reqs # <<>> /\ next' = <<Head(reqs)>> /\ reqs' = Tail(reqs) /\ loop' = "check"
        /\ UNCHANGED <<responseVars, sent, wire, chanClosed, result>>
    BY <1>3 DEF SelectRequest, LoopGoes
  <2>2. /\ reqs' \in Seq(Nat \ {0}) /\ Len(reqs) = Len(reqs') + 1 /\ Len(reqs') \in Nat
        /\ \A i \in 1..Len(reqs') : reqs'[i] = reqs[i + 1]
        /\ next' \in Seq(Nat \ {0}) /\ Len(next') = 1 /\ next'[1] = reqs[1]
    BY <1>1, <2>1
  <2>3. OrderInv'
    BY <1>1, <2>1, <2>2 DEF OrderInv
  <2>4. Types' /\ StateInv' /\ ServeInv'
    BY <1>1, <2>1, <2>2 DEF DeferredInv, Types, StateInv, ServeInv
  <2>5. WireInv' /\ CloseInv'
    BY <2>1 DEF DeferredInv, WireInv, CloseInv
  <2> QED
    BY <2>3, <2>4, <2>5 DEF DeferredInv
<1> QED
  BY <1>2, <1>3

\* handleRequests answers the request kept in next, or the first one received.
LEMMA DeferredServes == ASSUME DeferredInv, ServePending \/ ServeNext PROVE DeferredInv'
<1> USE DEF clientVars, connVars, loopVars, handlerVars, endVars, responseVars
<1>1. sent \in Nat /\ reqs \in Seq(Nat \ {0}) /\ wire \in Seq(Messages) /\ next \in Seq(Nat \ {0}) /\ OrderInv
  BY DEF DeferredInv, Types
<1>2. UNCHANGED <<responseVars, sent, chanClosed, loop, result>> /\ loop = "serve"
  BY DEF ServePending, ServeNext
<1>3. state = 0 /\ Served(wire)
  BY <1>2 DEF DeferredInv, ServeInv, WireInv
\* The request being answered comes before all that are left.
<1>4. PICK id \in Nat \ {0} :
        /\ Sends(<<Answer(id)>>) /\ id <= sent
        /\ \A m \in 1..Len(wire) : wire[m].kind = "answer" => wire[m].id < id
        /\ \A i \in 1..Len(reqs') : id < reqs'[i]
        /\ \A k \in 1..Len(next') : id < next'[k]
  <2>1. CASE ServePending
    <3>1. next # <<>> /\ next' = <<>> /\ reqs' = reqs /\ Sends(<<Answer(Head(next))>>)
      BY <2>1 DEF ServePending
    <3>2. Head(next) = next[1] /\ next[1] \in Nat \ {0} /\ 1 \in 1..Len(next) /\ Len(next') = 0
      BY <1>1, <3>1
    <3>3. /\ next[1] <= sent
          /\ \A m \in 1..Len(wire) : wire[m].kind = "answer" => wire[m].id < next[1]
          /\ \A i \in 1..Len(reqs') : next[1] < reqs'[i]
      BY <1>1, <3>1, <3>2 DEF OrderInv
    <3>4. \A k \in 1..Len(next') : next[1] < next'[k]
      BY <3>2
    <3> QED
      BY <3>1, <3>2, <3>3, <3>4
  <2>2. CASE ServeNext
    <3>1. reqs # <<>> /\ next = <<>> /\ next' = next /\ reqs' = Tail(reqs) /\ Sends(<<Answer(Head(reqs))>>)
      BY <2>2 DEF ServeNext
    <3>2. /\ Head(reqs) = reqs[1] /\ reqs[1] \in Nat \ {0} /\ 1 \in 1..Len(reqs) /\ Len(next') = 0
          /\ Len(reqs) = Len(reqs') + 1 /\ Len(reqs') \in Nat
          /\ \A i \in 1..Len(reqs') : reqs'[i] = reqs[i + 1]
      BY <1>1, <3>1
    <3>3. /\ reqs[1] <= sent
          /\ \A m \in 1..Len(wire) : wire[m].kind = "answer" => wire[m].id < reqs[1]
          /\ \A i \in 1..Len(reqs') : reqs[1] < reqs'[i]
      BY <1>1, <3>1, <3>2 DEF OrderInv
    <3>4. \A k \in 1..Len(next') : reqs[1] < next'[k]
      BY <3>2
    <3> QED
      BY <3>1, <3>2, <3>3, <3>4
  <2> QED
    BY <2>1, <2>2
\* What is left is a part of what there was.
<1>5. /\ reqs' \in Seq(Nat \ {0}) /\ next' \in Seq(Nat \ {0}) /\ Len(next') <= 1
      /\ \A i \in 1..Len(reqs') : reqs'[i] <= sent
      /\ \A i, j \in 1..Len(reqs') : i < j => reqs'[i] < reqs'[j]
      /\ \A k \in 1..Len(next') : next'[k] <= sent /\ \A i \in 1..Len(reqs') : next'[k] < reqs'[i]
      /\ \A m \in 1..Len(wire) : wire[m].kind = "answer" =>
           /\ wire[m].id <= sent
           /\ \A i \in 1..Len(reqs') : wire[m].id < reqs'[i]
           /\ \A k \in 1..Len(next') : wire[m].id < next'[k]
  <2>1. CASE ServePending
    <3>1. next' = <<>> /\ reqs' = reqs
      BY <2>1 DEF ServePending
    <3> QED
      BY <1>1, <3>1 DEF OrderInv
  <2>2. CASE ServeNext
    <3>1. next = <<>> /\ next' = next /\ reqs' = Tail(reqs) /\ reqs # <<>>
      BY <2>2 DEF ServeNext
    <3>2. /\ reqs' \in Seq(Nat \ {0}) /\ Len(reqs) = Len(reqs') + 1 /\ Len(reqs') \in Nat
          /\ \A i \in 1..Len(reqs') : reqs'[i] = reqs[i + 1]
      BY <1>1, <3>1
    <3> QED
      BY <1>1, <3>1, <3>2 DEF OrderInv
  <2> QED
    BY <2>1, <2>2
<1>6. wire' = wire \/ (~chanClosed /\ wire' = Append(wire, Answer(id)))
  BY <1>4, SendsOne, MessageTypes DEF DeferredInv
<1>7. StateInv' /\ ServeInv'
  BY <1>2 DEF DeferredInv, StateInv, ServeInv
<1>8. CASE wire' = wire
  <2>1. OrderInv'
    BY <1>2, <1>5, <1>8 DEF OrderInv
  <2>2. Types'
    BY <1>2, <1>5, <1>8 DEF DeferredInv, Types
  <2>3. WireInv' /\ CloseInv'
    BY <1>2, <1>8 DEF DeferredInv, WireInv, CloseInv
  <2> QED
    BY <1>7, <2>1, <2>2, <2>3 DEF DeferredInv
<1>9. CASE wire' = Append(wire, Answer(id))
  <2>1. /\ wire' \in Seq(Messages) /\ Len(wire') = Len(wire) + 1 /\ Len(wire) \in Nat
        /\ \A i \in 1..Len(wire) : wire'[i] = wire[i]
        /\ wire'[Len(wire) + 1] = Answer(id)
    BY <1>1, <1>9, Appended, MessageTypes
  <2>2. Answer(id).kind = "answer" /\ Answer(id).id = id /\ Answer(id) # ChannelClose
    BY MessageKinds
  <2>3. \A m \in 1..Len(wire') : m \in 1..Len(wire) \/ m = Len(wire) + 1
    BY <2>1
  <2>4. Types'
    BY <1>2, <1>5, <2>1 DEF DeferredInv, Types
  <2>5. CloseInv'
    BY <1>2, <2>1, <2>2, <2>3 DEF DeferredInv, CloseInv
  <2>6. Served(wire')
    BY <1>1, <1>3, <1>4, <1>9, <2>2, ServedAppend, MessageTypes
  <2>7. WireInv'
    BY <1>2, <1>3, <2>6 DEF WireInv, Served
  <2>8. ASSUME NEW m \in 1..Len(wire'), wire'[m].kind = "answer"
        PROVE  /\ wire'[m].id <= sent'
               /\ \A i \in 1..Len(reqs') : wire'[m].id < reqs'[i]
               /\ \A k \in 1..Len(next') : wire'[m].id < next'[k]
    <3>1. CASE m \in 1..Len(wire)
      BY <1>2, <1>5, <2>1, <2>8, <3>1
    <3>2. CASE m = Len(wire) + 1
      BY <1>2, <1>4, <2>1, <2>2, <3>2
    <3> QED
      BY <2>3, <3>1, <3>2
  <2>9. OrderInv'
    BY <1>2, <1>5, <2>8 DEF OrderInv
  <2> QED
    BY <1>7, <2>4, <2>5, <2>7, <2>9 DEF DeferredInv
<1> QED
  BY <1>6, <1>8, <1>9

LEMMA DeferredNext == DeferredInv /\ [Next]_vars => DeferredInv'
<1> SUFFICES ASSUME DeferredInv, [Next]_vars PROVE DeferredInv'
  OBVIOUS
<1> USE DEF clientVars, connVars, loopVars, handlerVars, endVars
<1>1. CASE ClientCloses \/ ContextCanceled \/ UNCHANGED vars \/ \E r \in Results : HandlerReturns(r)
  <2>1. UNCHANGED <<sent, reqs, next, responseVars, chanClosed, wire, loop, result>>
    BY <1>1 DEF ClientCloses, ContextCanceled, HandlerReturns, vars
  <2>2. ServeInv'
    BY <2>1 DEF DeferredInv, ServeInv, responseVars
  <2> QED
    BY <2>1, <2>2, DeferredKept
<1>2. CASE SelectDone \/ SelectReturned \/ SelectTimer \/ SelectGone \/ Undecided \/ ServeEnds \/ SessionReturns
  <2>1. UNCHANGED <<sent, reqs, next, responseVars, chanClosed, wire, result>> /\ loop' # "serve"
    BY <1>2 DEF SelectDone, SelectReturned, SelectTimer, SelectGone, Undecided, ServeEnds, SessionReturns, LoopGoes, LoopFrame
  <2>2. ServeInv'
    BY <2>1 DEF DeferredInv, ServeInv, responseVars
  <2> QED
    BY <2>1, <2>2, DeferredKept
<1>3. CASE \E escalates \in BOOLEAN : Report(escalates)
  <2>1. UNCHANGED <<sent, reqs, next, responseVars, chanClosed, wire, result>> /\ loop' # "serve"
    BY <1>3 DEF Report, LoopGoes
  <2>2. ServeInv'
    BY <2>1 DEF DeferredInv, ServeInv, responseVars
  <2> QED
    BY <2>1, <2>2, DeferredKept
<1>4. CASE Accepted
  <2>1. /\ UNCHANGED <<sent, reqs, next, responseVars, chanClosed, wire>>
        /\ writer = "none" /\ answered /\ accepted /\ ~failed
    BY <1>4 DEF Accepted
  <2>2. state = 0 /\ state' = state
    BY <2>1 DEF DeferredInv, StateInv, responseVars
  <2> QED
    BY <2>1, <2>2, DeferredKept DEF ServeInv
<1>5. CASE LoopReplies \/ LoopAbandons
  <2>1. UNCHANGED <<sent, reqs, next, chanClosed, wire, result>> /\ writer = "none" /\ loop' # "serve"
    BY <1>5 DEF LoopReplies, LoopAbandons, Reply, LoopGoes
  <2>2. \/ UNCHANGED responseVars
        \/ ~answered /\ Abandon
        \/ ~answered /\ Decide("loop", FALSE)
    BY <1>5 DEF LoopReplies, LoopAbandons, Reply
  <2> QED
    BY <2>1, <2>2, DeferredAnswers
<1>6. ASSUME NEW ok \in BOOLEAN, HandlerReplies(ok) PROVE DeferredInv'
  <2>1. UNCHANGED <<sent, reqs, next, chanClosed, wire, result, loop>> /\ writer = "none"
    BY <1>6 DEF HandlerReplies, Reply
  <2>2. \/ UNCHANGED responseVars
        \/ ~answered /\ Abandon
        \/ ~answered /\ Decide("handler", ok)
    BY <1>6 DEF HandlerReplies, Reply
  <2> QED
    BY <2>1, <2>2, DeferredAnswers
<1>7. CASE Rejected
  <2>1. /\ UNCHANGED <<sent, reqs, next, responseVars, result>> /\ chanClosed' /\ Sends(<<ChannelClose>>)
        /\ writer = "none" /\ answered /\ loop' # "serve"
    BY <1>7 DEF Rejected, LoopGoes
  <2>2. state # 1
    BY <2>1 DEF DeferredInv, StateInv
  <2>3. ServeInv'
    BY <2>1 DEF DeferredInv, ServeInv, responseVars
  <2> QED
    BY <2>1, <2>2, <2>3, DeferredCloses
<1>8. CASE HandlerCloses
  <2>1. /\ UNCHANGED <<sent, reqs, next, responseVars, result, loop>> /\ chanClosed' /\ Sends(<<ChannelClose>>)
        /\ state # 1
    BY <1>8 DEF HandlerCloses
  <2>2. ServeInv'
    BY <2>1 DEF DeferredInv, ServeInv, responseVars
  <2> QED
    BY <2>1, <2>2, DeferredCloses
<1>9. CASE HandlerExits
  <2>1. UNCHANGED <<sent, reqs, next, responseVars, result, loop>> /\ Exit /\ state = 0
    BY <1>9 DEF HandlerExits, MayExit
  <2>2. ServeInv'
    BY <2>1 DEF DeferredInv, ServeInv, responseVars
  <2> QED
    BY <2>1, <2>2, DeferredExits
<1>10. CASE ResultStep
  <2>1. result # "off" /\ UNCHANGED <<sent, reqs, next, responseVars>>
    BY <1>10 DEF ResultStep, ResultCloses, ResultTaken, ResultExits, ResultRefused, ResultDispatched, ResultFrame
  <2>2. state = 0 /\ state' = state
    BY <2>1 DEF DeferredInv, ServeInv, responseVars
  <2>3. ServeInv'
    BY <2>2 DEF ServeInv
  <2>4. CASE ResultCloses
    BY <2>1, <2>2, <2>3, <2>4, DeferredCloses DEF ResultCloses
  <2>5. ASSUME NEW fails \in BOOLEAN, ResultTaken(fails) \/ ResultRefused(fails) PROVE DeferredInv'
    <3>1. UNCHANGED <<chanClosed, wire>>
      BY <2>5 DEF ResultTaken, ResultRefused
    <3> QED
      BY <2>1, <2>3, <3>1, DeferredKept
  <2>6. ASSUME NEW fails \in BOOLEAN, ResultExits(fails) PROVE DeferredInv'
    <3>1. Exit
      BY <2>2, <2>6 DEF ResultExits, MayExit
    <3> QED
      BY <2>1, <2>2, <2>3, <3>1, DeferredExits
  <2>7. ASSUME NEW x \in BOOLEAN, NEW y \in BOOLEAN, NEW z \in BOOLEAN, ResultDispatched(x, y, z)
        PROVE  DeferredInv'
    <3>1. CASE z /\ ~connClosed'
      <4>1. chanClosed' /\ Sends(<<ChannelClose>>)
        BY <2>7, <3>1 DEF ResultDispatched
      <4> QED
        BY <2>1, <2>2, <2>3, <4>1, DeferredCloses
    <3>2. CASE ~(z /\ ~connClosed')
      <4>1. wire' = wire /\ (chanClosed => chanClosed')
        BY <2>7, <3>2 DEF ResultDispatched
      <4>2. CloseInv'
        BY <4>1 DEF DeferredInv, CloseInv
      <4>3. WireInv'
        BY <2>1, <4>1 DEF DeferredInv, WireInv, responseVars
      <4>4. wire' \in Seq(Messages)
        BY <4>1 DEF DeferredInv, Types
      <4> QED
        BY <2>1, <2>3, <4>1, <4>2, <4>3, <4>4, DeferredSent
    <3> QED
      BY <3>1, <3>2
  <2> QED
    BY <1>10, <2>4, <2>5, <2>6, <2>7 DEF ResultStep
<1> QED
  BY <1>1, <1>2, <1>3, <1>4, <1>5, <1>6, <1>7, <1>8, <1>9, <1>10, DeferredWritten, DeferredReceives, DeferredServes
  DEF Next, LoopStep, SelectStep, HandlerStep, Terminated

--------------------------------------------------------------------------------
\* The inductive invariant holds in every state: what deferredState says of the answer
\* is what the client has been sent.
THEOREM DeferredInvHolds == Spec => []DeferredInv
  BY DeferredInit, DeferredNext, PTL DEF Spec

\* The answers reach the client in the order of the requests and none of them twice, a
\* refusal is followed by the close only, and an exit status comes after the success
\* reply, for every number of later requests.
THEOREM AnsweredInOrderHolds == Spec => []AnsweredInOrder
<1>1. DeferredInv => AnsweredInOrder
  <2> SUFFICES ASSUME DeferredInv PROVE AnsweredInOrder
    OBVIOUS
  <2>1. wire \in Seq(Messages) /\ Len(wire) \in Nat /\ \A i \in 1..Len(wire) : wire[i] \in Messages
    BY DEF DeferredInv, Types
  <2>2. CASE Served(wire)
    <3>1. Len(wire) >= 1 /\ wire[1] = Success /\ Head(wire) = Success
      BY <2>1, <2>2 DEF Served
    <3>2. ASSUME NEW i \in 1..Len(wire), NEW j \in 1..Len(wire), i < j,
                 wire[i].kind \in {"success", "answer"}, wire[j].kind \in {"success", "failure", "answer"}
          PROVE  wire[i].id < wire[j].id
      <4>1. j \in 2..Len(wire)
        BY <2>1, <3>2
      <4>2. wire[j].kind = "answer"
        BY <2>2, <3>2, <4>1 DEF Served
      <4>3. wire[j].id \in Nat \ {0}
        BY <2>1, <4>2, AnswerIds
      <4>4. CASE i = 1
        BY <3>1, <4>3, <4>4, MessageKinds
      <4>5. CASE i \in 2..Len(wire)
        <5>1. wire[i].kind = "answer"
          BY <2>2, <3>2, <4>5 DEF Served
        <5> QED
          BY <2>2, <3>2, <4>2, <5>1 DEF Served
      <4> QED
        BY <2>1, <4>4, <4>5
    <3>3. \A i \in 1..Len(wire) : wire[i] # Failure
      <4> TAKE i \in 1..Len(wire)
      <4>1. CASE i = 1
        BY <3>1, <4>1, MessageKinds
      <4>2. CASE i \in 2..Len(wire)
        BY <2>2, <4>2, MessageKinds DEF Served
      <4> QED
        BY <2>1, <4>1, <4>2
    <3> QED
      BY <3>1, <3>2, <3>3 DEF AnsweredInOrder
  <2>3. CASE wire \in Fresh \cup Refused \cup {<<Success>>}
    <3>1. PICK n \in 0..2 : Len(wire) = n /\ \A i \in 2..n : wire[i] = ChannelClose
      BY <2>3 DEF Fresh, Refused
    <3>2. \A j \in 1..Len(wire) : j >= 2 => wire[j] = ChannelClose
      BY <3>1
    <3>3. ASSUME NEW i \in 1..Len(wire), NEW j \in 1..Len(wire), i < j,
                 wire[i].kind \in {"success", "answer"}, wire[j].kind \in {"success", "failure", "answer"}
          PROVE  wire[i].id < wire[j].id
      BY <3>1, <3>2, <3>3, MessageKinds
    <3>4. Len(wire) >= 1 => wire[1] \in {ChannelClose, Failure, Success}
      BY <2>3 DEF Fresh, Refused
    <3>5. \A i \in 1..Len(wire) : wire[i].kind \notin {"answer", "exit-status"}
      BY <3>1, <3>2, <3>4, MessageKinds
    <3>6. {"answer", "exit-status"} \cap Kinds(wire) = {}
      BY <3>5 DEF Kinds
    <3>7. ASSUME NEW i \in 1..Len(wire), wire[i] = Failure
          PROVE  i = 1 /\ SubSeq(wire, 2, Len(wire)) \in {<<>>, <<ChannelClose>>}
      <4>1. i = 1 /\ wire[1] # Success /\ wire[1] # ChannelClose
        BY <3>1, <3>2, <3>7, MessageKinds
      <4>2. wire \in Refused
        BY <2>3, <3>1, <4>1 DEF Fresh
      <4>3. SubSeq(<<Failure>>, 2, 1) = <<>> /\ SubSeq(<<Failure, ChannelClose>>, 2, 2) = <<ChannelClose>>
        BY ShortSequences, MessageTypes
      <4> QED
        BY <4>1, <4>2, <4>3 DEF Refused
    <3> QED
      BY <3>3, <3>6, <3>7 DEF AnsweredInOrder
  <2>4. wire = <<>> \/ wire = <<Success>> \/ wire \in Fresh \cup Refused \/ Served(wire)
    BY DEF DeferredInv, Types, WireInv
  <2> QED
    BY <2>2, <2>3, <2>4 DEF Fresh
<1> QED
  BY <1>1, DeferredInvHolds, PTL
================================================================================
