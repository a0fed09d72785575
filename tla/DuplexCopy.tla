------------------------------- MODULE DuplexCopy -------------------------------
(***************************************************************************)
(* FullDuplexCopy (copy.go): two goroutines copy, one each way; the caller *)
(* waits for both and closes the streams when its context is done or one   *)
(* of them fails.  Callbacks go to an observer goroutine that may never    *)
(* take one.                                                               *)
(*                                                                         *)
(* A component without a specification of its own: ChannelWorker calls     *)
(* it.  Close unblocks Read and Write, as the function's contract demands. *)
(***************************************************************************)
EXTENDS Integers

Dirs == {"l2r", "r2l"}

\* Fault: room for one callback less.
ObserverCap_Small == 5

\* The capacity of observer: OnStart and OnEnd, and two for each direction.
ObserverCap == 6

VARIABLES
  copyAt,         \* "off", "copying" or "returned"
  dir,            \* where each goroutine stands in copyFull
  dirErr,         \* it found a relevant error
  halfCloses,     \* the directions whose writer has CloseWrite
  observed,       \* all callbacks of FullDuplexCopyOpts are set
  observer,       \* the number of callbacks in the queue
  streamsClosed,  \* closeStreams was called
  copyErr,        \* rErr is set
  ctxSeen         \* ctxDone is nil

copyArgs == <<halfCloses, observed>>
copyVars == <<copyAt, dir, dirErr, copyArgs, observer, streamsClosed, copyErr, ctxSeen>>

CopyInit ==
  /\ copyAt = "off" /\ dir = [d \in Dirs |-> "off"] /\ dirErr = [d \in Dirs |-> FALSE]
  /\ halfCloses = Dirs /\ observed = FALSE /\ observer = 0
  /\ streamsClosed = FALSE /\ copyErr = FALSE /\ ctxSeen = FALSE

At(d, here, there) == dir[d] = here /\ dir' = [dir EXCEPT ![d] = there]

\* observe blocks while the queue is full.
observe ==
  IF observed THEN observer < ObserverCap /\ observer' = observer + 1 ELSE UNCHANGED observer

\* The call, up to the two go statements; OnStart is the first in the queue.
CopyBegins(halves, withCallbacks) ==
  /\ copyAt = "off" /\ copyAt' = "copying"
  /\ halfCloses' = halves /\ observed' = withCallbacks
  /\ observer' = IF withCallbacks THEN 1 ELSE 0
  /\ dir' = [d \in Dirs |-> "start"]
  /\ UNCHANGED <<dirErr, streamsClosed, copyErr, ctxSeen>>

\* copyFull: OnStreamStart.
StreamStarts(d) ==
  /\ At(d, "start", "copy") /\ observe
  /\ UNCHANGED <<copyAt, dirErr, copyArgs, streamsClosed, copyErr, ctxSeen>>

\* Fault: the end of one direction is the end of both.
SourceEnds_Both(d) ==
  /\ At(d, "copy", "end") /\ streamsClosed' = TRUE
  /\ UNCHANGED <<copyAt, dirErr, copyArgs, observer, copyErr, ctxSeen>>

\* io.Copy returns without a relevant error: the source is at its end, or closed.
\* What cannot be closed for writing alone is closed.
SourceEnds(d) ==
  /\ At(d, "copy", IF d \in halfCloses THEN "closeWrite" ELSE "end")
  /\ streamsClosed' = (streamsClosed \/ d \notin halfCloses)
  /\ UNCHANGED <<copyAt, dirErr, copyArgs, observer, copyErr, ctxSeen>>

\* io.Copy fails.
CopyFails(d) ==
  /\ At(d, "copy", "end") /\ dirErr' = [dirErr EXCEPT ![d] = TRUE]
  /\ UNCHANGED <<copyAt, copyArgs, observer, streamsClosed, copyErr, ctxSeen>>

\* CloseWrite, which may fail.
WriteClosed(d) ==
  /\ At(d, "closeWrite", "end")
  /\ \E failed \in BOOLEAN : dirErr' = [dirErr EXCEPT ![d] = failed /\ ~streamsClosed]
  /\ UNCHANGED <<copyAt, copyArgs, observer, streamsClosed, copyErr, ctxSeen>>

\* OnStreamEnd, and the result goes to dones, which has room for both.
StreamEnds(d) ==
  /\ At(d, "end", "done") /\ observe
  /\ UNCHANGED <<copyAt, dirErr, copyArgs, streamsClosed, copyErr, ctxSeen>>

\* The caller finds its context done, once.
CopyCanceled ==
  /\ copyAt = "copying" /\ ~ctxSeen
  /\ ctxSeen' = TRUE /\ streamsClosed' = TRUE
  /\ UNCHANGED <<copyAt, dir, dirErr, copyArgs, observer, copyErr>>

\* It receives a result; the first error closes the streams.
DoneReceived(d) ==
  /\ copyAt = "copying" /\ At(d, "done", "counted")
  /\ copyErr' = (copyErr \/ dirErr[d])
  /\ streamsClosed' = (streamsClosed \/ (dirErr[d] /\ ~copyErr))
  /\ UNCHANGED <<copyAt, dirErr, copyArgs, observer, ctxSeen>>

\* It returns after both, with OnEnd last in the queue.
CopyReturns ==
  /\ copyAt = "copying" /\ \A d \in Dirs : dir[d] = "counted"
  /\ copyAt' = "returned" /\ observe
  /\ UNCHANGED <<dir, dirErr, copyArgs, streamsClosed, copyErr, ctxSeen>>

\* The observer goroutine takes the next callback once the last one has returned.
ObserverTakes ==
  /\ observer > 0 /\ observer' = observer - 1
  /\ UNCHANGED <<copyAt, dir, dirErr, copyArgs, streamsClosed, copyErr, ctxSeen>>

StreamSteps(d) ==
  StreamStarts(d) \/ SourceEnds(d) \/ CopyFails(d) \/ WriteClosed(d) \/ StreamEnds(d) \/ DoneReceived(d)

\* What happens by itself: io.Copy ends for certain only when the streams are closed.
StreamMoves(d) ==
  StreamStarts(d) \/ (streamsClosed /\ SourceEnds(d)) \/ WriteClosed(d) \/ StreamEnds(d) \/ DoneReceived(d)
================================================================================
