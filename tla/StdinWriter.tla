---------------------------- MODULE StdinWriter ----------------------------
(***************************************************************************)
(* The helper thread that writes configured bytes to the child's stdin     *)
(* (stdin_pipe.rs, pollable_stdin.rs) and the calls its owner makes on it  *)
(* (stdin_writer.rs, io_cancellation.rs, join_stdin_writer).               *)
(*                                                                         *)
(* On unix the pipe does not block: the thread waits in poll for the pipe  *)
(* or for the wakeup socket.  On windows a write blocks until the child    *)
(* reads, and cancellation aborts the blocking call.  A byte is its number *)
(* in the configured input, so that a lost, repeated or reordered byte     *)
(* shows.  The child reads, closes its stdin or exits as it likes.         *)
(***************************************************************************)
EXTENDS Optional, Naturals, Sequences

CONSTANTS
    Platforms, \* the platforms considered: "unix", "windows"
    Input,     \* number of configured bytes
    PipeSize,  \* bytes the pipe holds
    Faults,    \* faults of system calls considered
    MaxFaults  \* how many of them may happen (bounds the model)

ASSUME WriterAssumption ==
    /\ Platforms \subseteq {"unix", "windows"}
    /\ Input \in Nat /\ PipeSize \in Nat \ {0} /\ MaxFaults \in Nat
    /\ Faults \subseteq {"interrupted", "wouldblock", "zero", "write", "poll", "wake"}
    /\ None \notin {"ok", "brokenPipe", "failed", "detached"}

VARIABLES
    platform,  \* the platform, which nothing changes
    pipe,      \* bytes in the pipe
    received,  \* bytes the child has read
    reading,   \* some process still holds the read end
    wpc,       \* where the thread is
    offset,    \* bytes the thread believes written
    outcome,   \* what the thread returned
    cancelled, \* the flag of the cancellation token
    wakeup,    \* the wakeup socket is readable or hung up (unix)
    aborted,   \* the pending write was cancelled (windows)
    request,   \* what became of the owner's cancel
    finish,    \* what the owner got: a join result or "detached"
    faults     \* faults so far

pipeVars == <<pipe, received, reading>>
threadVars == <<wpc, offset, outcome>>
cancelVars == <<cancelled, wakeup, aborted, request>>
writerVars == <<platform, pipeVars, threadVars, cancelVars, finish, faults>>

Outcome == {"ok", "brokenPipe", "failed"}

WriterTypeOK ==
    /\ platform \in Platforms
    /\ pipe \in Seq(1..Input) /\ Len(pipe) <= PipeSize
    /\ received \in Seq(1..Input)
    /\ reading \in BOOLEAN
    /\ wpc \in {"check", "wait", "poll", "write", "done"}
    /\ offset \in 0..Input
    /\ outcome \in Outcome \cup {None}
    /\ cancelled \in BOOLEAN /\ wakeup \in BOOLEAN /\ aborted \in BOOLEAN
    /\ request \in {"none", "stored", "delivered", "notFound", "failed"}
    /\ finish \in {"ok", "failed", "detached", None}
    /\ faults \in 0..MaxFaults

WriterInit ==
    /\ platform \in Platforms
    /\ pipe = <<>> /\ received = <<>>
    /\ reading = TRUE
    /\ wpc = "check" /\ offset = 0 /\ outcome = None
    /\ cancelled = FALSE /\ wakeup = FALSE /\ aborted = FALSE
    /\ request = "none"
    /\ finish = None
    /\ faults = 0

(***************************************************************************)
(* The child.                                                              *)
(***************************************************************************)

ChildReads ==
    /\ reading /\ pipe # <<>>
    /\ received' = Append(received, Head(pipe))
    /\ pipe' = Tail(pipe)
    /\ UNCHANGED <<platform, reading, threadVars, cancelVars, finish, faults>>

\* The last holder of the read end closes it or exits; what is in the pipe is
\* lost.
ChildCloses ==
    /\ reading
    /\ reading' = FALSE
    /\ pipe' = <<>>
    /\ UNCHANGED <<platform, received, threadVars, cancelVars, finish, faults>>

ChildStep == ChildReads \/ ChildCloses

(***************************************************************************)
(* write_stdin_until_cancelled.                                            *)
(***************************************************************************)

Fault(kind) ==
    /\ kind \in Faults
    /\ faults < MaxFaults
    /\ faults' = faults + 1

Goto(label) == wpc' = label /\ UNCHANGED outcome

\* The thread returns; its end of the pipe is closed.
Return(how) == wpc' = "done" /\ outcome' = how

StopOr(otherwise) ==
    \/ cancelled /\ Return("ok")
    \/ ~cancelled /\ otherwise

\* The top of the loop: everything written, or cancelled, or on to the wait.
\* On windows wait_writable only looks at the flag again.
CheckDone ==
    /\ wpc = "check"
    /\ IF offset = Input THEN Return("ok")
       ELSE StopOr(Goto("wait"))
    /\ UNCHANGED <<pipeVars, offset, cancelVars, finish, faults>>

WaitWritable ==
    /\ wpc = "wait"
    /\ StopOr(Goto(IF platform = "unix" THEN "poll" ELSE "write"))
    /\ UNCHANGED <<pipeVars, offset, cancelVars, finish, faults>>

HasRoom == Len(pipe) < PipeSize

PollReady == ~reading \/ HasRoom

\* Mutant: only the pipe is polled.
CancelSeenWithRoom == cancelled /\ PollReady

\* poll returned for the wakeup socket, or for the pipe with the flag set.
CancelSeen == wakeup \/ (cancelled /\ PollReady)

\* wait_for_fd blocks until the pipe or the wakeup socket is ready.
PollReturns ==
    /\ wpc = "poll"
    /\ \/ CancelSeen /\ Return("ok") /\ UNCHANGED faults
       \/ /\ ~CancelSeen /\ PollReady
          /\ Goto("write") /\ UNCHANGED faults
       \/ Fault("interrupted") /\ Goto("wait")
       \/ Fault("poll") /\ Return("failed")
    /\ UNCHANGED <<pipeVars, offset, cancelVars, finish>>

\* Mutant: the bytes of a partial write are taken for all that was left.
AdvanceToEnd(n) == offset' = Input

\* Mutant: the last byte of every write is sent again.
AdvanceShort(n) == offset' = offset + n - (IF n > 1 THEN 1 ELSE 0)

AdvanceBy(n) == offset' = offset + n

Bytes(first, n) == [i \in 1..n |-> first + i]

\* A write takes some of what is left, as much as the pipe has room for.
WriteSome ==
    /\ wpc = "write"
    /\ reading /\ HasRoom /\ ~aborted
    /\ \E n \in 1..(Input - offset) :
         /\ Len(pipe) + n <= PipeSize
         /\ pipe' = pipe \o Bytes(offset, n)
         /\ AdvanceBy(n)
    /\ Goto("check")
    /\ UNCHANGED <<received, reading, cancelVars, finish, faults>>

\* Mutant: a pipe that is full after all ends the input.
RetryNever == Return("ok")

RetryWrite == Goto("check")

ZeroFails == Return("failed")

\* Mutant: the aborted write is issued again, as for an interrupted one.
WriteAgain == Goto("write")

AfterAbort == StopOr(Return("failed"))

\* A write that was cancelled may have moved some bytes, which nobody counts.
PartlyWritten ==
    \E n \in 0..(Input - offset) :
        /\ n > 0 => reading /\ Len(pipe) + n <= PipeSize
        /\ pipe' = pipe \o Bytes(offset, n)

\* A write that fails: retried when interrupted or not possible after all, an
\* error when it makes no progress, and otherwise an error unless the
\* cancellation explains it.
WriteFails ==
    /\ wpc = "write"
    /\ \/ /\ platform = "unix"
          /\ \E kind \in {"interrupted", "wouldblock"} : Fault(kind)
          /\ RetryWrite /\ UNCHANGED aborted
          /\ UNCHANGED pipe
       \/ Fault("zero") /\ ZeroFails /\ UNCHANGED <<pipe, aborted>>
       \/ Fault("write") /\ StopOr(Return("failed")) /\ UNCHANGED <<pipe, aborted>>
       \/ /\ ~reading
          /\ StopOr(Return("brokenPipe"))
          /\ UNCHANGED <<pipe, faults, aborted>>
       \/ /\ aborted
          /\ aborted' = FALSE
          /\ PartlyWritten
          /\ AfterAbort
          /\ UNCHANGED faults
    /\ UNCHANGED <<received, reading, offset, cancelled, wakeup, request, finish>>

WriterStep ==
    /\ CheckDone \/ WaitWritable \/ PollReturns \/ WriteSome \/ WriteFails
    /\ UNCHANGED platform

(***************************************************************************)
(* Calls of the thread that owns the run.                                  *)
(***************************************************************************)

\* IoCancellation::cancel sets the flag first ...
StoreCancel ==
    /\ request = "none" /\ finish = None
    /\ cancelled' = TRUE
    /\ request' = "stored"
    /\ UNCHANGED <<pipeVars, threadVars, wakeup, aborted, finish, faults>>

\* ... and then wakes the poll, or aborts the write the thread is blocked in;
\* a thread that is about to write is not found in any call.
Interrupt ==
    /\ request = "stored"
    /\ \/ /\ platform = "unix"
          /\ wakeup' = TRUE
          /\ request' = "delivered"
          /\ UNCHANGED <<aborted, faults>>
       \/ /\ platform = "windows" /\ wpc = "write"
          /\ aborted' = TRUE
          /\ request' = "delivered"
          /\ UNCHANGED <<wakeup, faults>>
       \/ /\ platform = "windows"
          /\ request' = "notFound"
          /\ UNCHANGED <<wakeup, aborted, faults>>
       \/ /\ Fault("wake")
          /\ request' = "failed"
          /\ UNCHANGED <<wakeup, aborted>>
    /\ UNCHANGED <<pipeVars, threadVars, cancelled, finish>>

\* A child need not read its input: a broken pipe is no failure of the run.
JoinResult(how) == IF how = "failed" THEN "failed" ELSE "ok"

\* join_stdin_writer
JoinWriter ==
    /\ finish = None /\ request # "stored"
    /\ wpc = "done"
    /\ finish' = JoinResult(outcome)
    /\ UNCHANGED <<pipeVars, threadVars, cancelVars, faults>>

\* Mutant: the notifier of a detached writer is kept.
KeepNotifier == UNCHANGED wakeup

DropNotifier == wakeup' = (wakeup \/ platform = "unix")

\* A writer whose cancellation failed is let go; dropping its notifier hangs
\* up the wakeup socket.
DetachWriter ==
    /\ finish = None /\ request \in {"notFound", "failed"}
    /\ wpc # "done"
    /\ finish' = "detached"
    /\ DropNotifier
    /\ UNCHANGED <<pipeVars, threadVars, cancelled, aborted, request, faults>>

OwnerStep ==
    /\ StoreCancel \/ Interrupt \/ JoinWriter \/ DetachWriter
    /\ UNCHANGED platform

WriterNext == WriterStep \/ OwnerStep \/ ChildStep

WriterSpec == WriterInit /\ [][WriterNext]_writerVars

\* The thread is scheduled and no call need fail; nothing is assumed of the
\* child or of the owner.
FairWriterSpec == WriterSpec /\ WF_writerVars(WriterStep /\ UNCHANGED faults)

(***************************************************************************)
(* Properties.                                                             *)
(***************************************************************************)

All == [i \in 1..Input |-> i]

\* Whatever partial writes, retries and cancellations there are, the child is
\* given a prefix of the input: no byte is lost, repeated or out of order.
InputIsPrefix ==
    LET given == received \o pipe IN given = SubSeq(All, 1, Len(given))

\* A writer joined without a failure has put all of its input into the pipe,
\* unless it was cancelled or nobody reads any more.
SuccessMeansWritten ==
    finish = "ok" /\ ~cancelled /\ reading => received \o pipe = All

\* Neither a child that stops reading nor the cancellation of the write makes
\* the writer fail: a failure means that a system call failed.
OnlyFaultsFail == finish = "failed" => faults > 0

\* What the owner is told of the writer is true, in both directions.
JoinResultIsTrue == SuccessMeansWritten /\ OnlyFaultsFail

\* A cancellation that was delivered ends the writer although the child neither
\* reads nor exits.
DeliveredCancelStops == request = "delivered" ~> wpc = "done"

\* A unix writer that was let go is ended by the hangup of its notifier.
DetachedWriterStops ==
    platform = "unix" => (finish = "detached" ~> wpc = "done")

\* No writer outlives its run on a child that does not read.
WriterStops == DeliveredCancelStops /\ DetachedWriterStops

\* A child that goes on reading gets the whole input and then the end of it,
\* unless a fault or a cancellation ends the writer first.
ReaderGetsInput ==
    WF_writerVars(ChildReads) =>
        <>(\/ received = All /\ wpc = "done"
           \/ ~reading \/ cancelled \/ outcome = "failed")
=============================================================================
