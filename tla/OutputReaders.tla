--------------------------- MODULE OutputReaders ---------------------------
(***************************************************************************)
(* The two helper threads that drain a child's stdout and stderr pipes     *)
(* (output_collector.rs: read_output_inner), each with a cancellation flag *)
(* and wakeup of its own (io_cancellation.rs), an optional tee file, and,  *)
(* when a total limit is configured, the budget both share                 *)
(* (OutputBudget).  The thread that owns the run cancels, joins or         *)
(* detaches each reader (output_reader.rs); the order in which it treats   *)
(* the two is left open here.                                              *)
(*                                                                         *)
(* The child and the operating system are the environment: the child       *)
(* writes bytes and closes its ends whenever it likes, a descendant that   *)
(* inherited an end may keep it open for ever, and up to MaxFaults system  *)
(* calls fail in the ways named by Faults.                                 *)
(***************************************************************************)
EXTENDS OutputBudget

CONSTANTS
    Setups,      \* the platforms and options considered
    Teed,        \* the streams with a tee file
    BufferLen,   \* length of a reader's buffer
    MaxWritten,  \* bytes the child may write, per stream (bounds the model)
    Faults,      \* the system calls that may fail
    MaxFaults    \* how many of them fail in one behaviour

FaultKind ==
    {"poll", "interrupted", "wouldblock", "read", "tee", "flush", "wake"}

ASSUME ReadersAssumption ==
    /\ Setups \subseteq [platform : {"unix", "windows"}, budgeted : BOOLEAN]
    /\ Teed \subseteq OutputStream
    /\ BufferLen \in Nat \ {0}
    /\ MaxWritten \in [OutputStream -> Nat]
    /\ Faults \subseteq FaultKind
    /\ MaxFaults \in Nat
    /\ None \notin {"eof", "stopped", "error"}

VARIABLES
    setup,      \* the setup of this run, which nothing changes
    written,    \* bytes the child has written to each pipe
    open,       \* whether some process still holds each pipe's write end
    consumed,   \* bytes taken out of each pipe
    budget,     \* the shared TotalOutputBudgetState
    pc,         \* where each reader thread is
    ready,      \* ready_capacity of the read about to be issued
    chunk,      \* the bytes of the read just made
    local,      \* bytes and truncation kept by an unbudgeted reader
    tee,        \* the tee: whether still in use, and the bytes in the file
    writeError, \* whether write_error is set
    end,        \* read_result: how the loop was left
    result,     \* what the thread returned
    cancelled,  \* the flag shared with the owner
    wakeup,     \* unix: the wakeup socket holds a byte
    aborted,    \* windows: the pending call was cancelled
    request,    \* how far the owner's cancel call has got
    finish,     \* what the owner made of the reader
    faults,     \* system calls that have failed so far
    lateIo      \* pipe reads and tee writes since the flag was set

pipeVars   == <<written, open>>
threadVars == <<pc, ready, chunk, local, tee, writeError, end, result>>
ownerVars  == <<request, finish>>
cancelVars == <<cancelled, wakeup, aborted>>
vars == <<setup, pipeVars, consumed, budget, threadVars, cancelVars, ownerVars,
          faults, lateIo>>

Platform == setup.platform

\* Whether max_total_output_bytes is set.
Budgeted == setup.budgeted

ReaderPc ==
    {"check", "wait", "poll", "peek", "read", "zero", "mark", "got", "tee",
     "limit", "finish", "done"}

\* read_result: Ok(true), Ok(false) and Err.
LoopEnd == {"eof", "stopped", "error"}

\* The variants of Result<CapturedOutput, OutputCaptureError>.
ResultKind == {"Ok", "Read", "Write", "ReadAfterWrite"}

ReaderResult == [kind : ResultKind, output : CapturedOutput]

ReaderFinish == [how : {"Joined", "Detached"}, kind : ResultKind,
                 output : CapturedOutput]

ASSUME FinishAssumption == None \notin ReaderFinish

TypeOK ==
    /\ setup \in Setups
    /\ written \in [OutputStream -> Nat]
    /\ open \in [OutputStream -> BOOLEAN]
    /\ consumed \in [OutputStream -> Nat]
    /\ budget \in TotalOutputBudgetState
    /\ pc \in [OutputStream -> ReaderPc]
    /\ ready \in [OutputStream -> Nat]
    /\ chunk \in [OutputStream -> Seq(Nat)]
    /\ local \in [OutputStream -> [bytes : Seq(Nat), truncated : BOOLEAN]]
    /\ tee \in [OutputStream -> [used : BOOLEAN, file : Seq(Nat)]]
    /\ writeError \in [OutputStream -> BOOLEAN]
    /\ end \in [OutputStream -> LoopEnd \cup {None}]
    /\ result \in [OutputStream -> ReaderResult \cup {None}]
    /\ cancelled \in [OutputStream -> BOOLEAN]
    /\ wakeup \in [OutputStream -> BOOLEAN]
    /\ aborted \in [OutputStream -> BOOLEAN]
    /\ request \in [OutputStream ->
                       {"none", "stored", "delivered", "notFound", "failed"}]
    /\ finish \in [OutputStream -> ReaderFinish \cup {None}]
    /\ faults \in 0..MaxFaults
    /\ lateIo \in [OutputStream -> Nat]

Init ==
    /\ setup \in Setups
    /\ written = [s \in OutputStream |-> 0]
    /\ open = [s \in OutputStream |-> TRUE]
    /\ consumed = [s \in OutputStream |-> 0]
    /\ budget = NewBudget
    /\ pc = [s \in OutputStream |-> "check"]
    /\ ready = [s \in OutputStream |-> 0]
    /\ chunk = [s \in OutputStream |-> <<>>]
    /\ local = [s \in OutputStream |-> [bytes |-> <<>>, truncated |-> FALSE]]
    /\ tee = [s \in OutputStream |-> [used |-> s \in Teed, file |-> <<>>]]
    /\ writeError = [s \in OutputStream |-> FALSE]
    /\ end = [s \in OutputStream |-> None]
    /\ result = [s \in OutputStream |-> None]
    /\ cancelled = [s \in OutputStream |-> FALSE]
    /\ wakeup = [s \in OutputStream |-> FALSE]
    /\ aborted = [s \in OutputStream |-> FALSE]
    /\ request = [s \in OutputStream |-> "none"]
    /\ finish = [s \in OutputStream |-> None]
    /\ faults = 0
    /\ lateIo = [s \in OutputStream |-> 0]

(***************************************************************************)
(* The environment: the child and whoever inherited its pipe ends.         *)
(***************************************************************************)

Unread(s) == written[s] - consumed[s]

AtEof(s) == Unread(s) = 0 /\ ~open[s]

\* Mutant: a hangup without data does not count.
PipeHasData(s) == Unread(s) > 0

\* A read does not block, and poll reports the pipe.
PipeReady(s) == Unread(s) > 0 \/ AtEof(s)

\* A write to a pipe whose reader has gone fails and is not seen here.
ChildWrites(s) ==
    /\ open[s]
    /\ pc[s] # "done"
    /\ written[s] < MaxWritten[s]
    /\ written' = [written EXCEPT ![s] = @ + 1]
    /\ UNCHANGED <<open, consumed, budget, threadVars, cancelVars, ownerVars,
                   faults, lateIo>>

ChildCloses(s) ==
    /\ open[s]
    /\ open' = [open EXCEPT ![s] = FALSE]
    /\ UNCHANGED <<written, consumed, budget, threadVars, cancelVars,
                   ownerVars, faults, lateIo>>

Fault(kind) ==
    /\ kind \in Faults
    /\ faults < MaxFaults
    /\ faults' = faults + 1

(***************************************************************************)
(* Steps of a reader thread.                                               *)
(***************************************************************************)

Goto(s, label) ==
    /\ pc' = [pc EXCEPT ![s] = label]
    /\ UNCHANGED end

\* break out of the loop with read_result = how.
Leave(s, how) ==
    /\ pc' = [pc EXCEPT ![s] = "finish"]
    /\ end' = [end EXCEPT ![s] = how]

\* Leave if cancellation is requested, otherwise do what follows.
StopOr(s, otherwise) ==
    \/ cancelled[s] /\ Leave(s, "stopped")
    \/ ~cancelled[s] /\ otherwise

CountIo(s) ==
    lateIo' = [lateIo EXCEPT ![s] = IF cancelled[s] THEN @ + 1 ELSE @]

\* The top of the loop.  Only a windows reader without a budget goes on to
\* read without waiting for the pipe to become ready.
CheckCancelled(s) ==
    /\ pc[s] = "check"
    /\ StopOr(s, Goto(s, IF Platform = "unix" THEN "wait"
                         ELSE IF Budgeted THEN "peek" ELSE "read"))
    /\ ready' = [ready EXCEPT ![s] = BufferLen]
    /\ UNCHANGED <<pipeVars, consumed, budget, chunk, local, tee, writeError,
                   result, cancelVars, ownerVars, faults, lateIo>>

\* wait_for_fd, before each poll.
EnterPoll(s) ==
    /\ pc[s] = "wait"
    /\ StopOr(s, Goto(s, "poll"))
    /\ UNCHANGED <<pipeVars, consumed, budget, ready, chunk, local, tee,
                   writeError, result, cancelVars, ownerVars, faults, lateIo>>

\* Mutant: only the pipe is polled.
CancelSeenWithPipe(s) == cancelled[s] /\ PipeReady(s)

\* poll returned for the wakeup socket, or for the pipe with the flag set.
CancelSeen(s) == wakeup[s] \/ (cancelled[s] /\ PipeReady(s))

\* poll blocks until the pipe or the wakeup socket is ready.
PollReturns(s) ==
    /\ pc[s] = "poll"
    /\ \/ /\ CancelSeen(s)
          /\ Leave(s, "stopped")
          /\ UNCHANGED faults
       \/ /\ ~wakeup[s] /\ ~cancelled[s] /\ PipeReady(s)
          /\ Goto(s, "read")
          /\ UNCHANGED faults
       \/ Fault("interrupted") /\ Goto(s, "wait")
       \/ Fault("poll") /\ Leave(s, "error")
    /\ UNCHANGED <<pipeVars, consumed, budget, ready, chunk, local, tee,
                   writeError, result, cancelVars, ownerVars, lateIo>>

\* wait_output_readiness on windows: polls the pipe without consuming from
\* it, sleeping while it is empty.
Peek(s) ==
    /\ pc[s] = "peek"
    /\ \/ /\ cancelled[s]
          /\ Leave(s, "stopped")
          /\ UNCHANGED <<budget, ready, faults>>
       \/ /\ ~cancelled[s] /\ AtEof(s)
          /\ budget' = MarkComplete(budget, s)
          /\ Leave(s, "eof")
          /\ UNCHANGED <<ready, faults>>
       \/ /\ ~cancelled[s] /\ Unread(s) > 0
          /\ ready' = [ready EXCEPT ![s] = Unread(s)]
          /\ Goto(s, "read")
          /\ UNCHANGED <<budget, faults>>
       \/ /\ ~cancelled[s] /\ Fault("poll")
          /\ Leave(s, "error")
          /\ UNCHANGED <<budget, ready>>
    /\ UNCHANGED <<pipeVars, consumed, chunk, local, tee, writeError, result,
                   cancelVars, ownerVars, lateIo>>

\* The most this read may take: read_ready bounds it by the budget.
ReadLimit(s) ==
    IF Budgeted THEN Request(budget, BufferLen, ready[s]) ELSE BufferLen

\* A call that has been aborted was issued before, with the lock held.
Refused(s) ==
    Budgeted /\ ~aborted[s] /\ (budget.halted \/ ReadLimit(s) = 0)

\* read_ready returns Ok(0) without reading.
ReadRefused(s) ==
    /\ pc[s] = "read"
    /\ Refused(s)
    /\ budget' = IF ~budget.halted /\ Remaining(budget) = 0
                 THEN HaltAtCeiling(budget) ELSE budget
    /\ Goto(s, "zero")
    /\ UNCHANGED <<pipeVars, consumed, ready, chunk, local, tee, writeError,
                   result, cancelVars, ownerVars, faults, lateIo>>

\* What an unbudgeted reader keeps once it has read n more bytes.
RetainedLocally(s, n) ==
    LET new == Bytes(consumed[s], n)
    IN  [bytes     |-> Retained(s, local[s].bytes, new),
         truncated |-> local[s].truncated \/ Omits(s, local[s].bytes, new)]

\* The pipe is read and, in the same critical section when there is a
\* budget, its bytes are charged and retained.
ReadPipe(s) ==
    /\ pc[s] = "read"
    /\ ~Refused(s)
    /\ ~aborted[s]
    /\ PipeReady(s)
    /\ \E n \in 0..MinOf(ReadLimit(s), Unread(s)) :
         /\ n = 0 <=> AtEof(s)
         /\ chunk' = [chunk EXCEPT ![s] = Bytes(consumed[s], n)]
         /\ consumed' = [consumed EXCEPT ![s] = @ + n]
         /\ IF Budgeted
            THEN /\ budget' = Charge(budget, s, Bytes(consumed[s], n))
                 /\ UNCHANGED local
            ELSE /\ local' = [local EXCEPT ![s] = RetainedLocally(s, n)]
                 /\ UNCHANGED budget
         /\ Goto(s, IF n = 0 THEN "zero" ELSE "got")
    /\ CountIo(s)
    /\ UNCHANGED <<pipeVars, ready, tee, writeError, result, cancelVars,
                   ownerVars, faults>>

\* A failed read: interrupted and empty reads are retried, any other failure
\* is an error unless cancellation explains it.
ReadFails(s) ==
    /\ pc[s] = "read"
    /\ ~Refused(s)
    /\ \/ /\ Platform = "unix"
          /\ \/ Fault("interrupted") /\ Goto(s, "check")
             \/ Fault("wouldblock") /\ StopOr(s, Goto(s, "check"))
          /\ UNCHANGED aborted
       \/ Fault("read") /\ StopOr(s, Leave(s, "error")) /\ UNCHANGED aborted
       \/ /\ aborted[s]
          /\ aborted' = [aborted EXCEPT ![s] = FALSE]
          /\ StopOr(s, Leave(s, "error"))
          /\ UNCHANGED faults
    /\ UNCHANGED <<pipeVars, consumed, budget, ready, chunk, local, tee,
                   writeError, result, cancelled, wakeup, ownerVars, lateIo>>

\* Mutant: every zero read is the end of the pipe.
ZeroReadIsEof(s) ==
    /\ pc[s] = "zero"
    /\ IF Budgeted THEN Goto(s, "mark") ELSE Leave(s, "eof")
    /\ UNCHANGED <<pipeVars, consumed, budget, ready, chunk, local, tee,
                   writeError, result, cancelVars, ownerVars, faults, lateIo>>

\* A zero read is the end of the pipe only if the budget was not halted.
ZeroRead(s) ==
    /\ pc[s] = "zero"
    /\ \/ Budgeted /\ budget.halted /\ Leave(s, "stopped")
       \/ Budgeted /\ ~budget.halted /\ Goto(s, "mark")
       \/ ~Budgeted /\ Leave(s, "eof")
    /\ UNCHANGED <<pipeVars, consumed, budget, ready, chunk, local, tee,
                   writeError, result, cancelVars, ownerVars, faults, lateIo>>

MarkEof(s) ==
    /\ pc[s] = "mark"
    /\ budget' = MarkComplete(budget, s)
    /\ Leave(s, "eof")
    /\ UNCHANGED <<pipeVars, consumed, ready, chunk, local, tee, writeError,
                   result, cancelVars, ownerVars, faults, lateIo>>

\* Mutant: no check between the read and the tee.
GoOnToTee(s) ==
    /\ pc[s] = "got"
    /\ Goto(s, IF tee[s].used THEN "tee" ELSE "limit")
    /\ UNCHANGED <<pipeVars, consumed, budget, ready, chunk, local, tee,
                   writeError, result, cancelVars, ownerVars, faults, lateIo>>

\* The bytes are kept; cancellation is checked again before any tee write.
CheckBeforeTee(s) ==
    /\ pc[s] = "got"
    /\ StopOr(s, Goto(s, IF tee[s].used THEN "tee" ELSE "limit"))
    /\ UNCHANGED <<pipeVars, consumed, budget, ready, chunk, local, tee,
                   writeError, result, cancelVars, ownerVars, faults, lateIo>>

TeeWrites(s) ==
    /\ pc[s] = "tee"
    /\ ~aborted[s]
    /\ tee' = [tee EXCEPT ![s].file = @ \o chunk[s]]
    /\ Goto(s, "limit")
    /\ CountIo(s)
    /\ UNCHANGED <<pipeVars, consumed, budget, ready, chunk, local, writeError,
                   result, cancelVars, ownerVars, faults>>

\* Mutant: the tee is used again for the next chunk.
KeptTee(s, n) == [tee[s] EXCEPT !.file = @ \o SubSeq(chunk[s], 1, n)]

\* write_all may have written n bytes of the chunk before it failed.
DroppedTee(s, n) ==
    [used |-> FALSE, file |-> tee[s].file \o SubSeq(chunk[s], 1, n)]

\* The tee is dropped and the pipe is drained without it.
TeeFails(s) ==
    /\ pc[s] = "tee"
    /\ \/ Fault("tee") /\ UNCHANGED aborted
       \/ /\ aborted[s]
          /\ aborted' = [aborted EXCEPT ![s] = FALSE]
          /\ UNCHANGED faults
    /\ \E n \in 0..(Len(chunk[s]) - 1) :
         tee' = [tee EXCEPT ![s] = DroppedTee(s, n)]
    /\ writeError' = [writeError EXCEPT ![s] = TRUE]
    /\ Goto(s, "limit")
    /\ CountIo(s)
    /\ UNCHANGED <<pipeVars, consumed, budget, ready, chunk, local, result,
                   cancelled, wakeup, ownerVars>>

CheckLimit(s) ==
    /\ pc[s] = "limit"
    /\ \/ Budgeted /\ budget.exceeded /\ Leave(s, "stopped")
       \/ ~(Budgeted /\ budget.exceeded) /\ Goto(s, "check")
    /\ chunk' = [chunk EXCEPT ![s] = <<>>]
    /\ UNCHANGED <<pipeVars, consumed, budget, ready, local, tee, writeError,
                   result, cancelVars, ownerVars, faults, lateIo>>

\* Mutant: a failed read hides a failed tee.
KindOfLast(failedWrite, how) ==
    IF how = "error" THEN "Read" ELSE IF failedWrite THEN "Write" ELSE "Ok"

KindOf(failedWrite, how) ==
    IF failedWrite THEN IF how = "error" THEN "ReadAfterWrite" ELSE "Write"
    ELSE IF how = "error" THEN "Read" ELSE "Ok"

\* A budgeted reader leaves its bytes in the budget until it is joined.
ThreadOutput(s) ==
    IF Budgeted THEN CapturedStreamMetadata(budget, s)
    ELSE [bytes     |-> local[s].bytes,
          truncated |-> local[s].truncated,
          complete  |-> end[s] = "eof"]

\* After the loop: flush the tee of a drained stream and build the result.
FinishReading(s) ==
    /\ pc[s] = "finish"
    /\ \/ UNCHANGED <<writeError, faults>>
       \/ /\ end[s] = "eof" /\ tee[s].used
          /\ Fault("flush")
          /\ writeError' = [writeError EXCEPT ![s] = TRUE]
    /\ result' = [result EXCEPT ![s] = [kind   |-> KindOf(writeError'[s], end[s]),
                                        output |-> ThreadOutput(s)]]
    /\ Goto(s, "done")
    /\ UNCHANGED <<pipeVars, consumed, budget, ready, chunk, local, tee,
                   cancelVars, ownerVars, lateIo>>

(***************************************************************************)
(* Calls of the thread that owns the run.                                  *)
(***************************************************************************)

\* IoCancellation::cancel sets the flag first ...
StoreCancel(s) ==
    /\ request[s] = "none"
    /\ finish[s] = None
    /\ cancelled' = [cancelled EXCEPT ![s] = TRUE]
    /\ request' = [request EXCEPT ![s] = "stored"]
    /\ UNCHANGED <<pipeVars, consumed, budget, threadVars, wakeup, aborted,
                   finish, faults, lateIo>>

\* ... and then interrupts whatever the thread is blocked in.  On windows the
\* thread may be about to make the call, which then finds nothing to cancel.
WakeReader(s) ==
    /\ request[s] = "stored"
    /\ \/ /\ Platform = "unix"
          /\ wakeup' = [wakeup EXCEPT ![s] = TRUE]
          /\ request' = [request EXCEPT ![s] = "delivered"]
          /\ UNCHANGED <<aborted, faults>>
       \/ /\ Platform = "windows"
          /\ pc[s] = "tee" \/ (pc[s] = "read" /\ ~Refused(s))
          /\ aborted' = [aborted EXCEPT ![s] = TRUE]
          /\ request' = [request EXCEPT ![s] = "delivered"]
          /\ UNCHANGED <<wakeup, faults>>
       \/ /\ Platform = "windows"
          /\ request' = [request EXCEPT ![s] = "notFound"]
          /\ UNCHANGED <<wakeup, aborted, faults>>
       \/ /\ Fault("wake")
          /\ request' = [request EXCEPT ![s] = "failed"]
          /\ UNCHANGED <<wakeup, aborted>>
    /\ UNCHANGED <<pipeVars, consumed, budget, threadVars, cancelled, finish,
                   lateIo>>

\* OutputReader::join; it blocks until the thread has returned.
Join(s) ==
    /\ finish[s] = None
    /\ request[s] # "stored"
    /\ pc[s] = "done"
    /\ finish' = [finish EXCEPT ![s] =
                    [how    |-> "Joined",
                     kind   |-> result[s].kind,
                     output |-> IF Budgeted THEN TakenStream(budget, s)
                                ELSE result[s].output]]
    /\ budget' = IF Budgeted THEN AfterTake(budget, s) ELSE budget
    /\ UNCHANGED <<pipeVars, consumed, threadVars, cancelVars, request, faults,
                   lateIo>>

\* A reader whose cancellation failed and that is still running is let go
\* with a snapshot.  Dropping its unix notifier hangs up the wakeup socket.
Detach(s) ==
    /\ finish[s] = None
    /\ request[s] \in {"notFound", "failed"}
    /\ pc[s] # "done"
    /\ finish' = [finish EXCEPT ![s] =
                    [how    |-> "Detached",
                     kind   |-> "Ok",
                     output |-> [bytes     |-> IF Budgeted THEN budget.bytes[s]
                                               ELSE <<>>,
                                 truncated |-> Budgeted /\ budget.truncated[s],
                                 complete  |-> FALSE]]]
    /\ wakeup' = [wakeup EXCEPT ![s] = @ \/ Platform = "unix"]
    /\ UNCHANGED <<pipeVars, consumed, budget, threadVars, cancelled, aborted,
                   request, faults, lateIo>>

(***************************************************************************)
(* Specification.                                                          *)
(***************************************************************************)

ReaderStep(s) ==
    /\ \/ CheckCancelled(s) \/ EnterPoll(s) \/ PollReturns(s) \/ Peek(s)
       \/ ReadRefused(s) \/ ReadPipe(s) \/ ReadFails(s)
       \/ ZeroRead(s) \/ MarkEof(s)
       \/ CheckBeforeTee(s) \/ TeeWrites(s) \/ TeeFails(s) \/ CheckLimit(s)
       \/ FinishReading(s)
    /\ UNCHANGED setup

OwnerStep(s) ==
    /\ StoreCancel(s) \/ WakeReader(s) \/ Join(s) \/ Detach(s)
    /\ UNCHANGED setup

ChildStep(s) == (ChildWrites(s) \/ ChildCloses(s)) /\ UNCHANGED setup

Next == \E s \in OutputStream : ReaderStep(s) \/ OwnerStep(s) \/ ChildStep(s)

Spec == Init /\ [][Next]_vars

\* The operating system schedules every thread that can take a step; no call
\* need fail.  Nothing is assumed of the child or of the owner.
FairSpec ==
    Spec /\ \A s \in OutputStream : WF_vars(ReaderStep(s) /\ UNCHANGED faults)

(***************************************************************************)
(* Safety.                                                                 *)
(***************************************************************************)

\* Both readers together take at most one byte more than the limit out of
\* their pipes, every byte is charged exactly once, and the run is over its
\* limit exactly when that one byte was read (read_ready).
BudgetAccounting ==
    Budgeted =>
        /\ budget.used = consumed["stdout"] + consumed["stderr"]
        /\ budget.used <= Limit + 1
        /\ budget.exceeded <=> budget.used = Limit + 1
        /\ budget.halted <=> budget.exceeded

\* The bytes kept of a stream, wherever they are at the moment.
Kept(s) ==
    IF ~Budgeted THEN local[s]
    ELSE [bytes     |-> IF budget.transferred[s] THEN finish[s].output.bytes
                        ELSE budget.bytes[s],
          truncated |-> budget.truncated[s]]

KeptCount(s) == RetainedCount(Cap[s], 0, consumed[s])

\* What is kept of a stream is its longest prefix within the stream's own
\* cap, through every interleaving of the readers and across the transfer to
\* the owner, and it is called truncated exactly when bytes were left out.
RetainedIsPrefix ==
    \A s \in OutputStream :
        /\ Kept(s).bytes = Bytes(0, KeptCount(s))
        /\ Kept(s).truncated <=> KeptCount(s) < consumed[s]

\* The owner's result is the kept prefix when the reader was joined, and a
\* prefix of it that is not called complete when the reader was let go.
OwnerGetsPrefix ==
    \A s \in OutputStream : finish[s] # None =>
        LET got == finish[s].output.bytes
        IN  IF finish[s].how = "Joined"
            THEN got = Bytes(0, KeptCount(s))
            ELSE /\ Len(got) <= KeptCount(s)
                 /\ got = Bytes(0, Len(got))
                 /\ ~finish[s].output.complete

\* No byte of the output is lost between the pipe, the thread and the owner.
KeptIsPrefix == RetainedIsPrefix /\ OwnerGetsPrefix

\* A joined stream is complete exactly when the thread drained its pipe to
\* the end: a zero read caused by the halted budget is never taken for the
\* end of the pipe, and only cancellation, a failed read or the limit leaves
\* a stream incomplete (read_output_inner).
CompleteIffDrained ==
    \A s \in OutputStream : finish[s] # None =>
        /\ finish[s].output.complete =>
               ~open[s] /\ consumed[s] = written[s]
        /\ (finish[s].how = "Joined" /\ ~finish[s].output.complete) =>
               \/ cancelled[s]
               \/ Budgeted /\ budget.exceeded
               \/ finish[s].kind \in {"Read", "ReadAfterWrite"}

\* The tee file is the stream without gaps: it has all of it when the reader
\* reports success for a complete stream, and lacks at most the last chunk,
\* dropped for a cancellation, when it reports no tee failure.
TeeHasNoGaps ==
    \A s \in Teed :
        LET inFile == Len(tee[s].file)
        IN  /\ tee[s].file = Bytes(0, inFile)
            /\ (finish[s] # None /\ finish[s].how = "Joined"
                                 /\ finish[s].kind \in {"Ok", "Read"}) =>
                   /\ inFile <= consumed[s]
                   /\ inFile < consumed[s] => /\ cancelled[s]
                                              /\ consumed[s] - inFile <= BufferLen
                                              /\ ~finish[s].output.complete

\* A tee that stopped receiving the stream is always reported, also when the
\* pipe fails or cancellation arrives later.
TeeFailureReported ==
    \A s \in Teed : (finish[s] # None /\ finish[s].how = "Joined"
                                      /\ ~tee[s].used) =>
                        finish[s].kind \in {"Write", "ReadAfterWrite"}

\* A tee file is what the owner is led to believe it is.
TeeIsTrue == TeeHasNoGaps /\ TeeFailureReported

\* After its flag is set a reader completes at most the one call it was in:
\* it starts no read and no tee write that it had not decided on before.
AtMostOneLateIo == \A s \in OutputStream : lateIo[s] <= 1

\* The count reported for an exceeded limit is final: no byte is taken out of
\* either pipe any more.
NothingReadOnceExceeded ==
    [][Budgeted /\ budget.exceeded => consumed' = consumed]_vars

(***************************************************************************)
(* Refinement of HelperContract.                                           *)
(***************************************************************************)

AsHelpers ==
    INSTANCE HelperContract WITH
        Helpers <- OutputStream,
        Readers <- OutputStream,
        running <- {s \in OutputStream : pc[s] # "done"},
        failed  <- {s \in OutputStream : pc[s] = "done" /\ result[s].kind # "Ok"},
        limited <- Budgeted,
        passed  <- budget.exceeded

\* To the run, the readers are what RunningCommand takes them for: each returns
\* once, with a result that stays, and the limit is passed by a reader that has
\* not returned and stays so, whatever the owner takes out of the budget.
ReadersActAsHelpers == AsHelpers!HelperSpec

(***************************************************************************)
(* Liveness.                                                               *)
(***************************************************************************)

\* A cancellation that was delivered makes the thread return, so that the
\* owner's join does too, whatever the child and its descendants do.
DeliveredCancelStops ==
    \A s \in OutputStream : request[s] = "delivered" ~> pc[s] = "done"

\* A reader ends once every write end of its pipe is closed.
DrainedReaderStops ==
    \A s \in OutputStream : ~open[s] ~> pc[s] = "done"

\* A detached unix reader does not run on behind its owner's back: the
\* hangup of the dropped notifier ends it even though no wakeup byte arrived.
DetachedReaderStops ==
    \A s \in OutputStream :
        (Platform = "unix" /\ finish[s] # None /\ finish[s].how = "Detached")
            ~> pc[s] = "done"

\* A reader that is not asked to stop, or not reached by it, ends all the same.
ReaderStopsUnasked == DrainedReaderStops /\ DetachedReaderStops
=============================================================================
