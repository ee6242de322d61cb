------------------------- MODULE StdinWriterProofs -------------------------
(***************************************************************************)
(* Theorems about StdinWriter, for every length of the input, size of the  *)
(* pipe and set of faults: the child is given a prefix of the input, and   *)
(* what the owner of the writer is told is true.                           *)
(***************************************************************************)
EXTENDS StdinWriter, SequenceTheorems, TLAPS

(***************************************************************************)
(* The inductive invariant.                                                *)
(***************************************************************************)

\* The bytes of a sequence are consecutive, the first one comes after n others.
Follows(bytes, n) == \A i \in 1..Len(bytes) : bytes[i] = n + i

\* The bytes that the child was given so far.
Given == Len(received) + Len(pipe)

\* What is in the pipe follows what was read; as long as somebody reads, the
\* thread knows how much it has written.
BytesInOrder ==
    /\ Follows(received, 0)
    /\ Follows(pipe, Len(received))
    /\ Given <= Input
    /\ ~reading => pipe = <<>>
    /\ reading /\ wpc # "done" => Given = offset

\* Only a cancellation wakes the poll or aborts a write.
CancelIsFirst ==
    /\ wakeup \/ aborted \/ request # "none" => cancelled
    /\ finish = "detached" => cancelled

\* Why the thread returned.
OutcomeIsTrue ==
    /\ outcome # None <=> wpc = "done"
    /\ outcome = "ok" /\ ~cancelled /\ reading => Given = Input
    /\ outcome = "brokenPipe" => ~reading
    /\ outcome = "failed" => faults > 0
    /\ finish \in {"ok", "failed"} =>
          wpc = "done" /\ (finish = "failed" <=> outcome = "failed")

WriterInv ==
    /\ WriterTypeOK
    /\ BytesInOrder
    /\ CancelIsFirst
    /\ OutcomeIsTrue

(***************************************************************************)
(* The bytes.                                                              *)
(***************************************************************************)

\* A byte that is read leaves the pipe for the end of what was read.
LEMMA ReadInOrder ==
    ASSUME received \in Seq(1..Input), pipe \in Seq(1..Input), pipe # <<>>,
           Follows(received, 0), Follows(pipe, Len(received))
    PROVE  /\ Append(received, Head(pipe)) \in Seq(1..Input)
           /\ Len(Append(received, Head(pipe))) = Len(received) + 1
           /\ Follows(Append(received, Head(pipe)), 0)
           /\ Tail(pipe) \in Seq(1..Input)
           /\ Len(pipe) > 0 /\ Len(Tail(pipe)) = Len(pipe) - 1
           /\ Follows(Tail(pipe), Len(received) + 1)
<1>1. /\ Head(pipe) \in 1..Input /\ Tail(pipe) \in Seq(1..Input)
      /\ Len(Tail(pipe)) = Len(pipe) - 1
      /\ \A i \in 1..Len(Tail(pipe)) : Tail(pipe)[i] = pipe[i + 1]
  BY HeadTailProperties
<1>2. Len(received) \in Nat /\ Len(pipe) \in Nat /\ Len(pipe) > 0
  BY LenProperties, EmptySeq
<1>3. Head(pipe) = pipe[1] /\ pipe[1] = Len(received) + 1
  BY <1>2 DEF Follows
<1>4. /\ Append(received, Head(pipe)) \in Seq(1..Input)
      /\ Len(Append(received, Head(pipe))) = Len(received) + 1
      /\ \A i \in 1..Len(received) : Append(received, Head(pipe))[i] = received[i]
      /\ Append(received, Head(pipe))[Len(received) + 1] = Head(pipe)
  BY <1>1, AppendProperties
<1>5. Follows(Append(received, Head(pipe)), 0)
  BY <1>2, <1>3, <1>4 DEF Follows
<1>6. Follows(Tail(pipe), Len(received) + 1)
  BY <1>1, <1>2 DEF Follows
<1> QED
  BY <1>1, <1>2, <1>4, <1>5, <1>6

\* Bytes that are written from the offset on follow what is in the pipe.
LEMMA WriteInOrder ==
    ASSUME pipe \in Seq(1..Input), received \in Seq(1..Input), Given = offset,
           Follows(pipe, Len(received)), NEW n \in 0..(Input - offset), offset \in 0..Input
    PROVE  /\ pipe \o Bytes(offset, n) \in Seq(1..Input)
           /\ Len(pipe \o Bytes(offset, n)) = Len(pipe) + n
           /\ Follows(pipe \o Bytes(offset, n), Len(received))
<1> USE WriterAssumption
<1>1. Len(received) \in Nat /\ Len(pipe) \in Nat
  BY LenProperties
<1>2. /\ Bytes(offset, n) \in Seq(1..Input) /\ Len(Bytes(offset, n)) = n
      /\ \A i \in 1..n : Bytes(offset, n)[i] = offset + i
  BY DEF Bytes
<1>3. /\ pipe \o Bytes(offset, n) \in Seq(1..Input)
      /\ Len(pipe \o Bytes(offset, n)) = Len(pipe) + n
      /\ \A i \in 1..(Len(pipe) + n) :
             (pipe \o Bytes(offset, n))[i] =
                 IF i <= Len(pipe) THEN pipe[i] ELSE Bytes(offset, n)[i - Len(pipe)]
  BY <1>2, ConcatProperties
<1>4. ASSUME NEW i \in 1..(Len(pipe) + n)
      PROVE  (pipe \o Bytes(offset, n))[i] = Len(received) + i
  <2>1. CASE i <= Len(pipe)
    BY <1>1, <1>3, <1>4, <2>1 DEF Follows
  <2>2. CASE ~(i <= Len(pipe))
    <3>1. i - Len(pipe) \in 1..n
      BY <1>1, <1>4, <2>2
    <3>2. (pipe \o Bytes(offset, n))[i] = offset + (i - Len(pipe))
      BY <1>2, <1>3, <1>4, <2>2, <3>1
    <3>3. offset = Len(received) + Len(pipe)
      BY DEF Given
    <3> QED
      BY <1>1, <1>4, <3>2, <3>3
  <2> QED
    BY <2>1, <2>2
<1>5. Follows(pipe \o Bytes(offset, n), Len(received))
  BY <1>3, <1>4 DEF Follows
<1> QED
  BY <1>3, <1>5

(***************************************************************************)
(* It is inductive.                                                        *)
(***************************************************************************)

\* Nothing has been written.
LEMMA WriterInvInit == WriterInit => WriterInv
<1> SUFFICES ASSUME WriterInit PROVE WriterInv
  OBVIOUS
<1> USE WriterAssumption DEF WriterInit
<1>1. <<>> \in Seq(1..Input) /\ Len(<<>>) = 0
  OBVIOUS
<1>2. cancelled \in BOOLEAN /\ wakeup \in BOOLEAN /\ aborted \in BOOLEAN /\ reading \in BOOLEAN
  OBVIOUS
<1>3. WriterTypeOK
  BY <1>1, <1>2 DEF WriterTypeOK
<1>4. BytesInOrder
  BY <1>1 DEF BytesInOrder, Follows, Given
<1> QED
  BY <1>3, <1>4 DEF WriterInv, CancelIsFirst, OutcomeIsTrue

\* The child reads or closes its end.
LEMMA ChildStepInv ==
    ASSUME WriterInv, ChildStep
    PROVE  WriterInv'
<1> USE WriterAssumption DEF WriterInv, threadVars, cancelVars
<1>0. received \in Seq(1..Input) /\ pipe \in Seq(1..Input) /\ Len(received) \in Nat
      /\ Len(pipe) \in Nat
  BY DEF WriterTypeOK
<1>1. CASE ChildReads
  <2> USE <1>1 DEF ChildReads
  <2>1. /\ received' \in Seq(1..Input) /\ Len(received') = Len(received) + 1
        /\ pipe' \in Seq(1..Input) /\ Len(pipe') = Len(pipe) - 1
        /\ Follows(received', 0) /\ Follows(pipe', Len(received'))
    BY <1>0, ReadInOrder DEF BytesInOrder
  <2>2. Given' = Given
    BY <1>0, <2>1 DEF Given
  <2>3. WriterTypeOK'
    BY <1>0, <2>1 DEF WriterTypeOK
  <2>4. BytesInOrder'
    BY <2>1, <2>2 DEF BytesInOrder
  <2>5. CancelIsFirst' /\ OutcomeIsTrue'
    BY <2>2 DEF CancelIsFirst, OutcomeIsTrue
  <2> QED
    BY <2>3, <2>4, <2>5
<1>2. CASE ChildCloses
  <2> USE <1>2 DEF ChildCloses
  <2>1. <<>> \in Seq(1..Input) /\ Len(<<>>) = 0
    OBVIOUS
  <2>5. reading' \in BOOLEAN
    BY <1>2 DEF ChildCloses
  <2>2. WriterTypeOK'
    BY <2>1, <2>5 DEF WriterTypeOK
  <2>3. BytesInOrder'
    BY <1>0, <2>1 DEF BytesInOrder, Follows, Given
  <2>4. CancelIsFirst' /\ OutcomeIsTrue'
    BY DEF CancelIsFirst, OutcomeIsTrue
  <2> QED
    BY <2>2, <2>3, <2>4
<1> QED
  BY <1>1, <1>2 DEF ChildStep

\* The steps of the thread that write nothing: the loop goes on, or the thread
\* returns for one of the reasons there are.
LEMMA ThreadInv ==
    ASSUME WriterInv, wpc # "done",
           UNCHANGED <<platform, pipeVars, offset, cancelled, wakeup, request, finish>>,
           aborted' \in {aborted, FALSE},
           faults' \in 0..MaxFaults, faults' >= faults,
           \/ wpc' \in {"check", "wait", "poll", "write"} /\ UNCHANGED outcome
           \/ wpc' = "done" /\ outcome' = "ok" /\ (cancelled \/ offset = Input)
           \/ wpc' = "done" /\ outcome' = "brokenPipe" /\ ~reading
           \/ wpc' = "done" /\ outcome' = "failed" /\ faults' > 0
    PROVE  WriterInv'
<1> USE WriterAssumption DEF WriterInv, pipeVars
<1>1. aborted' \in BOOLEAN /\ (aborted' => aborted)
  <2>1. aborted \in BOOLEAN
    BY DEF WriterTypeOK
  <2>2. CASE aborted' = aborted
    BY <2>1, <2>2
  <2>3. CASE aborted' = FALSE
    BY <2>3
  <2> QED
    BY <2>2, <2>3
<1>2. WriterTypeOK'
  BY <1>1 DEF WriterTypeOK, Outcome
<1>3. BytesInOrder'
  BY DEF BytesInOrder, Given
<1>4. CancelIsFirst'
  BY <1>1 DEF CancelIsFirst
<1>5. OutcomeIsTrue'
  BY DEF OutcomeIsTrue, BytesInOrder, Given
<1> QED
  BY <1>2, <1>3, <1>4, <1>5

\* A write that takes some of what it was offered breaks nothing.
LEMMA WriteSomeInv ==
    ASSUME WriterInv, WriteSome, UNCHANGED platform
    PROVE  WriterInv'
<1> USE WriterAssumption DEF WriterInv, WriteSome, Goto, AdvanceBy, cancelVars
<1>1. PICK n \in 1..(Input - offset) :
          /\ Len(pipe) + n <= PipeSize
          /\ pipe' = pipe \o Bytes(offset, n)
          /\ offset' = offset + n
  OBVIOUS
<1>2. /\ received \in Seq(1..Input) /\ pipe \in Seq(1..Input) /\ offset \in 0..Input
      /\ Len(received) \in Nat /\ Len(pipe) \in Nat
      /\ Given = offset /\ Follows(pipe, Len(received))
  BY DEF WriterTypeOK, BytesInOrder
<1>3. /\ pipe' \in Seq(1..Input) /\ Len(pipe') = Len(pipe) + n
      /\ Follows(pipe', Len(received))
  BY <1>1, <1>2, WriteInOrder
<1>4. Given' = offset' /\ offset' \in 0..Input
  <2>1. received' = received /\ offset' = offset + n /\ offset + n \in 0..Input
    BY <1>1, <1>2
  <2>2. Given' = Len(received) + Len(pipe')
    BY <2>1 DEF Given
  <2>3. Len(received) + Len(pipe) = offset
    BY <1>2 DEF Given
  <2> HIDE DEF WriteSome, WriterInv
  <2> QED
    BY <1>1, <1>2, <1>3, <2>1, <2>2, <2>3
<1>5. WriterTypeOK'
  BY <1>1, <1>3, <1>4 DEF WriterTypeOK
<1>6. BytesInOrder'
  BY <1>3, <1>4 DEF BytesInOrder
<1>7. CancelIsFirst' /\ OutcomeIsTrue'
  BY DEF CancelIsFirst, OutcomeIsTrue
<1> QED
  BY <1>5, <1>6, <1>7

\* The write that a cancellation aborted may have written something.
LEMMA AbortedWriteInv ==
    ASSUME WriterInv, WriteFails, UNCHANGED platform, aborted, aborted' = FALSE, PartlyWritten,
           AfterAbort, UNCHANGED faults
    PROVE  WriterInv'
<1> USE WriterAssumption DEF WriterInv
<1>1. cancelled /\ wpc' = "done" /\ outcome' = "ok" /\ wpc = "write"
      /\ UNCHANGED <<received, reading, offset, cancelled, wakeup, request, finish>>
  BY DEF WriteFails, AfterAbort, StopOr, Return, CancelIsFirst
<1>2. PICK n \in 0..(Input - offset) :
          /\ n > 0 => reading /\ Len(pipe) + n <= PipeSize
          /\ pipe' = pipe \o Bytes(offset, n)
  BY DEF PartlyWritten
<1>3. /\ received \in Seq(1..Input) /\ pipe \in Seq(1..Input) /\ offset \in 0..Input
      /\ Len(received) \in Nat /\ Len(pipe) \in Nat
  BY DEF WriterTypeOK
<1>4. CASE n = 0
  <2>1. Bytes(offset, 0) = <<>>
    BY DEF Bytes
  <2>2. pipe' = pipe
    BY <1>2, <1>3, <1>4, <2>1, ConcatEmptySeq
  <2>3. aborted' \in BOOLEAN
    OBVIOUS
  <2>4. WriterTypeOK'
    BY <1>1, <2>2, <2>3 DEF WriterTypeOK, Outcome
  <2>5. BytesInOrder'
    BY <1>1, <2>2 DEF BytesInOrder, Given
  <2>6. CancelIsFirst'
    BY <1>1 DEF CancelIsFirst
  <2>7. OutcomeIsTrue'
    BY <1>1 DEF OutcomeIsTrue
  <2> QED
    BY <2>4, <2>5, <2>6, <2>7
<1>5. CASE n > 0
  <2>1. reading /\ Given = offset /\ Follows(pipe, Len(received))
    BY <1>1, <1>2, <1>5 DEF BytesInOrder
  <2>2. /\ pipe' \in Seq(1..Input) /\ Len(pipe') = Len(pipe) + n
        /\ Follows(pipe', Len(received))
    BY <1>2, <1>3, <2>1, WriteInOrder
  <2>3. Given' <= Input
    BY <1>1, <1>2, <1>3, <2>1, <2>2 DEF Given
  <2>4. aborted' \in BOOLEAN
    OBVIOUS
  <2>5. WriterTypeOK'
    BY <1>1, <1>2, <1>3, <1>5, <2>2, <2>4 DEF WriterTypeOK, Outcome
  <2>6. BytesInOrder'
    BY <1>1, <2>1, <2>2, <2>3 DEF BytesInOrder
  <2>7. CancelIsFirst' /\ OutcomeIsTrue'
    BY <1>1 DEF CancelIsFirst, OutcomeIsTrue
  <2> QED
    BY <2>5, <2>6, <2>7
<1> QED
  BY <1>2, <1>4, <1>5

\* No step of the thread breaks the invariant.
LEMMA WriterStepInv ==
    ASSUME WriterInv, WriterStep
    PROVE  WriterInv'
<1> USE WriterAssumption DEF Goto, Return, StopOr
<1>0. faults \in 0..MaxFaults /\ UNCHANGED platform
  BY DEF WriterInv, WriterTypeOK, WriterStep
<1>1. ASSUME NEW kind, Fault(kind)
      PROVE  faults' \in 0..MaxFaults /\ faults' > faults /\ faults' > 0
  BY <1>0, <1>1 DEF Fault
<1>2. CASE CheckDone
  BY <1>0, <1>2, ThreadInv DEF CheckDone, cancelVars
<1>6. CASE WaitWritable
  BY <1>0, <1>6, ThreadInv DEF WaitWritable, cancelVars
<1>3. CASE PollReturns
  <2>1. CancelSeen => cancelled
    BY DEF CancelSeen, WriterInv, CancelIsFirst
  <2> QED
    BY <1>0, <1>1, <1>3, <2>1, ThreadInv DEF PollReturns, cancelVars
<1>4. CASE WriteSome
  BY <1>0, <1>4, WriteSomeInv
<1>5. CASE WriteFails
  <2>1. CASE aborted /\ aborted' = FALSE /\ PartlyWritten /\ AfterAbort /\ UNCHANGED faults
    BY <1>0, <1>5, <2>1, AbortedWriteInv
  <2>2. CASE UNCHANGED <<pipe, aborted>>
    BY <1>0, <1>1, <1>5, <2>2, ThreadInv
       DEF WriteFails, RetryWrite, ZeroFails, pipeVars
  <2> QED
    BY <1>5, <2>1, <2>2 DEF WriteFails
<1> QED
  BY <1>2, <1>3, <1>4, <1>5, <1>6 DEF WriterStep

\* The calls of the owner.
LEMMA OwnerStepInv ==
    ASSUME WriterInv, OwnerStep
    PROVE  WriterInv'
<1> USE WriterAssumption DEF WriterInv, OwnerStep, pipeVars, threadVars, cancelVars
<1>1. /\ UNCHANGED <<platform, pipeVars, threadVars>>
      /\ faults' \in 0..MaxFaults /\ faults' >= faults
  BY DEF StoreCancel, Interrupt, JoinWriter, DetachWriter, Fault, WriterTypeOK
<1>2. /\ cancelled' \in BOOLEAN /\ wakeup' \in BOOLEAN /\ aborted' \in BOOLEAN
      /\ cancelled => cancelled'
  BY DEF StoreCancel, Interrupt, JoinWriter, DetachWriter, DropNotifier, WriterTypeOK
<1>3. WriterTypeOK'
  <2>1. /\ request' \in {"none", "stored", "delivered", "notFound", "failed"}
        /\ finish' \in {"ok", "failed", "detached", None}
    BY DEF StoreCancel, Interrupt, JoinWriter, DetachWriter, JoinResult, WriterTypeOK
  <2> QED
    BY <1>1, <1>2, <2>1 DEF WriterTypeOK
<1>4. BytesInOrder'
  BY <1>1 DEF BytesInOrder, Given
<1>5. CancelIsFirst'
  BY <1>2 DEF StoreCancel, Interrupt, JoinWriter, DetachWriter, DropNotifier, JoinResult,
              CancelIsFirst
<1>6. OutcomeIsTrue'
  <2>1. \/ UNCHANGED finish \/ finish' = "detached"
        \/ wpc = "done" /\ finish' = IF outcome = "failed" THEN "failed" ELSE "ok"
    BY DEF StoreCancel, Interrupt, JoinWriter, DetachWriter, JoinResult
  <2> QED
    BY <1>1, <1>2, <2>1 DEF OutcomeIsTrue, Given, WriterTypeOK
<1> QED
  BY <1>3, <1>4, <1>5, <1>6

\* No step of the thread, its owner or the child breaks the invariant.
LEMMA WriterInvStep == WriterInv /\ [WriterNext]_writerVars => WriterInv'
<1> SUFFICES ASSUME WriterInv, [WriterNext]_writerVars PROVE WriterInv'
  OBVIOUS
<1>1. CASE UNCHANGED writerVars
  BY <1>1 DEF writerVars, pipeVars, threadVars, cancelVars, WriterInv, WriterTypeOK,
       BytesInOrder, Given, CancelIsFirst, OutcomeIsTrue
<1> QED
  BY <1>1, WriterStepInv, OwnerStepInv, ChildStepInv DEF WriterNext

\* The invariant of the writer.
LEMMA WriterInvAlways == WriterSpec => []WriterInv
  BY WriterInvInit, WriterInvStep, PTL DEF WriterSpec

(***************************************************************************)
(* The theorems.                                                           *)
(***************************************************************************)

\* What the child was given is the beginning of the input.
LEMMA GivenIsPrefix ==
    ASSUME WriterInv
    PROVE  /\ Len(received \o pipe) = Given
           /\ received \o pipe = SubSeq(All, 1, Given)
<1>1. /\ received \in Seq(1..Input) /\ pipe \in Seq(1..Input)
      /\ Len(received) \in Nat /\ Len(pipe) \in Nat /\ Given \in 0..Input
  BY WriterAssumption DEF WriterInv, WriterTypeOK, BytesInOrder, Given
<1>2. /\ received \o pipe \in Seq(1..Input)
      /\ Len(received \o pipe) = Given
      /\ \A i \in 1..Given : (received \o pipe)[i] =
             IF i <= Len(received) THEN received[i] ELSE pipe[i - Len(received)]
  BY <1>1, ConcatProperties DEF Given
<1>3. \A i \in 1..Given : (received \o pipe)[i] = i
  BY <1>1, <1>2 DEF WriterInv, BytesInOrder, Follows, Given
<1>4. /\ SubSeq(All, 1, Given) \in Seq(1..Input)
      /\ Len(SubSeq(All, 1, Given)) = Given
      /\ \A i \in 1..Given : SubSeq(All, 1, Given)[i] = i
  <2>1. \A i \in 1..Given : All[i] = i /\ All[i] \in 1..Input
    BY <1>1, WriterAssumption DEF All
  <2> QED
    BY <1>1, <2>1, SubSeqProperties
<1> QED
  BY <1>2, <1>3, <1>4, SeqEqual

\* Every variable keeps its type.
THEOREM WriterTypeCorrect == WriterSpec => []WriterTypeOK
<1>1. WriterInv => WriterTypeOK
  BY DEF WriterInv
<1> QED
  BY <1>1, WriterInvAlways, PTL

\* The child is given a prefix of the input, whatever partial writes, retries and
\* aborted writes there are (write_stdin_until_cancelled).
THEOREM NoByteIsLost == WriterSpec => []InputIsPrefix
<1>1. WriterInv => InputIsPrefix
  BY GivenIsPrefix DEF InputIsPrefix
<1> QED
  BY <1>1, WriterInvAlways, PTL

\* A join without failure means that all of it was written, unless it was
\* cancelled or nobody reads; a failure means that a system call failed
\* (join_stdin_writer).
THEOREM JoinedTruly == WriterSpec => []JoinResultIsTrue
<1>1. WriterInv => JoinResultIsTrue
  <2> SUFFICES ASSUME WriterInv PROVE JoinResultIsTrue
    OBVIOUS
  <2>1. OnlyFaultsFail
    BY DEF WriterInv, OutcomeIsTrue, OnlyFaultsFail
  <2>2. ASSUME finish = "ok", ~cancelled, reading
        PROVE  received \o pipe = All
    <3>1. outcome = "ok"
      BY <2>2 DEF WriterInv, OutcomeIsTrue, WriterTypeOK, Outcome
    <3>2. Given = Input
      BY <2>2, <3>1 DEF WriterInv, OutcomeIsTrue
    <3>3. SubSeq(All, 1, Input) = All
      BY WriterAssumption DEF All
    <3> QED
      BY <3>2, <3>3, GivenIsPrefix
  <2> QED
    BY <2>1, <2>2 DEF JoinResultIsTrue, SuccessMeansWritten
<1> QED
  BY <1>1, WriterInvAlways, PTL

(***************************************************************************)
(* The writer as a run sees it: a helper that serves no output.            *)
(***************************************************************************)

AsHelper ==
    INSTANCE HelperContract WITH
        Helpers <- {"stdin"},
        Readers <- {},
        running <- IF wpc = "done" THEN {} ELSE {"stdin"},
        failed  <- IF wpc = "done" /\ JoinResult(outcome) = "failed" THEN {"stdin"} ELSE {},
        limited <- FALSE,
        passed  <- FALSE

\* A thread that is done stays done, with what it returned.
LEMMA WriterReturnsOnce ==
    ASSUME [WriterNext]_writerVars, wpc = "done"
    PROVE  UNCHANGED <<wpc, outcome>>
  BY DEF WriterNext, WriterStep, CheckDone, WaitWritable, PollReturns, WriteSome, WriteFails,
     OwnerStep, StoreCancel, Interrupt, JoinWriter, DetachWriter, ChildStep, ChildReads,
     ChildCloses, threadVars, writerVars

\* To the run the writer is a helper thread: it returns once and its failure
\* stays, however its writes, the child and the owner's calls interleave.
THEOREM WriterIsHelper == WriterSpec => AsHelper!HelperSpec
<1>1. WriterInit => AsHelper!HelperInit
  BY DEF WriterInit, AsHelper!HelperInit
<1>2. [WriterNext]_writerVars => [AsHelper!HelperNext]_(AsHelper!helperContractVars)
  <2> SUFFICES ASSUME [WriterNext]_writerVars
               PROVE  AsHelper!HelperNext \/ UNCHANGED AsHelper!helperContractVars
    OBVIOUS
  <2>1. CASE wpc = "done"
    BY <2>1, WriterReturnsOnce DEF AsHelper!helperContractVars, JoinResult
  <2>2. CASE wpc # "done" /\ wpc' # "done"
    BY <2>2 DEF AsHelper!helperContractVars
  <2>3. CASE wpc # "done" /\ wpc' = "done"
    BY <2>3 DEF AsHelper!HelperNext, AsHelper!Returns
  <2> QED
    BY <2>1, <2>2, <2>3
<1> QED
  BY <1>1, <1>2, PTL DEF WriterSpec, AsHelper!HelperSpec

(***************************************************************************)
(* How long a cancelled writer takes.                                      *)
(***************************************************************************)

\* The steps that a cancelled writer has still to make, at most.
WriterStepsLeft ==
    CASE wpc \in {"poll", "write"} -> 2
      [] wpc \in {"check", "wait"} -> 1
      [] wpc = "done"              -> 0

\* Its thread uses them up, and nobody else gives one back.
CancelledWriterRunsOut ==
    cancelled => /\ cancelled'
                 /\ WriterStepsLeft' <= WriterStepsLeft
                 /\ WriterStep => WriterStepsLeft' < WriterStepsLeft

\* A cancelled writer returns with its second step from now at the latest,
\* wherever it is and whichever call fails: it has one write or one wait left,
\* and no retry leads it back to another (write_stdin_until_cancelled).
THEOREM CancelledWriterIsBounded ==
    WriterSpec => /\ [](WriterStepsLeft \in 0..2)
                  /\ [][CancelledWriterRunsOut]_writerVars
<1>1. WriterInv => WriterStepsLeft \in 0..2
  BY DEF WriterInv, WriterTypeOK, WriterStepsLeft
<1>2. WriterInv /\ [WriterNext]_writerVars => [CancelledWriterRunsOut]_writerVars
  <2> SUFFICES ASSUME WriterInv, WriterNext, cancelled
               PROVE  /\ cancelled'
                      /\ WriterStepsLeft' <= WriterStepsLeft
                      /\ WriterStep => WriterStepsLeft' < WriterStepsLeft
    BY DEF CancelledWriterRunsOut
  <2>1. wpc \in {"check", "wait", "poll", "write", "done"}
    BY DEF WriterInv, WriterTypeOK
  <2>2. CASE WriterStep
    <3>1. cancelled'
      BY <2>2 DEF WriterStep, CheckDone, WaitWritable, PollReturns, WriteSome, WriteFails,
         cancelVars
    <3>2. \/ wpc \in {"poll", "write"} /\ wpc' \in {"check", "wait", "done"}
          \/ wpc \in {"check", "wait"} /\ wpc' = "done"
      BY <2>2 DEF WriterStep, CheckDone, WaitWritable, PollReturns, WriteSome, WriteFails,
         Goto, Return, StopOr, CancelSeen, RetryWrite, ZeroFails, AfterAbort
    <3> QED
      BY <3>1, <3>2 DEF WriterStepsLeft
  <2>3. CASE ~WriterStep
    <3>1. cancelled' /\ wpc' = wpc
      BY <2>3 DEF WriterNext, OwnerStep, StoreCancel, Interrupt, JoinWriter, DetachWriter,
         ChildStep, ChildReads, ChildCloses, threadVars, cancelVars
    <3> QED
      BY <2>1, <2>3, <3>1 DEF WriterStepsLeft
  <2> QED
    BY <2>2, <2>3
<1> QED
  BY <1>1, <1>2, WriterInvAlways, PTL DEF WriterSpec
=============================================================================
