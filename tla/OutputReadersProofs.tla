------------------------ MODULE OutputReadersProofs ------------------------
(***************************************************************************)
(* Theorems about OutputReaders, for every limit, cap, buffer length,      *)
(* platform and number of faults.                                          *)
(***************************************************************************)
EXTENDS OutputReaders, SequenceTheorems, TLAPS

(***************************************************************************)
(* The operators of OutputBudget.                                          *)
(***************************************************************************)

\* A chunk of a stream is a sequence of bytes of the length asked for.
LEMMA BytesType ==
    ASSUME NEW m \in Nat, NEW n \in Nat
    PROVE  /\ Bytes(m, n) \in Seq(Nat)
           /\ Len(Bytes(m, n)) = n
  BY DEF Bytes

\* No bytes are bytes.
LEMMA EmptyType == <<>> \in Seq(Nat)
  OBVIOUS

\* No more bytes are retained than were read.
LEMMA RetainedCountBound ==
    ASSUME NEW s \in OutputStream, NEW k \in Nat, NEW n \in Nat
    PROVE  RetainedCount(Cap[s], k, n) \in 0..n
  BY CapAssumption DEF RetainedCount, MinOf, SaturatingSub

\* The retained prefix stays a sequence of bytes.
LEMMA RetainedType ==
    ASSUME NEW s \in OutputStream,
           NEW bytes \in Seq(Nat), NEW new \in Seq(Nat)
    PROVE  Retained(s, bytes, new) \in Seq(Nat)
<1>1. RetainedCount(Cap[s], Len(bytes), Len(new)) \in 0..Len(new)
  BY RetainedCountBound
<1>2. SubSeq(new, 1, RetainedCount(Cap[s], Len(bytes), Len(new))) \in Seq(Nat)
  BY <1>1
<1> QED
  BY <1>2 DEF Retained

\* Charging a chunk keeps the budget well formed.
LEMMA ChargeType ==
    ASSUME NEW s \in OutputStream, NEW b \in TotalOutputBudgetState,
           NEW new \in Seq(Nat)
    PROVE  Charge(b, s, new) \in TotalOutputBudgetState
<1>1. b.bytes[s] \in Seq(Nat)
  BY DEF TotalOutputBudgetState
<1>2. Retained(s, b.bytes[s], new) \in Seq(Nat)
  BY <1>1, RetainedType
<1>3. Omits(s, b.bytes[s], new) \in BOOLEAN
  BY DEF Omits
<1>4. b.used + Len(new) \in Nat /\ (b.used + Len(new) > Limit) \in BOOLEAN
  BY LimitAssumption DEF TotalOutputBudgetState
<1> QED
  BY <1>2, <1>3, <1>4 DEF Charge, TotalOutputBudgetState

(***************************************************************************)
(* Type correctness.  A thread that is done has a result, which join       *)
(* relies on.                                                              *)
(***************************************************************************)

DoneHasResult ==
    \A s \in OutputStream : pc[s] = "done" => result[s] \in ReaderResult

TypeInv == TypeOK /\ DoneHasResult

\* The readers begin well typed.
LEMMA TypeInit == Init => TypeInv
<1> SUFFICES ASSUME Init PROVE TypeInv
  OBVIOUS
<1>1. NewBudget \in TotalOutputBudgetState
  BY DEF NewBudget, TotalOutputBudgetState
<1>2. TypeOK
  BY <1>1, ReadersAssumption DEF Init, TypeOK, ReaderPc
<1>3. DoneHasResult
  BY DEF Init, DoneHasResult
<1> QED
  BY <1>2, <1>3 DEF TypeInv

\* A fault that is allowed leaves the count of faults within its bound.
LEMMA FaultType ==
    ASSUME NEW kind, Fault(kind), TypeOK
    PROVE  faults' \in 0..MaxFaults
  BY ReadersAssumption DEF Fault, TypeOK

\* What the owner reads out of the budget is a CapturedOutput, and taking a
\* stream leaves the budget well formed.
LEMMA CapturedType ==
    ASSUME NEW s \in OutputStream, NEW b \in TotalOutputBudgetState
    PROVE  /\ CapturedStream(b, s) \in CapturedOutput
           /\ CapturedStreamMetadata(b, s) \in CapturedOutput
           /\ TakenStream(b, s) \in CapturedOutput
           /\ AfterTake(b, s) \in TotalOutputBudgetState
           /\ MarkComplete(b, s) \in TotalOutputBudgetState
           /\ HaltAtCeiling(b) \in TotalOutputBudgetState
<1>1. CapturedStream(b, s) \in CapturedOutput
  BY DEF CapturedStream, CapturedOutput, TotalOutputBudgetState
<1>2. CapturedStreamMetadata(b, s) \in CapturedOutput
  BY <1>1, EmptyType DEF CapturedStreamMetadata, CapturedOutput
<1>3. TakenStream(b, s) \in CapturedOutput
  BY <1>1, <1>2 DEF TakenStream
<1>4. AfterTake(b, s) \in TotalOutputBudgetState
  BY EmptyType DEF AfterTake, TotalOutputBudgetState
<1>5. MarkComplete(b, s) \in TotalOutputBudgetState
  BY DEF MarkComplete, TotalOutputBudgetState
<1>6. HaltAtCeiling(b) \in TotalOutputBudgetState
  BY DEF HaltAtCeiling, TotalOutputBudgetState
<1> QED
  BY <1>1, <1>2, <1>3, <1>4, <1>5, <1>6

\* Every step of a thread preserves the type invariant.
LEMMA TypeReaderStep ==
    ASSUME TypeInv, NEW s \in OutputStream, ReaderStep(s)
    PROVE  TypeInv'
<1> USE DEF TypeInv, DoneHasResult, pipeVars, ownerVars, cancelVars, Goto, Leave,
            StopOr, ReaderPc, LoopEnd
<1>0. setup' \in Setups
  BY DEF ReaderStep, TypeOK
<1> USE <1>0
<1>1. CASE CheckCancelled(s)
  BY <1>1, ReadersAssumption DEF CheckCancelled, TypeOK
<1>2. CASE EnterPoll(s)
  BY <1>2 DEF EnterPoll, TypeOK
<1>3. CASE PollReturns(s)
  <2>1. faults' \in 0..MaxFaults
    BY <1>3, FaultType DEF PollReturns, TypeOK
  <2>2. /\ pc' \in [OutputStream -> ReaderPc]
        /\ end' \in [OutputStream -> LoopEnd \cup {None}]
        /\ DoneHasResult'
    BY <1>3 DEF PollReturns, TypeOK
  <2> QED
    BY <1>3, <2>1, <2>2 DEF PollReturns, TypeOK
<1>4. CASE Peek(s)
  <2>1. budget' \in TotalOutputBudgetState
    <3>1. budget' \in {budget, MarkComplete(budget, s)}
      BY <1>4 DEF Peek
    <3> QED
      BY <3>1, CapturedType DEF TypeOK
  <2>2. ready' \in [OutputStream -> Nat]
    BY <1>4 DEF Peek, Unread, TypeOK
  <2>3. faults' \in 0..MaxFaults
    BY <1>4, FaultType DEF Peek, TypeOK
  <2>4. /\ pc' \in [OutputStream -> ReaderPc]
        /\ end' \in [OutputStream -> LoopEnd \cup {None}]
        /\ DoneHasResult'
    BY <1>4 DEF Peek, TypeOK
  <2> QED
    BY <1>4, <2>1, <2>2, <2>3, <2>4 DEF Peek, TypeOK
<1>5. CASE ReadRefused(s)
  <2>1. HaltAtCeiling(budget) \in TotalOutputBudgetState
    BY CapturedType DEF TypeOK
  <2> QED
    BY <1>5, <2>1 DEF ReadRefused, TypeOK
<1>6. CASE ReadPipe(s)
  <2>1. PICK n \in 0..MinOf(ReadLimit(s), Unread(s)) :
          /\ chunk' = [chunk EXCEPT ![s] = Bytes(consumed[s], n)]
          /\ consumed' = [consumed EXCEPT ![s] = @ + n]
          /\ IF Budgeted
             THEN /\ budget' = Charge(budget, s, Bytes(consumed[s], n))
                  /\ UNCHANGED local
             ELSE /\ local' = [local EXCEPT ![s] = RetainedLocally(s, n)]
                  /\ UNCHANGED budget
          /\ Goto(s, IF n = 0 THEN "zero" ELSE "got")
    BY <1>6 DEF ReadPipe
  <2>9. n \in Nat /\ consumed[s] \in Nat
    BY <2>1 DEF TypeOK
  <2>2. n \in Nat /\ Bytes(consumed[s], n) \in Seq(Nat)
    BY <2>9, BytesType
  <2>3. /\ consumed' \in [OutputStream -> Nat]
        /\ chunk' \in [OutputStream -> Seq(Nat)]
        /\ pc' \in [OutputStream -> ReaderPc]
    BY <2>1, <2>2 DEF TypeOK
  <2>4. budget' \in TotalOutputBudgetState
    BY <2>1, <2>2, ChargeType DEF TypeOK
  <2>5. local' \in [OutputStream -> [bytes : Seq(Nat), truncated : BOOLEAN]]
    <3>1. Retained(s, local[s].bytes, Bytes(consumed[s], n)) \in Seq(Nat)
      BY <2>2, RetainedType DEF TypeOK
    <3>2. RetainedLocally(s, n) \in [bytes : Seq(Nat), truncated : BOOLEAN]
      BY <3>1 DEF RetainedLocally, Omits, TypeOK
    <3> QED
      BY <2>1, <3>2 DEF TypeOK
  <2>6. lateIo' \in [OutputStream -> Nat]
    BY <1>6 DEF ReadPipe, CountIo, TypeOK
  <2>7. /\ UNCHANGED <<written, open, ready, end, tee, writeError, result>>
        /\ UNCHANGED <<request, finish, cancelled, wakeup, aborted, faults>>
    BY <1>6 DEF ReadPipe, Goto
  <2>8. \A t \in OutputStream : pc'[t] = "done" => pc[t] = "done"
    BY <2>1 DEF Goto, TypeOK
  <2> QED
    BY <2>3, <2>4, <2>5, <2>6, <2>7, <2>8 DEF TypeOK
<1>7. CASE ReadFails(s)
  <2>1. faults' \in 0..MaxFaults
    BY <1>7, FaultType DEF ReadFails, TypeOK
  <2>2. /\ pc' \in [OutputStream -> ReaderPc]
        /\ end' \in [OutputStream -> LoopEnd \cup {None}]
        /\ aborted' \in [OutputStream -> BOOLEAN]
        /\ DoneHasResult'
    BY <1>7 DEF ReadFails, TypeOK
  <2> QED
    BY <1>7, <2>1, <2>2 DEF ReadFails, TypeOK
<1>8. CASE ZeroRead(s)
  BY <1>8 DEF ZeroRead, TypeOK
<1>9. CASE MarkEof(s)
  BY <1>9, CapturedType DEF MarkEof, TypeOK
<1>10. CASE CheckBeforeTee(s)
  BY <1>10 DEF CheckBeforeTee, TypeOK
<1>11. CASE TeeWrites(s)
  <2>1. tee[s].file \o chunk[s] \in Seq(Nat)
    BY DEF TypeOK
  <2>2. tee' \in [OutputStream -> [used : BOOLEAN, file : Seq(Nat)]]
    BY <1>11, <2>1 DEF TeeWrites, TypeOK
  <2>3. lateIo' \in [OutputStream -> Nat]
    BY <1>11 DEF TeeWrites, CountIo, TypeOK
  <2> QED
    BY <1>11, <2>2, <2>3 DEF TeeWrites, TypeOK
<1>12. CASE TeeFails(s)
  <2>1. tee' \in [OutputStream -> [used : BOOLEAN, file : Seq(Nat)]]
    <3>1. PICK n \in 0..(Len(chunk[s]) - 1) :
            tee' = [tee EXCEPT ![s] = DroppedTee(s, n)]
      BY <1>12 DEF TeeFails
    <3>2. SubSeq(chunk[s], 1, n) \in Seq(Nat) /\ tee[s].file \in Seq(Nat)
      BY <3>1 DEF TypeOK
    <3>3. DroppedTee(s, n) \in [used : BOOLEAN, file : Seq(Nat)]
      BY <3>2 DEF DroppedTee
    <3> QED
      BY <3>1, <3>3 DEF TypeOK
  <2>2. lateIo' \in [OutputStream -> Nat]
    BY <1>12 DEF TeeFails, CountIo, TypeOK
  <2>3. faults' \in 0..MaxFaults
    BY <1>12, FaultType DEF TeeFails, TypeOK
  <2>4. /\ pc' \in [OutputStream -> ReaderPc]
        /\ aborted' \in [OutputStream -> BOOLEAN]
        /\ DoneHasResult'
    BY <1>12 DEF TeeFails, TypeOK
  <2> QED
    BY <1>12, <2>1, <2>2, <2>3, <2>4 DEF TeeFails, TypeOK
<1>13. CASE CheckLimit(s)
  BY <1>13, EmptyType DEF CheckLimit, TypeOK
<1>14. CASE FinishReading(s)
  <2>1. ThreadOutput(s) \in CapturedOutput
    <3>1. CapturedStreamMetadata(budget, s) \in CapturedOutput
      BY CapturedType DEF TypeOK
    <3> QED
      BY <3>1 DEF ThreadOutput, TypeOK, CapturedOutput
  <2>2. KindOf(writeError'[s], end[s]) \in ResultKind
    BY DEF KindOf, ResultKind
  <2>3. [kind |-> KindOf(writeError'[s], end[s]), output |-> ThreadOutput(s)]
            \in ReaderResult
    BY <2>1, <2>2 DEF ReaderResult
  <2>4. result' \in [OutputStream -> ReaderResult \cup {None}]
    BY <1>14, <2>3 DEF FinishReading, TypeOK
  <2>5. DoneHasResult'
    BY <1>14, <2>3 DEF FinishReading, TypeOK
  <2>6. faults' \in 0..MaxFaults
    BY <1>14, FaultType DEF FinishReading, TypeOK
  <2>7. /\ writeError' \in [OutputStream -> BOOLEAN]
        /\ pc' \in [OutputStream -> ReaderPc]
    BY <1>14 DEF FinishReading, TypeOK
  <2> QED
    BY <1>14, <2>4, <2>5, <2>6, <2>7 DEF FinishReading, TypeOK
<1> QED
  BY <1>1, <1>2, <1>3, <1>4, <1>5, <1>6, <1>7, <1>8, <1>9, <1>10, <1>11,
     <1>12, <1>13, <1>14 DEF ReaderStep

\* What join hands over is a result of the type announced.
LEMMA JoinedType ==
    ASSUME TypeInv, NEW s \in OutputStream, Join(s)
    PROVE  [how    |-> "Joined",
            kind   |-> result[s].kind,
            output |-> IF Budgeted THEN TakenStream(budget, s)
                       ELSE result[s].output] \in ReaderFinish
<1>1. result[s] \in ReaderResult
  BY DEF Join, TypeInv, DoneHasResult
<1>2. (IF Budgeted THEN TakenStream(budget, s) ELSE result[s].output) \in CapturedOutput
  BY <1>1, CapturedType DEF ReaderResult, TypeInv, TypeOK
<1> QED
  BY <1>1, <1>2 DEF ReaderResult, ReaderFinish

\* So do the owner's calls and the child.
LEMMA TypeOtherStep ==
    ASSUME TypeInv, NEW s \in OutputStream, OwnerStep(s) \/ ChildStep(s)
    PROVE  TypeInv'
<1> USE DEF TypeInv, DoneHasResult, pipeVars, threadVars, ownerVars, cancelVars
<1>0. setup' \in Setups
  BY DEF OwnerStep, ChildStep, TypeOK
<1> USE <1>0
<1>1. CASE StoreCancel(s)
  BY <1>1 DEF StoreCancel, TypeOK
<1>2. CASE WakeReader(s)
  <2>1. faults' \in 0..MaxFaults
    BY <1>2, FaultType DEF WakeReader, TypeOK
  <2>2. /\ wakeup' \in [OutputStream -> BOOLEAN]
        /\ aborted' \in [OutputStream -> BOOLEAN]
        /\ request' \in [OutputStream ->
                {"none", "stored", "delivered", "notFound", "failed"}]
    BY <1>2 DEF WakeReader, TypeOK
  <2> QED
    BY <1>2, <2>1, <2>2 DEF WakeReader, TypeOK
<1>3. CASE Join(s)
  <2>1. result[s] \in ReaderResult
    BY <1>3 DEF Join
  <2>3. [how    |-> "Joined",
         kind   |-> result[s].kind,
         output |-> IF Budgeted THEN TakenStream(budget, s)
                    ELSE result[s].output] \in ReaderFinish
    BY <1>3, JoinedType
  <2>4. budget' \in TotalOutputBudgetState
    BY <1>3, CapturedType DEF Join, TypeOK
  <2> QED
    BY <1>3, <2>3, <2>4 DEF Join, TypeOK
<1>4. CASE Detach(s)
  <2>1. [how    |-> "Detached",
         kind   |-> "Ok",
         output |-> [bytes     |-> IF Budgeted THEN budget.bytes[s] ELSE <<>>,
                     truncated |-> Budgeted /\ budget.truncated[s],
                     complete  |-> FALSE]] \in ReaderFinish
    BY DEF ReaderFinish, ResultKind, CapturedOutput, TypeOK,
           TotalOutputBudgetState
  <2>2. (wakeup[s] \/ Platform = "unix") \in BOOLEAN
    OBVIOUS
  <2> QED
    BY <1>4, <2>1, <2>2 DEF Detach, TypeOK
<1>5. CASE ChildWrites(s)
  BY <1>5 DEF ChildWrites, TypeOK
<1>6. CASE ChildCloses(s)
  BY <1>6 DEF ChildCloses, TypeOK
<1> QED
  BY <1>1, <1>2, <1>3, <1>4, <1>5, <1>6 DEF OwnerStep, ChildStep

\* Nothing changes in a stuttering step.
LEMMA TypeStutter == TypeInv /\ UNCHANGED vars => TypeInv'
  BY DEF TypeInv, TypeOK, DoneHasResult, vars, pipeVars, threadVars, ownerVars,
         cancelVars

\* Every reachable state is well typed, and a thread that is done has a result.
LEMMA TypeInvariant == Spec => []TypeInv
<1>1. Init => TypeInv
  BY TypeInit
<1>2. TypeInv /\ [Next]_vars => TypeInv'
  BY TypeReaderStep, TypeOtherStep, TypeStutter DEF Next
<1> QED
  BY <1>1, <1>2, PTL DEF Spec

\* Every reachable state of the readers, their budget, their tokens and the
\* owner is well typed.
THEOREM TypeCorrect == Spec => []TypeOK
<1>1. TypeInv => TypeOK
  BY DEF TypeInv
<1> QED
  BY <1>1, TypeInvariant, PTL

(***************************************************************************)
(* The budget is never overdrawn.  A read asks for no more than what is    *)
(* left up to the sentinel byte and happens in the critical section that   *)
(* charges it, so BudgetAccounting is inductive once the types are known.  *)
(***************************************************************************)

\* The counters that BudgetAccounting relates.
BudgetCounters == <<setup, budget.used, budget.exceeded, budget.halted, consumed>>

\* Completing a stream and taking its bytes leave the counters of the budget alone.
LEMMA CountersKept ==
    ASSUME NEW s \in OutputStream, NEW b \in TotalOutputBudgetState
    PROVE  /\ MarkComplete(b, s).used = b.used
           /\ MarkComplete(b, s).exceeded = b.exceeded
           /\ MarkComplete(b, s).halted = b.halted
           /\ AfterTake(b, s).used = b.used
           /\ AfterTake(b, s).exceeded = b.exceeded
           /\ AfterTake(b, s).halted = b.halted
  BY DEF MarkComplete, AfterTake, TotalOutputBudgetState

\* A charge counts every byte, and exceeds and halts the budget beyond the limit.
LEMMA ChargeCounters ==
    ASSUME NEW s \in OutputStream, NEW b \in TotalOutputBudgetState,
           NEW new \in Seq(Nat)
    PROVE  /\ Charge(b, s, new).used = b.used + Len(new)
           /\ Charge(b, s, new).exceeded
                  = (b.exceeded \/ b.used + Len(new) > Limit)
           /\ Charge(b, s, new).halted
                  = (b.halted \/ b.used + Len(new) > Limit)
  BY DEF Charge, TotalOutputBudgetState

\* Only the two outcomes of a read touch the counters.
LEMMA CountersStep ==
    ASSUME TypeInv, NEW s \in OutputStream,
           ReaderStep(s) \/ OwnerStep(s) \/ ChildStep(s),
           ~ReadPipe(s), ~ReadRefused(s)
    PROVE  UNCHANGED BudgetCounters
<1> USE DEF BudgetCounters, pipeVars, threadVars, ownerVars, cancelVars
<1>0. UNCHANGED setup
  BY DEF ReaderStep, OwnerStep, ChildStep
<1> USE <1>0
<1>1. budget \in TotalOutputBudgetState
  BY DEF TypeInv, TypeOK
<1>2. /\ MarkComplete(budget, s).used = budget.used
      /\ MarkComplete(budget, s).exceeded = budget.exceeded
      /\ MarkComplete(budget, s).halted = budget.halted
      /\ AfterTake(budget, s).used = budget.used
      /\ AfterTake(budget, s).exceeded = budget.exceeded
      /\ AfterTake(budget, s).halted = budget.halted
  BY <1>1, CountersKept
<1>3. CASE ReaderStep(s)
  <2>1. CASE Peek(s) \/ MarkEof(s)
    BY <2>1, <1>2 DEF Peek, MarkEof
  <2> QED
    BY <1>3, <2>1 DEF ReaderStep, CheckCancelled, EnterPoll, PollReturns,
       ReadFails, ZeroRead, CheckBeforeTee, TeeWrites, TeeFails, CheckLimit,
       FinishReading
<1>4. CASE OwnerStep(s)
  BY <1>4, <1>2 DEF OwnerStep, StoreCancel, WakeReader, Join, Detach
<1>5. CASE ChildStep(s)
  BY <1>5 DEF ChildStep, ChildWrites, ChildCloses
<1> QED
  BY <1>3, <1>4, <1>5

\* A read that is made charges what it took and stays within the ceiling.
LEMMA AccountingRead ==
    ASSUME TypeInv, BudgetAccounting, NEW s \in OutputStream, ReadPipe(s),
           Budgeted, UNCHANGED setup
    PROVE  /\ BudgetAccounting'
           /\ ~budget.exceeded
<1>1. /\ budget \in TotalOutputBudgetState
      /\ consumed \in [OutputStream -> Nat]
      /\ written \in [OutputStream -> Nat]
      /\ ready \in [OutputStream -> Nat]
      /\ Limit \in Nat /\ BufferLen \in Nat
  BY LimitAssumption, ReadersAssumption DEF TypeInv, TypeOK
<1>2. ~budget.halted /\ ~budget.exceeded
  BY DEF ReadPipe, Refused, BudgetAccounting
<1>3. budget.used \in Nat /\ budget.used <= Limit
  BY <1>1, <1>2 DEF BudgetAccounting, TotalOutputBudgetState
<1>4. PICK n \in 0..MinOf(ReadLimit(s), Unread(s)) :
        /\ consumed' = [consumed EXCEPT ![s] = @ + n]
        /\ budget' = Charge(budget, s, Bytes(consumed[s], n))
  BY DEF ReadPipe
<1>5. n \in Nat /\ n <= Limit + 1 - budget.used
  <2>1. ReadLimit(s) <= Limit + 1 - budget.used
    BY <1>1, <1>3 DEF ReadLimit, Request, MinOf, Remaining, SaturatingSub,
       Ceiling
  <2> QED
    BY <1>4, <2>1, <1>1, <1>3 DEF MinOf, ReadLimit, Request, Remaining,
       SaturatingSub, Ceiling, Unread
<1>6. /\ Bytes(consumed[s], n) \in Seq(Nat)
      /\ Len(Bytes(consumed[s], n)) = n
  BY <1>1, <1>5, BytesType
<1>7. /\ budget'.used = budget.used + n
      /\ budget'.exceeded = (budget.exceeded \/ budget.used + n > Limit)
      /\ budget'.halted = (budget.halted \/ budget.used + n > Limit)
  BY <1>1, <1>4, <1>6, ChargeCounters
<1>8. consumed'["stdout"] + consumed'["stderr"]
          = consumed["stdout"] + consumed["stderr"] + n
  BY <1>1, <1>4, <1>5 DEF OutputStream
<1>9. budget.used = consumed["stdout"] + consumed["stderr"]
  BY DEF BudgetAccounting
<1>10. budget'.used = consumed'["stdout"] + consumed'["stderr"]
  BY <1>1, <1>5, <1>7, <1>8, <1>9 DEF OutputStream
<1>11. budget'.used <= Limit + 1
  BY <1>1, <1>3, <1>5, <1>7
<1>12. /\ budget'.exceeded <=> budget'.used = Limit + 1
       /\ budget'.halted <=> budget'.exceeded
  <2>1. /\ budget'.exceeded <=> budget.used + n > Limit
        /\ budget'.halted <=> budget.used + n > Limit
    BY <1>2, <1>7
  <2>2. budget.used + n > Limit <=> budget'.used = Limit + 1
    BY <1>1, <1>3, <1>5, <1>7
  <2> QED
    BY <2>1, <2>2
<1> QED
  BY <1>2, <1>10, <1>11, <1>12 DEF BudgetAccounting

\* A refused read finds the budget already halted.
LEMMA AccountingRefused ==
    ASSUME TypeInv, BudgetAccounting, NEW s \in OutputStream, ReadRefused(s),
           UNCHANGED setup
    PROVE  BudgetAccounting'
<1>1. budget \in TotalOutputBudgetState /\ Limit \in Nat
  BY LimitAssumption DEF TypeInv, TypeOK
<1>2. Budgeted => budget' = budget
  <2> SUFFICES ASSUME Budgeted, ~budget.halted, Remaining(budget) = 0
               PROVE  FALSE
    BY DEF ReadRefused
  <2> QED
    BY <1>1 DEF BudgetAccounting, Remaining, SaturatingSub, Ceiling,
       TotalOutputBudgetState
<1> QED
  BY <1>2 DEF ReadRefused, BudgetAccounting, Budgeted

\* A new budget has nothing to account for.
LEMMA AccountingInit == Init => BudgetAccounting
  BY LimitAssumption DEF Init, BudgetAccounting, NewBudget, OutputStream

\* No step overdraws the budget.
LEMMA AccountingStep == TypeInv /\ BudgetAccounting /\ [Next]_vars => BudgetAccounting'
<1> SUFFICES ASSUME TypeInv, BudgetAccounting, [Next]_vars
             PROVE  BudgetAccounting'
  OBVIOUS
<1>1. CASE UNCHANGED vars
  BY <1>1 DEF vars, BudgetAccounting, Budgeted
<1>2. ASSUME NEW s \in OutputStream, ReaderStep(s) \/ OwnerStep(s) \/ ChildStep(s)
      PROVE  BudgetAccounting'
  <2>0. UNCHANGED setup
    BY <1>2 DEF ReaderStep, OwnerStep, ChildStep
  <2>1. CASE ReadPipe(s)
    BY <2>0, <2>1, AccountingRead DEF BudgetAccounting, Budgeted
  <2>2. CASE ReadRefused(s)
    BY <2>0, <2>2, AccountingRefused
  <2>3. CASE ~ReadPipe(s) /\ ~ReadRefused(s)
    <3>1. UNCHANGED BudgetCounters
      BY <1>2, <2>3, CountersStep
    <3> QED
      BY <3>1 DEF BudgetCounters, BudgetAccounting, Budgeted
  <2> QED
    BY <2>1, <2>2, <2>3
<1> QED
  BY <1>1, <1>2 DEF Next

\* For every limit: at most limit + 1 bytes leave the two pipes, all of them
\* are charged, and the run is over the limit exactly at limit + 1.
THEOREM BudgetNeverOverdrawn == Spec => []BudgetAccounting
<1>1. Init => BudgetAccounting
  BY AccountingInit
<1>2. TypeInv /\ BudgetAccounting /\ [Next]_vars => BudgetAccounting'
  BY AccountingStep
<1> QED
  BY <1>1, <1>2, TypeInvariant, PTL DEF Spec

\* Once the limit is exceeded no reader takes another byte, so the observed
\* count that the monitor reports is the final one.
THEOREM ObservedCountIsFinal == Spec => NothingReadOnceExceeded
<1>1. TypeInv /\ BudgetAccounting /\ [Next]_vars
          => [Budgeted /\ budget.exceeded => consumed' = consumed]_vars
  <2> SUFFICES ASSUME TypeInv, BudgetAccounting, Next, Budgeted,
                      budget.exceeded
               PROVE  consumed' = consumed
    OBVIOUS
  <2>1. PICK s \in OutputStream : ReaderStep(s) \/ OwnerStep(s) \/ ChildStep(s)
    BY DEF Next
  <2>2. UNCHANGED setup
    BY <2>1 DEF ReaderStep, OwnerStep, ChildStep
  <2>3. ~ReadPipe(s)
    BY <2>2, AccountingRead
  <2>4. CASE ReadRefused(s)
    BY <2>4 DEF ReadRefused
  <2>5. CASE ~ReadRefused(s)
    BY <2>1, <2>3, <2>5, CountersStep DEF BudgetCounters
  <2> QED
    BY <2>4, <2>5
<1> QED
  BY <1>1, TypeInvariant, BudgetNeverOverdrawn, PTL
     DEF Spec, NothingReadOnceExceeded

(***************************************************************************)
(* What the thread and its owner know of one stream.  The invariants below *)
(* are each about one stream; all that a step of one stream does to the    *)
(* other is to halt the budget.                                            *)
(***************************************************************************)

Joined(s) == finish[s] # None /\ finish[s].how = "Joined"

\* A call that was decided on before the flag was set is not followed by
\* another one: after it the thread looks at the flag.
LateIoInv(s) ==
    /\ lateIo[s] \in {0, 1}
    /\ lateIo[s] = 1 => cancelled[s]
    /\ pc[s] \in {"wait", "poll", "peek", "read", "tee"} => lateIo[s] = 0

\* Only a cancellation makes the wakeup socket readable.
RequestInv(s) == wakeup[s] \/ request[s] # "none" => cancelled[s]

\* The loop is left for a reason, and a zero read is the end of the pipe or
\* due to the budget.
EndInv(s) ==
    /\ pc[s] \in {"wait", "poll", "read"} => ready[s] > 0
    /\ pc[s] \in {"peek", "mark"} => Budgeted
    /\ pc[s] = "zero" => AtEof(s) \/ (Budgeted /\ budget.halted)
    /\ pc[s] = "mark" => AtEof(s)
    /\ end[s] # None <=> pc[s] \in {"finish", "done"}
    /\ end[s] = "eof" => AtEof(s)
    /\ end[s] = "stopped" => cancelled[s] \/ (Budgeted /\ budget.exceeded)

\* The budget knows which of its streams were drained.
CompleteInv(s) == budget.complete[s] <=> Budgeted /\ end[s] = "eof"

\* The result says how the loop ended, and the owner is told so.
ResultInv(s) ==
    /\ pc[s] = "done" => result[s].kind = KindOf(writeError[s], end[s])
    /\ pc[s] = "done" /\ ~Budgeted => result[s].output = ThreadOutput(s)
    /\ Joined(s) => /\ pc[s] = "done"
                    /\ finish[s].kind = result[s].kind
                    /\ finish[s].output.complete <=> end[s] = "eof"
    /\ finish[s] # None /\ ~Joined(s) => ~finish[s].output.complete

\* The bytes that are kept, and those that the owner has.
KeptInv(s) ==
    /\ Kept(s).bytes = Bytes(0, KeptCount(s))
    /\ Kept(s).truncated <=> KeptCount(s) < consumed[s]
    /\ budget.transferred[s] <=> Budgeted /\ Joined(s)
    /\ Joined(s) => finish[s].output.bytes = Bytes(0, KeptCount(s))
    /\ finish[s] # None /\ ~Joined(s) =>
          /\ Len(finish[s].output.bytes) <= KeptCount(s)
          /\ finish[s].output.bytes = Bytes(0, Len(finish[s].output.bytes))

\* The chunk between its read and its tee write is the last that was read.
ChunkInv(s) ==
    pc[s] \in {"got", "tee"} =>
        /\ Len(chunk[s]) \in 1..BufferLen
        /\ Len(chunk[s]) <= consumed[s]
        /\ chunk[s] = Bytes(consumed[s] - Len(chunk[s]), Len(chunk[s]))

\* Whether the tee lacks the last chunk because of a cancellation.
LastChunkDropped(s) ==
    /\ pc[s] \in {"finish", "done"} /\ end[s] = "stopped" /\ cancelled[s]
    /\ consumed[s] - Len(tee[s].file) \in 1..BufferLen

\* A tee in use lacks the chunk that is about to be written, or a last chunk.
TeeInv(s) ==
    /\ tee[s].file = Bytes(0, Len(tee[s].file))
    /\ pc[s] = "tee" => tee[s].used
    /\ tee[s].used =>
          \/ pc[s] \in {"got", "tee"} /\ consumed[s] = Len(tee[s].file) + Len(chunk[s])
          \/ pc[s] \notin {"got", "tee"} /\ consumed[s] = Len(tee[s].file)
          \/ LastChunkDropped(s)
    /\ s \in Teed /\ ~tee[s].used => writeError[s]

StreamInv(s) ==
    /\ LateIoInv(s) /\ RequestInv(s) /\ EndInv(s) /\ CompleteInv(s) /\ ResultInv(s)
    /\ KeptInv(s) /\ ChunkInv(s) /\ TeeInv(s)

ReadersInv == \A s \in OutputStream : StreamInv(s)

(***************************************************************************)
(* Sequences of consecutive bytes.                                         *)
(***************************************************************************)

\* A prefix of consecutive bytes is one, and two runs that meet make one.
LEMMA BytesPrefix ==
    ASSUME NEW m \in Nat, NEW n \in Nat, NEW k \in 0..n
    PROVE  SubSeq(Bytes(m, n), 1, k) = Bytes(m, k)
  BY DEF Bytes

\* Consecutive bytes of a stream joined are consecutive bytes.
LEMMA BytesJoin ==
    ASSUME NEW m \in Nat, NEW n \in Nat
    PROVE  Bytes(0, m) \o Bytes(m, n) = Bytes(0, m + n)
<1>1. /\ Bytes(0, m) \in Seq(Nat) /\ Len(Bytes(0, m)) = m
      /\ Bytes(m, n) \in Seq(Nat) /\ Len(Bytes(m, n)) = n
      /\ Bytes(0, m + n) \in Seq(Nat) /\ Len(Bytes(0, m + n)) = m + n
  BY BytesType
<1>2. /\ Bytes(0, m) \o Bytes(m, n) \in Seq(Nat)
      /\ Len(Bytes(0, m) \o Bytes(m, n)) = m + n
  BY <1>1
<1>3. ASSUME NEW i \in 1..(m + n)
      PROVE  (Bytes(0, m) \o Bytes(m, n))[i] = Bytes(0, m + n)[i]
  BY <1>1, <1>3 DEF Bytes
<1> QED
  BY <1>1, <1>2, <1>3, SeqEqual

\* What the cap lets through of m + n bytes, if they come in two chunks.
LEMMA RetainedInTwo ==
    ASSUME NEW s \in OutputStream, NEW m \in Nat, NEW n \in Nat
    PROVE  LET k == RetainedCount(Cap[s], 0, m)
               j == RetainedCount(Cap[s], k, n)
           IN  /\ k \in 0..m /\ j \in 0..n
               /\ RetainedCount(Cap[s], 0, m + n) = k + j
               /\ k + j < m + n <=> k < m \/ j < n
               /\ j > 0 => k = m
<1>0. PICK k, j : k = RetainedCount(Cap[s], 0, m) /\ j = RetainedCount(Cap[s], k, n)
  OBVIOUS
<1> SUFFICES /\ k \in 0..m /\ j \in 0..n
             /\ RetainedCount(Cap[s], 0, m + n) = k + j
             /\ k + j < m + n <=> k < m \/ j < n
             /\ j > 0 => k = m
  BY <1>0
<1>1. CASE Cap[s] = None
  BY <1>0, <1>1 DEF RetainedCount
<1>2. CASE Cap[s] # None
  <2>1. Cap[s] \in Nat
    BY <1>2, CapAssumption
  <2>2. k = IF m <= Cap[s] THEN m ELSE Cap[s]
    BY <1>0, <1>2, <2>1 DEF RetainedCount, MinOf, SaturatingSub
  <2>3. j = IF n <= Cap[s] - k THEN n ELSE Cap[s] - k
    BY <1>0, <1>2, <2>1, <2>2 DEF RetainedCount, MinOf, SaturatingSub
  <2>4. RetainedCount(Cap[s], 0, m + n) = IF m + n <= Cap[s] THEN m + n ELSE Cap[s]
    BY <1>2, <2>1 DEF RetainedCount, MinOf, SaturatingSub
  <2> QED
    BY <2>1, <2>2, <2>3, <2>4
<1> QED
  BY <1>1, <1>2

\* Retaining a chunk goes on with the kept prefix.
LEMMA RetainedGoesOn ==
    ASSUME NEW s \in OutputStream, NEW m \in Nat, NEW n \in Nat,
           NEW bytes, bytes = Bytes(0, RetainedCount(Cap[s], 0, m))
    PROVE  /\ Retained(s, bytes, Bytes(m, n)) = Bytes(0, RetainedCount(Cap[s], 0, m + n))
           /\ RetainedCount(Cap[s], 0, m + n) < m + n
                  <=> RetainedCount(Cap[s], 0, m) < m \/ Omits(s, bytes, Bytes(m, n))
<1>1. PICK k, j : k = RetainedCount(Cap[s], 0, m) /\ j = RetainedCount(Cap[s], k, n)
  OBVIOUS
<1>2. /\ k \in 0..m /\ j \in 0..n
      /\ RetainedCount(Cap[s], 0, m + n) = k + j
      /\ k + j < m + n <=> k < m \/ j < n
      /\ j > 0 => k = m
  BY <1>1, RetainedInTwo
<1>3. /\ bytes = Bytes(0, k) /\ Len(bytes) = k /\ bytes \in Seq(Nat)
      /\ Len(Bytes(m, n)) = n
  BY <1>1, <1>2, BytesType
<1>4. Retained(s, bytes, Bytes(m, n)) = bytes \o Bytes(m, j)
  BY <1>1, <1>2, <1>3, BytesPrefix DEF Retained
<1>5. bytes \o Bytes(m, j) = Bytes(0, k + j)
  <2>1. CASE k = m
    <3>1. j \in Nat
      BY <1>2
    <3>2. Bytes(0, m) \o Bytes(m, j) = Bytes(0, m + j)
      BY <3>1, BytesJoin
    <3> QED
      BY <1>3, <2>1, <3>2
  <2>2. CASE j = 0
    <3>1. Bytes(m, j) = <<>>
      BY <2>2 DEF Bytes
    <3>2. bytes \o <<>> = bytes
      BY <1>3, ConcatEmptySeq
    <3> QED
      BY <1>2, <1>3, <2>2, <3>1, <3>2
  <2> QED
    BY <1>2, <2>1, <2>2
<1>6. Omits(s, bytes, Bytes(m, n)) <=> j < n
  BY <1>1, <1>3 DEF Omits
<1> QED
  BY <1>1, <1>2, <1>4, <1>5, <1>6

(***************************************************************************)
(* A step of one stream leaves the other alone.                            *)
(***************************************************************************)

\* Nothing that the invariants say of stream t changes, but that the budget
\* may be halted.
StreamKept(t) ==
    /\ setup' = setup
    /\ written'[t] = written[t] /\ open'[t] = open[t] /\ consumed'[t] = consumed[t]
    /\ pc'[t] = pc[t] /\ ready'[t] = ready[t] /\ chunk'[t] = chunk[t]
    /\ local'[t] = local[t] /\ tee'[t] = tee[t] /\ writeError'[t] = writeError[t]
    /\ end'[t] = end[t] /\ result'[t] = result[t]
    /\ cancelled'[t] = cancelled[t] /\ finish'[t] = finish[t] /\ lateIo'[t] = lateIo[t]
    /\ wakeup'[t] = wakeup[t] /\ request'[t] = request[t]
    /\ budget'.bytes[t] = budget.bytes[t]
    /\ budget'.truncated[t] = budget.truncated[t]
    /\ budget'.complete[t] = budget.complete[t]
    /\ budget'.transferred[t] = budget.transferred[t]
    /\ budget.halted => budget'.halted
    /\ budget.exceeded => budget'.exceeded

\* What is done to the budget for one stream leaves the other stream alone, and never
\* revokes the halt or the excess.
LEMMA BudgetOfOther ==
    ASSUME NEW b \in TotalOutputBudgetState, NEW s \in OutputStream, NEW t \in OutputStream,
           s # t, NEW new \in Seq(Nat),
           NEW c \in {b, Charge(b, s, new), HaltAtCeiling(b), MarkComplete(b, s),
                      AfterTake(b, s)}
    PROVE  /\ c.bytes[t] = b.bytes[t] /\ c.truncated[t] = b.truncated[t]
           /\ c.complete[t] = b.complete[t] /\ c.transferred[t] = b.transferred[t]
           /\ b.halted => c.halted
           /\ b.exceeded => c.exceeded
<1>1. CASE c = b
  BY <1>1
<1>2. CASE c = Charge(b, s, new)
  BY <1>2 DEF Charge, TotalOutputBudgetState
<1>3. CASE c \in {HaltAtCeiling(b), MarkComplete(b, s), AfterTake(b, s)}
  BY <1>3 DEF HaltAtCeiling, MarkComplete, AfterTake, TotalOutputBudgetState
<1> QED
  BY <1>1, <1>2, <1>3

\* A step of one stream leaves the other stream alone.
LEMMA OtherStreamKept ==
    ASSUME TypeInv, NEW s \in OutputStream, NEW t \in OutputStream, s # t,
           ReaderStep(s) \/ OwnerStep(s) \/ ChildStep(s)
    PROVE  StreamKept(t)
<1> USE DEF TypeInv, TypeOK, pipeVars, threadVars, ownerVars, cancelVars
<1>1. /\ setup' = setup
      /\ budget \in TotalOutputBudgetState
  BY DEF ReaderStep, OwnerStep, ChildStep
<1>2. PICK new \in Seq(Nat) :
          budget' \in {budget, Charge(budget, s, new), HaltAtCeiling(budget),
                       MarkComplete(budget, s), AfterTake(budget, s)}
  <2>1. ASSUME ReadPipe(s)
        PROVE  \E new \in Seq(Nat) : budget' \in {budget, Charge(budget, s, new)}
    <3>1. PICK n \in 0..MinOf(ReadLimit(s), Unread(s)) :
              budget' \in {budget, Charge(budget, s, Bytes(consumed[s], n))}
      BY <2>1 DEF ReadPipe
    <3>2. n \in Nat /\ consumed[s] \in Nat
      BY <3>1
    <3>3. Bytes(consumed[s], n) \in Seq(Nat)
      <4> HIDE DEF TypeInv, TypeOK
      <4> QED
        BY <3>2, BytesType
    <3> QED
      BY <3>1, <3>3
  <2>2. ASSUME ~ReadPipe(s)
        PROVE  budget' \in {budget, HaltAtCeiling(budget), MarkComplete(budget, s),
                            AfterTake(budget, s)}
    BY <2>2 DEF ReaderStep, OwnerStep, ChildStep, CheckCancelled, EnterPoll, PollReturns,
       Peek, ReadRefused, ReadFails, ZeroRead, MarkEof, CheckBeforeTee, TeeWrites, TeeFails,
       CheckLimit, FinishReading, StoreCancel, WakeReader, Join, Detach, ChildWrites,
       ChildCloses
  <2> QED
    BY <2>1, <2>2, EmptyType
<1>3. /\ budget'.bytes[t] = budget.bytes[t] /\ budget'.truncated[t] = budget.truncated[t]
      /\ budget'.complete[t] = budget.complete[t]
      /\ budget'.transferred[t] = budget.transferred[t]
      /\ budget.halted => budget'.halted
      /\ budget.exceeded => budget'.exceeded
  <2> HIDE DEF TypeInv, TypeOK
  <2> QED
    BY <1>1, <1>2, BudgetOfOther
<1>4. /\ written'[t] = written[t] /\ open'[t] = open[t] /\ consumed'[t] = consumed[t]
      /\ pc'[t] = pc[t] /\ ready'[t] = ready[t] /\ chunk'[t] = chunk[t]
      /\ local'[t] = local[t] /\ tee'[t] = tee[t] /\ writeError'[t] = writeError[t]
      /\ end'[t] = end[t] /\ result'[t] = result[t]
      /\ cancelled'[t] = cancelled[t] /\ finish'[t] = finish[t] /\ lateIo'[t] = lateIo[t]
      /\ wakeup'[t] = wakeup[t] /\ request'[t] = request[t]
  <2> USE DEF Goto, Leave, StopOr, CountIo
  <2>1. CASE CheckCancelled(s) \/ EnterPoll(s) \/ PollReturns(s) \/ Peek(s)
    BY <2>1 DEF CheckCancelled, EnterPoll, PollReturns, Peek
  <2>2. CASE ReadRefused(s) \/ ReadFails(s) \/ ZeroRead(s) \/ MarkEof(s)
    <3>1. CASE ReadRefused(s)
      BY <3>1 DEF ReadRefused
    <3>2. CASE ReadFails(s)
      BY <3>2 DEF ReadFails
    <3>3. CASE ZeroRead(s)
      BY <3>3 DEF ZeroRead
    <3>4. CASE MarkEof(s)
      BY <3>4 DEF MarkEof
    <3> QED
      BY <2>2, <3>1, <3>2, <3>3, <3>4
  <2>3. CASE CheckBeforeTee(s) \/ TeeWrites(s) \/ TeeFails(s)
    <3>1. CASE CheckBeforeTee(s)
      BY <3>1 DEF CheckBeforeTee
    <3>2. CASE TeeWrites(s)
      BY <3>2 DEF TeeWrites
    <3>3. CASE TeeFails(s)
      BY <3>3 DEF TeeFails
    <3> QED
      BY <2>3, <3>1, <3>2, <3>3
  <2>4. CASE CheckLimit(s) \/ FinishReading(s)
    BY <2>4 DEF CheckLimit, FinishReading
  <2>5. CASE ReadPipe(s)
    <3>1. PICK n \in 0..MinOf(ReadLimit(s), Unread(s)) :
              /\ chunk' = [chunk EXCEPT ![s] = Bytes(consumed[s], n)]
              /\ consumed' = [consumed EXCEPT ![s] = @ + n]
              /\ local' \in {local, [local EXCEPT ![s] = RetainedLocally(s, n)]}
              /\ pc' = [pc EXCEPT ![s] = IF n = 0 THEN "zero" ELSE "got"]
              /\ end' = end
      BY <2>5 DEF ReadPipe
    <3>2. chunk'[t] = chunk[t] /\ consumed'[t] = consumed[t] /\ local'[t] = local[t]
          /\ pc'[t] = pc[t] /\ end'[t] = end[t]
      BY <3>1
    <3>3. lateIo'[t] = lateIo[t]
      BY <2>5 DEF ReadPipe
    <3>4. UNCHANGED <<pipeVars, ready, tee, writeError, result, cancelVars, ownerVars>>
      BY <2>5 DEF ReadPipe
    <3> QED
      BY <3>2, <3>3, <3>4
  <2>6. CASE OwnerStep(s)
    <3>1. CASE StoreCancel(s)
      BY <3>1 DEF StoreCancel
    <3>2. CASE WakeReader(s)
      BY <3>2 DEF WakeReader
    <3>3. CASE Join(s)
      BY <3>3 DEF Join
    <3>4. CASE Detach(s)
      BY <3>4 DEF Detach
    <3> QED
      BY <2>6, <3>1, <3>2, <3>3, <3>4 DEF OwnerStep
  <2>7. CASE ChildStep(s)
    BY <2>7 DEF ChildStep, ChildWrites, ChildCloses
  <2> QED
    BY <2>1, <2>2, <2>3, <2>4, <2>5, <2>6, <2>7 DEF ReaderStep
<1> QED
  BY <1>1, <1>3, <1>4 DEF StreamKept

\* A stream that is left alone keeps its invariant.
LEMMA KeptStreamInv ==
    ASSUME NEW t \in OutputStream, StreamInv(t), StreamKept(t), TypeInv, TypeInv'
    PROVE  StreamInv(t)'
<1> USE DEF StreamInv, StreamKept
<1>1. Budgeted' = Budgeted
  BY DEF Budgeted
<1>2. LateIoInv(t)'
  BY DEF LateIoInv
<1>10. RequestInv(t)'
  BY DEF RequestInv
<1>3. AtEof(t)' = AtEof(t)
  BY DEF AtEof, Unread
<1>4. EndInv(t)' /\ CompleteInv(t)'
  BY <1>1, <1>3 DEF EndInv, CompleteInv
<1>5. Joined(t)' = Joined(t)
  BY DEF Joined
<1>6. ResultInv(t)'
  BY <1>1, <1>5 DEF ResultInv, ThreadOutput
<1>7. Kept(t)' = Kept(t) /\ KeptCount(t)' = KeptCount(t)
  BY <1>1 DEF Kept, KeptCount
<1>8. KeptInv(t)'
  BY <1>1, <1>5, <1>7 DEF KeptInv
<1>9. ChunkInv(t)' /\ TeeInv(t)'
  BY DEF ChunkInv, TeeInv, LastChunkDropped
<1> QED
  BY <1>2, <1>4, <1>6, <1>8, <1>9, <1>10

(***************************************************************************)
(* A step keeps the invariants of its own stream.                          *)
(***************************************************************************)

\* Some step of the stream s.
StepOf(s) == ReaderStep(s) \/ OwnerStep(s) \/ ChildStep(s)

\* What is done to the budget for the stream itself.
LEMMA BudgetOfSame ==
    ASSUME NEW b \in TotalOutputBudgetState, NEW s \in OutputStream
    PROVE  /\ MarkComplete(b, s).complete[s] = TRUE
           /\ MarkComplete(b, s).bytes = b.bytes
           /\ MarkComplete(b, s).truncated = b.truncated
           /\ MarkComplete(b, s).transferred = b.transferred
           /\ HaltAtCeiling(b).bytes = b.bytes
           /\ HaltAtCeiling(b).truncated = b.truncated
           /\ HaltAtCeiling(b).transferred = b.transferred
           /\ HaltAtCeiling(b).complete = b.complete
           /\ HaltAtCeiling(b).halted = TRUE
           /\ AfterTake(b, s).complete = b.complete
           /\ AfterTake(b, s).truncated = b.truncated
           /\ AfterTake(b, s).transferred[s] = TRUE
  BY DEF MarkComplete, HaltAtCeiling, AfterTake, TotalOutputBudgetState

\* What a charge does to the stream itself.
LEMMA ChargeOfSame ==
    ASSUME NEW b \in TotalOutputBudgetState, NEW s \in OutputStream, NEW new \in Seq(Nat)
    PROVE  /\ Charge(b, s, new).complete = b.complete
           /\ Charge(b, s, new).transferred = b.transferred
           /\ Charge(b, s, new).bytes[s] = Retained(s, b.bytes[s], new)
           /\ Charge(b, s, new).truncated[s] = (b.truncated[s] \/ Omits(s, b.bytes[s], new))
  BY DEF Charge, TotalOutputBudgetState

\* Calls after the cancellation: every step of a stream preserves their bound.
LEMMA LateIoStep ==
    ASSUME TypeOK, NEW s \in OutputStream, LateIoInv(s), StepOf(s)
    PROVE  LateIoInv(s)'
<1> USE DEF LateIoInv, TypeOK, Goto, Leave, StopOr, CountIo, pipeVars, threadVars,
            ownerVars, cancelVars
<1>1. CASE CheckCancelled(s) \/ EnterPoll(s) \/ PollReturns(s) \/ Peek(s)
  BY <1>1 DEF CheckCancelled, EnterPoll, PollReturns, Peek
<1>2. CASE ReadRefused(s) \/ ReadFails(s) \/ ZeroRead(s) \/ MarkEof(s)
  BY <1>2 DEF ReadRefused, ReadFails, ZeroRead, MarkEof
<1>3. CASE ReadPipe(s) \/ CheckBeforeTee(s) \/ TeeWrites(s) \/ TeeFails(s)
  BY <1>3 DEF ReadPipe, CheckBeforeTee, TeeWrites, TeeFails
<1>4. CASE CheckLimit(s) \/ FinishReading(s)
  BY <1>4 DEF CheckLimit, FinishReading
<1>5. CASE OwnerStep(s)
  BY <1>5 DEF OwnerStep, StoreCancel, WakeReader, Join, Detach
<1>6. CASE ChildStep(s)
  BY <1>6 DEF ChildStep, ChildWrites, ChildCloses
<1> QED
  BY <1>1, <1>2, <1>3, <1>4, <1>5, <1>6 DEF StepOf, ReaderStep

\* Wakeups: every step preserves that only a cancellation sends one.
LEMMA RequestStep ==
    ASSUME TypeOK, NEW s \in OutputStream, RequestInv(s), StepOf(s)
    PROVE  RequestInv(s)'
<1> USE DEF pipeVars, threadVars, ownerVars, cancelVars
<1>1. CASE ReaderStep(s)
  BY <1>1 DEF ReaderStep, RequestInv, CheckCancelled, EnterPoll, PollReturns, Peek,
     ReadRefused, ReadPipe, ReadFails, ZeroRead, MarkEof, CheckBeforeTee, TeeWrites, TeeFails,
     CheckLimit, FinishReading
<1>2. CASE OwnerStep(s)
  BY <1>2 DEF OwnerStep, StoreCancel, WakeReader, Join, Detach, RequestInv, TypeOK
<1>3. CASE ChildStep(s)
  BY <1>3 DEF ChildStep, ChildWrites, ChildCloses, RequestInv
<1> QED
  BY <1>1, <1>2, <1>3 DEF StepOf

\* A refused read has found the budget halted, or halts it.
LEMMA RefusedMeansHalted ==
    ASSUME TypeOK, NEW s \in OutputStream, EndInv(s), ReadRefused(s)
    PROVE  Budgeted /\ budget'.halted
<1>1. /\ budget \in TotalOutputBudgetState /\ ready[s] \in Nat /\ ready[s] > 0
      /\ BufferLen \in Nat \ {0} /\ Limit \in Nat
  BY LimitAssumption, ReadersAssumption DEF TypeOK, EndInv, ReadRefused
<1>2. Remaining(budget) \in Nat
  BY <1>1 DEF Remaining, SaturatingSub, Ceiling, TotalOutputBudgetState
<1>3. ~budget.halted => Remaining(budget) = 0
  BY <1>1, <1>2 DEF ReadRefused, Refused, ReadLimit, Request, MinOf
<1>4. HaltAtCeiling(budget).halted
  BY <1>1, BudgetOfSame
<1> QED
  BY <1>3, <1>4 DEF ReadRefused, Refused

\* The end: every step preserves what is known of a reader that stopped.
LEMMA EndStep ==
    ASSUME TypeOK, BudgetAccounting, NEW s \in OutputStream, RequestInv(s), EndInv(s),
           StepOf(s)
    PROVE  EndInv(s)'
<1> USE DEF Goto, Leave, StopOr, pipeVars, threadVars, ownerVars, cancelVars
<1>0. /\ setup' = setup /\ Budgeted' = Budgeted
      /\ budget \in TotalOutputBudgetState
  BY DEF StepOf, ReaderStep, OwnerStep, ChildStep, Budgeted, TypeOK
<1> USE <1>0, ReadersAssumption
<1>2. CASE CheckCancelled(s)
  BY <1>2 DEF CheckCancelled, EndInv, TypeOK, AtEof, Unread
<1>3. CASE EnterPoll(s)
  BY <1>3 DEF EnterPoll, EndInv, TypeOK, AtEof, Unread
<1>4. CASE PollReturns(s)
  <2>1. CancelSeen(s) => cancelled[s]
    BY DEF CancelSeen, RequestInv
  <2> QED
    BY <1>4, <2>1, ReadersAssumption DEF PollReturns, EndInv, TypeOK, AtEof, Unread
<1>5. CASE Peek(s)
  BY <1>5 DEF Peek, EndInv, TypeOK, AtEof, Unread
<1>6. CASE ReadRefused(s)
  <2>1. Budgeted /\ budget'.halted
    BY <1>6, RefusedMeansHalted
  <2> QED
    BY <1>6, <2>1 DEF ReadRefused, EndInv, TypeOK, AtEof, Unread
<1>7. CASE ReadPipe(s)
  <2>1. PICK n \in 0..MinOf(ReadLimit(s), Unread(s)) :
          /\ n = 0 <=> AtEof(s)
          /\ consumed' = [consumed EXCEPT ![s] = @ + n]
          /\ pc' = [pc EXCEPT ![s] = IF n = 0 THEN "zero" ELSE "got"]
          /\ end' = end
    BY <1>7 DEF ReadPipe
  <2>2. AtEof(s) => AtEof(s)'
    BY <1>7, <2>1 DEF ReadPipe, AtEof, Unread, TypeOK
  <2> QED
    BY <1>7, <2>1, <2>2 DEF ReadPipe, EndInv, TypeOK
<1>8. CASE ReadFails(s)
  BY <1>8 DEF ReadFails, EndInv, TypeOK, AtEof, Unread
<1>9. CASE ZeroRead(s)
  <2>1. Budgeted /\ budget.halted => budget.exceeded
    BY DEF BudgetAccounting
  <2> QED
    BY <1>9, <2>1 DEF ZeroRead, EndInv, TypeOK, AtEof, Unread
<1>10. CASE MarkEof(s)
  BY <1>10 DEF MarkEof, EndInv, TypeOK, AtEof, Unread
<1>11. CASE CheckBeforeTee(s) \/ TeeWrites(s)
  BY <1>11 DEF CheckBeforeTee, TeeWrites, EndInv, TypeOK, AtEof, Unread
<1>12. CASE TeeFails(s)
  BY <1>12 DEF TeeFails, EndInv, TypeOK, AtEof, Unread
<1>13. CASE CheckLimit(s) \/ FinishReading(s)
  BY <1>13 DEF CheckLimit, FinishReading, EndInv, TypeOK, AtEof, Unread
<1>14. CASE OwnerStep(s)
  <2>1. budget'.halted = budget.halted /\ budget'.exceeded = budget.exceeded
    BY <1>14, CountersKept DEF OwnerStep, StoreCancel, WakeReader, Join, Detach
  <2>2. /\ UNCHANGED <<pc, end, ready, written, consumed, open>>
        /\ cancelled[s] => cancelled'[s]
    BY <1>14 DEF OwnerStep, StoreCancel, WakeReader, Join, Detach, TypeOK
  <2> QED
    BY <2>1, <2>2 DEF EndInv, AtEof, Unread
<1>15. CASE ChildStep(s)
  <2>1. AtEof(s) => AtEof(s)'
    BY <1>15 DEF ChildStep, ChildWrites, ChildCloses, AtEof, Unread, TypeOK
  <2> QED
    BY <1>15, <2>1 DEF ChildStep, ChildWrites, ChildCloses, EndInv
<1> QED
  BY <1>2, <1>3, <1>4, <1>5, <1>6, <1>7, <1>8, <1>9, <1>10, <1>11, <1>12, <1>13, <1>14, <1>15
     DEF StepOf, ReaderStep

\* Only the two steps that find the pipe at its end mark a stream complete.
LEMMA CompleteStep ==
    ASSUME TypeOK, NEW s \in OutputStream, EndInv(s), CompleteInv(s), StepOf(s)
    PROVE  CompleteInv(s)'
<1> USE ReadersAssumption DEF Goto, Leave, StopOr, pipeVars, threadVars, ownerVars, cancelVars
<1>0. /\ setup' = setup /\ Budgeted' = Budgeted
      /\ budget \in TotalOutputBudgetState
  BY DEF StepOf, ReaderStep, OwnerStep, ChildStep, Budgeted, TypeOK
<1>1. ASSUME budget'.complete[s] = TRUE, end'[s] = "eof", Budgeted
      PROVE  CompleteInv(s)'
  BY <1>0, <1>1 DEF CompleteInv
<1>2. ASSUME budget'.complete = budget.complete, end'[s] = "eof" <=> end[s] = "eof"
      PROVE  CompleteInv(s)'
  BY <1>0, <1>2 DEF CompleteInv
<1>3. MarkComplete(budget, s).complete[s] = TRUE
  BY <1>0, BudgetOfSame
<1>4. CASE MarkEof(s)
  <2>1. end'[s] = "eof" /\ Budgeted
    BY <1>4 DEF MarkEof, EndInv, TypeOK
  <2> QED
    BY <1>1, <1>3, <1>4, <2>1 DEF MarkEof
<1>5. CASE Peek(s) /\ budget' = MarkComplete(budget, s) /\ Leave(s, "eof")
  <2>1. end'[s] = "eof" /\ Budgeted
    BY <1>5 DEF Peek, EndInv, TypeOK
  <2> QED
    BY <1>1, <1>3, <1>5, <2>1
<1>6. CASE Peek(s) /\ ~(budget' = MarkComplete(budget, s) /\ Leave(s, "eof"))
  <2>1. budget' = budget /\ end[s] # "eof" /\ end'[s] # "eof"
    BY <1>6 DEF Peek, EndInv, TypeOK
  <2> QED
    BY <1>2, <2>1
<1>7. CASE ReadPipe(s)
  <2>1. PICK n \in 0..MinOf(ReadLimit(s), Unread(s)) :
            budget' \in {budget, Charge(budget, s, Bytes(consumed[s], n))}
    BY <1>7 DEF ReadPipe
  <2>2. Bytes(consumed[s], n) \in Seq(Nat)
    BY <2>1, BytesType DEF TypeOK
  <2>3. budget'.complete = budget.complete
    BY <1>0, <2>1, <2>2, ChargeOfSame
  <2> QED
    BY <1>2, <1>7, <2>3 DEF ReadPipe
<1>8. CASE ReadRefused(s)
  BY <1>0, <1>2, <1>8, BudgetOfSame DEF ReadRefused
<1>9. CASE ZeroRead(s)
  <2>1. end[s] # "eof"
    BY <1>9 DEF ZeroRead, EndInv
  <2>2. ~Budgeted => CompleteInv(s)'
    BY <1>0, <1>9 DEF ZeroRead, CompleteInv
  <2>3. Budgeted => end'[s] # "eof"
    BY <1>9, <2>1 DEF ZeroRead, TypeOK
  <2> QED
    BY <1>2, <1>9, <2>1, <2>2, <2>3 DEF ZeroRead
<1>10. CASE \/ CheckCancelled(s) \/ EnterPoll(s) \/ PollReturns(s) \/ ReadFails(s)
            \/ CheckBeforeTee(s) \/ CheckLimit(s)
  <2>1. end[s] # "eof" /\ end'[s] # "eof" /\ budget' = budget
    BY <1>10 DEF CheckCancelled, EnterPoll, PollReturns, ReadFails, CheckBeforeTee,
       CheckLimit, EndInv, TypeOK
  <2> QED
    BY <1>2, <2>1
<1>11. CASE TeeWrites(s) \/ TeeFails(s) \/ FinishReading(s)
  BY <1>2, <1>11 DEF TeeWrites, TeeFails, FinishReading
<1>12. CASE OwnerStep(s)
  <2>1. CASE StoreCancel(s) \/ WakeReader(s)
    <3>1. end' = end /\ budget' = budget
      BY <2>1 DEF StoreCancel, WakeReader, pipeVars, threadVars, TypeOK
    <3> QED
      BY <1>2, <3>1
  <2>2. CASE Join(s) \/ Detach(s)
    <3>1. end' = end /\ budget' \in {budget, AfterTake(budget, s)}
      BY <2>2 DEF Join, Detach, pipeVars, threadVars, TypeOK
    <3>2. budget'.complete = budget.complete
      BY <1>0, <3>1, BudgetOfSame
    <3> QED
      BY <1>2, <3>1, <3>2
  <2> QED
    BY <1>12, <2>1, <2>2 DEF OwnerStep
<1>13. CASE ChildStep(s)
  BY <1>2, <1>13 DEF ChildStep, ChildWrites, ChildCloses
<1> QED
  BY <1>4, <1>5, <1>6, <1>7, <1>8, <1>9, <1>10, <1>11, <1>12, <1>13
     DEF StepOf, ReaderStep

\* A thread that takes a step has not returned yet.
LEMMA ThreadRuns ==
    ASSUME TypeOK, NEW s \in OutputStream, ReaderStep(s)
    PROVE  /\ pc[s] # "done" /\ finish' = finish /\ setup' = setup
           /\ FinishReading(s) \/ pc'[s] # "done"
<1> USE DEF Goto, Leave, StopOr, TypeOK, pipeVars, threadVars, ownerVars, cancelVars
<1>1. CASE CheckCancelled(s) \/ EnterPoll(s) \/ PollReturns(s) \/ Peek(s)
  BY <1>1 DEF CheckCancelled, EnterPoll, PollReturns, Peek, ReaderStep
<1>2. CASE ReadRefused(s) \/ ReadPipe(s) \/ ReadFails(s) \/ ZeroRead(s) \/ MarkEof(s)
  BY <1>2 DEF ReadRefused, ReadPipe, ReadFails, ZeroRead, MarkEof, ReaderStep
<1>3. CASE CheckBeforeTee(s) \/ TeeWrites(s) \/ TeeFails(s) \/ CheckLimit(s)
  BY <1>3 DEF CheckBeforeTee, TeeWrites, TeeFails, CheckLimit, ReaderStep
<1>4. CASE FinishReading(s)
  BY <1>4 DEF FinishReading, ReaderStep
<1> QED
  BY <1>1, <1>2, <1>3, <1>4 DEF ReaderStep

\* Results: every step preserves what is known of what a reader returned.
LEMMA ResultStep ==
    ASSUME TypeInv, NEW s \in OutputStream, EndInv(s), CompleteInv(s), ResultInv(s), StepOf(s)
    PROVE  ResultInv(s)'
<1> USE DEF TypeInv, TypeOK
<1>0. setup' = setup /\ Budgeted' = Budgeted
  BY DEF StepOf, ReaderStep, OwnerStep, ChildStep, Budgeted
<1>1. ASSUME UNCHANGED <<pc, end, result, writeError, local>>
      PROVE  /\ pc'[s] = "done" => result'[s].kind = KindOf(writeError'[s], end'[s])
             /\ pc'[s] = "done" /\ ~Budgeted' => result'[s].output = ThreadOutput(s)'
  BY <1>0, <1>1 DEF ResultInv, ThreadOutput
<1>2. CASE ReaderStep(s) /\ ~FinishReading(s)
  <2>1. pc[s] # "done" /\ pc'[s] # "done" /\ finish' = finish
    BY <1>2, ThreadRuns
  <2> QED
    BY <2>1 DEF ResultInv, Joined
<1>3. CASE FinishReading(s)
  <2>1. pc[s] # "done" /\ finish' = finish
    BY <1>3 DEF FinishReading, ownerVars
  <2>2. /\ result'[s] = [kind |-> KindOf(writeError'[s], end[s]), output |-> ThreadOutput(s)]
        /\ end' = end /\ local' = local
    BY <1>3 DEF FinishReading, Goto
  <2>3. ~Budgeted => ThreadOutput(s)' = ThreadOutput(s)
    BY <1>0, <2>2 DEF ThreadOutput
  <2> QED
    BY <1>0, <2>1, <2>2, <2>3 DEF ResultInv, Joined
<1>4. CASE StoreCancel(s) \/ WakeReader(s) \/ ChildStep(s)
  <2>1. UNCHANGED <<pc, end, result, writeError, local, finish>>
    BY <1>4 DEF StoreCancel, WakeReader, ChildStep, ChildWrites, ChildCloses, threadVars,
       ownerVars
  <2> QED
    BY <1>1, <2>1 DEF ResultInv, Joined
<1>5. CASE Join(s)
  <2>1. UNCHANGED <<pc, end, result, writeError, local>> /\ pc[s] = "done"
    BY <1>5 DEF Join, threadVars
  <2>2. finish'[s] = [how    |-> "Joined",
                      kind   |-> result[s].kind,
                      output |-> IF Budgeted THEN TakenStream(budget, s)
                                 ELSE result[s].output]
    BY <1>5 DEF Join
  <2>3. TakenStream(budget, s).complete = budget.complete[s]
    BY DEF TakenStream, CapturedStreamMetadata, CapturedStream
  <2>4. ~Budgeted => (result[s].output.complete <=> end[s] = "eof")
    <3>1. ~Budgeted => result[s].output = ThreadOutput(s)
      BY <2>1 DEF ResultInv
    <3>2. ~Budgeted => ThreadOutput(s).complete = (end[s] = "eof")
      BY DEF ThreadOutput
    <3> QED
      BY <3>1, <3>2
  <2>5. finish'[s].output.complete <=> end'[s] = "eof"
    <3>1. CASE Budgeted
      BY <2>1, <2>2, <2>3, <3>1 DEF CompleteInv
    <3>2. CASE ~Budgeted
      BY <2>1, <2>2, <2>4, <3>2
    <3> QED
      BY <3>1, <3>2
  <2>6. finish'[s].kind = result'[s].kind /\ finish'[s].how = "Joined" /\ pc'[s] = "done"
    BY <2>1, <2>2
  <2>7. finish'[s] # None => Joined(s)'
    BY <2>6 DEF Joined
  <2> QED
    BY <1>1, <2>1, <2>5, <2>6, <2>7 DEF ResultInv
<1>6. CASE Detach(s)
  <2>1. UNCHANGED <<pc, end, result, writeError, local>>
    BY <1>6 DEF Detach, threadVars
  <2>2. finish'[s].how = "Detached" /\ finish'[s].output.complete = FALSE
    BY <1>6 DEF Detach
  <2> QED
    BY <1>1, <2>1, <2>2 DEF ResultInv, Joined
<1> QED
  BY <1>2, <1>3, <1>4, <1>5, <1>6 DEF StepOf, OwnerStep

\* Retained bytes: every step preserves that they are the prefix within the cap.
LEMMA KeptStep ==
    ASSUME TypeInv, NEW s \in OutputStream, ResultInv(s), KeptInv(s), StepOf(s)
    PROVE  KeptInv(s)'
<1>0. /\ setup' = setup /\ Budgeted' = Budgeted
      /\ budget \in TotalOutputBudgetState
      /\ consumed \in [OutputStream -> Nat]
      /\ local \in [OutputStream -> [bytes : Seq(Nat), truncated : BOOLEAN]]
      /\ finish \in [OutputStream -> ReaderFinish \cup {None}]
  BY DEF StepOf, ReaderStep, OwnerStep, ChildStep, Budgeted, TypeInv, TypeOK
<1>1. ASSUME UNCHANGED <<consumed, local, finish>>,
             budget'.bytes = budget.bytes, budget'.truncated = budget.truncated,
             budget'.transferred = budget.transferred
      PROVE  KeptInv(s)'
  <2>1. Kept(s)' = Kept(s) /\ KeptCount(s)' = KeptCount(s) /\ Joined(s)' = Joined(s)
    BY <1>0, <1>1 DEF Kept, KeptCount, Joined
  <2> QED
    BY <1>0, <1>1, <2>1 DEF KeptInv
<1>2. CASE ReadPipe(s)
  <2>1. PICK n \in 0..MinOf(ReadLimit(s), Unread(s)) :
          /\ consumed' = [consumed EXCEPT ![s] = @ + n]
          /\ IF Budgeted
             THEN /\ budget' = Charge(budget, s, Bytes(consumed[s], n))
                  /\ UNCHANGED local
             ELSE /\ local' = [local EXCEPT ![s] = RetainedLocally(s, n)]
                  /\ UNCHANGED budget
    BY <1>2 DEF ReadPipe
  <2>2. n \in Nat /\ Bytes(consumed[s], n) \in Seq(Nat) /\ consumed[s] \in Nat
        /\ consumed'[s] = consumed[s] + n
    BY <1>0, <2>1, BytesType
  <2>3. pc[s] = "read" /\ finish' = finish /\ ~Joined(s) /\ ~Joined(s)'
    BY <1>2 DEF ReadPipe, ownerVars, ResultInv, Joined
  <2>4. ~budget.transferred[s] /\ (Budgeted => budget'.transferred = budget.transferred)
    BY <1>0, <2>1, <2>2, <2>3, ChargeOfSame DEF KeptInv
  <2> DEFINE new == Bytes(consumed[s], n)
             kept == RetainedCount(Cap[s], 0, consumed[s])
             next == RetainedCount(Cap[s], 0, consumed[s] + n)
  <2>5. /\ Retained(s, Bytes(0, kept), new) = Bytes(0, next)
        /\ next < consumed[s] + n <=> kept < consumed[s] \/ Omits(s, Bytes(0, kept), new)
    BY <2>2, RetainedGoesOn
  <2>6. KeptCount(s) = kept /\ KeptCount(s)' = next
    BY <2>2 DEF KeptCount
  <2>7. kept \in Nat /\ next \in Nat /\ kept <= next
    <3>1. /\ kept \in 0..consumed[s]
          /\ RetainedCount(Cap[s], kept, n) \in 0..n
          /\ next = kept + RetainedCount(Cap[s], kept, n)
      BY <2>2, RetainedInTwo
    <3> QED
      BY <2>2, <3>1
  <2> HIDE DEF new, kept, next
  <2>8. Kept(s)'.bytes = Bytes(0, next) /\ (Kept(s)'.truncated <=> next < consumed'[s])
    <3>1. CASE Budgeted
      <4>1. Kept(s) = [bytes |-> budget.bytes[s], truncated |-> budget.truncated[s]]
        BY <2>4, <3>1 DEF Kept
      <4>2. Kept(s)' = [bytes |-> budget'.bytes[s], truncated |-> budget'.truncated[s]]
        BY <1>0, <2>4, <3>1 DEF Kept
      <4>3. budget.bytes[s] = Bytes(0, kept) /\ (budget.truncated[s] <=> kept < consumed[s])
        BY <2>6, <4>1 DEF KeptInv
      <4>4. /\ budget'.bytes[s] = Retained(s, budget.bytes[s], new)
            /\ budget'.truncated[s] = (budget.truncated[s] \/ Omits(s, budget.bytes[s], new))
        BY <1>0, <2>1, <2>2, <3>1, ChargeOfSame DEF new
      <4>5. budget'.bytes[s] = Bytes(0, next)
        BY <2>5, <4>3, <4>4
      <4>6. budget'.truncated[s] <=> next < consumed'[s]
        BY <2>2, <2>5, <4>3, <4>4
      <4> QED
        BY <4>2, <4>5, <4>6
    <3>2. CASE ~Budgeted
      <4>1. Kept(s) = local[s] /\ Kept(s)' = local'[s]
        BY <1>0, <3>2 DEF Kept
      <4>2. local[s].bytes = Bytes(0, kept) /\ (local[s].truncated <=> kept < consumed[s])
        BY <2>6, <4>1 DEF KeptInv
      <4>3. local'[s] = [bytes     |-> Retained(s, local[s].bytes, new),
                         truncated |-> local[s].truncated \/ Omits(s, local[s].bytes, new)]
        BY <1>0, <2>1, <3>2 DEF RetainedLocally, new
      <4>4. local'[s].bytes = Bytes(0, next)
        BY <2>5, <4>2, <4>3
      <4>5. local'[s].truncated = (local[s].truncated \/ Omits(s, local[s].bytes, new))
        BY <4>3
      <4>6. local'[s].truncated <=> next < consumed'[s]
        BY <2>2, <2>5, <4>2, <4>5
      <4> QED
        BY <4>1, <4>4, <4>6
    <3> QED
      BY <3>1, <3>2
  <2>9. budget'.transferred[s] <=> Budgeted' /\ Joined(s)'
    BY <1>0, <2>1, <2>3, <2>4 DEF KeptInv
  <2>10. finish[s] # None => Len(finish[s].output.bytes) \in Nat
    BY <1>0, LenProperties DEF ReaderFinish, CapturedOutput
  <2> QED
    BY <2>3, <2>6, <2>7, <2>8, <2>9, <2>10 DEF KeptInv
<1>3. CASE Join(s)
  <2>1. UNCHANGED <<consumed, local>> /\ finish[s] = None /\ pc[s] = "done"
        /\ KeptCount(s)' = KeptCount(s)
    BY <1>3 DEF Join, threadVars, KeptCount
  <2>2. finish'[s] = [how    |-> "Joined",
                      kind   |-> result[s].kind,
                      output |-> IF Budgeted THEN TakenStream(budget, s)
                                 ELSE result[s].output]
    BY <1>0, <1>3 DEF Join
  <2>3. finish'[s] # None
    BY <1>3, <2>2, FinishAssumption, JoinedType
  <2>4. ~Joined(s) /\ Joined(s)' /\ ~budget.transferred[s]
    BY <2>1, <2>2, <2>3 DEF Joined, KeptInv
  <2>5. CASE Budgeted
    <3>1. Kept(s) = [bytes |-> budget.bytes[s], truncated |-> budget.truncated[s]]
      BY <2>4, <2>5 DEF Kept
    <3>2. finish'[s].output.bytes = budget.bytes[s]
      BY <2>2, <2>4, <2>5 DEF TakenStream, CapturedStream
    <3>3. budget'.transferred[s] = TRUE /\ budget'.truncated = budget.truncated
      BY <1>0, <1>3, <2>5, BudgetOfSame DEF Join
    <3>4. Kept(s)' = [bytes |-> finish'[s].output.bytes, truncated |-> budget.truncated[s]]
      BY <1>0, <2>5, <3>3 DEF Kept
    <3> QED
      BY <1>0, <2>1, <2>4, <2>5, <3>1, <3>2, <3>3, <3>4 DEF KeptInv
  <2>6. CASE ~Budgeted
    <3>1. Kept(s) = local[s] /\ Kept(s)' = local'[s] /\ budget' = budget
      BY <1>0, <1>3, <2>6 DEF Kept, Join
    <3>2. finish'[s].output.bytes = local[s].bytes
      BY <2>1, <2>2, <2>6 DEF ResultInv, ThreadOutput
    <3> QED
      BY <1>0, <2>1, <2>4, <2>6, <3>1, <3>2 DEF KeptInv
  <2> QED
    BY <2>5, <2>6
<1>4. CASE Detach(s)
  <2>1. UNCHANGED <<consumed, local, budget>> /\ finish[s] = None
        /\ KeptCount(s)' = KeptCount(s)
    BY <1>4 DEF Detach, threadVars, KeptCount
  <2>2. /\ finish'[s].how = "Detached"
        /\ finish'[s].output.bytes = IF Budgeted THEN budget.bytes[s] ELSE <<>>
    BY <1>0, <1>4 DEF Detach
  <2>3. ~Joined(s) /\ ~Joined(s)' /\ ~budget.transferred[s] /\ Kept(s)' = Kept(s)
    BY <1>0, <2>1, <2>2 DEF Joined, KeptInv, Kept
  <2>4. KeptCount(s) \in Nat
    BY <1>0, RetainedCountBound DEF KeptCount
  <2>5. /\ Len(finish'[s].output.bytes) <= KeptCount(s)
        /\ finish'[s].output.bytes = Bytes(0, Len(finish'[s].output.bytes))
    <3>1. CASE Budgeted
      <4>1. budget.bytes[s] = Bytes(0, KeptCount(s))
        BY <2>3, <3>1 DEF KeptInv, Kept
      <4> QED
        BY <2>2, <2>4, <3>1, <4>1, BytesType
    <3>2. CASE ~Budgeted
      <4>1. <<>> = Bytes(0, 0) /\ Len(<<>>) = 0
        BY DEF Bytes
      <4> QED
        BY <2>2, <2>4, <3>2, <4>1
    <3> QED
      BY <3>1, <3>2
  <2> QED
    BY <1>0, <2>1, <2>3, <2>5 DEF KeptInv
<1>5. CASE ~ReadPipe(s) /\ ~Join(s) /\ ~Detach(s)
  <2>1. UNCHANGED <<consumed, local, finish>>
    BY <1>5 DEF StepOf, ReaderStep, OwnerStep, ChildStep, CheckCancelled, EnterPoll,
       PollReturns, Peek, ReadRefused, ReadFails, ZeroRead, MarkEof, CheckBeforeTee,
       TeeWrites, TeeFails, CheckLimit, FinishReading, StoreCancel, WakeReader, ChildWrites,
       ChildCloses, threadVars, ownerVars
  <2>2. budget' \in {budget, HaltAtCeiling(budget), MarkComplete(budget, s)}
    BY <1>5 DEF StepOf, ReaderStep, OwnerStep, ChildStep, CheckCancelled, EnterPoll,
       PollReturns, Peek, ReadRefused, ReadFails, ZeroRead, MarkEof, CheckBeforeTee,
       TeeWrites, TeeFails, CheckLimit, FinishReading, StoreCancel, WakeReader, ChildWrites,
       ChildCloses
  <2>3. /\ budget'.bytes = budget.bytes /\ budget'.truncated = budget.truncated
        /\ budget'.transferred = budget.transferred
    <3>1. CASE budget' = budget
      BY <3>1
    <3>2. CASE budget' = HaltAtCeiling(budget)
      BY <1>0, <3>2, BudgetOfSame
    <3>3. CASE budget' = MarkComplete(budget, s)
      BY <1>0, <3>3, BudgetOfSame
    <3> QED
      BY <2>2, <3>1, <3>2, <3>3
  <2> QED
    BY <1>1, <2>1, <2>3
<1> QED
  BY <1>2, <1>3, <1>4, <1>5

\* A read takes at most a buffer, and the chunk it leaves is what it took.
LEMMA ReadChunk ==
    ASSUME TypeOK, NEW s \in OutputStream, ReadPipe(s)
    PROVE  \E n \in 0..BufferLen :
              /\ consumed'[s] = consumed[s] + n
              /\ chunk'[s] = Bytes(consumed[s], n) /\ Len(chunk'[s]) = n
              /\ pc'[s] = IF n = 0 THEN "zero" ELSE "got"
<1>1. PICK n \in 0..MinOf(ReadLimit(s), Unread(s)) :
          /\ consumed' = [consumed EXCEPT ![s] = @ + n]
          /\ chunk' = [chunk EXCEPT ![s] = Bytes(consumed[s], n)]
          /\ pc' = [pc EXCEPT ![s] = IF n = 0 THEN "zero" ELSE "got"]
  BY DEF ReadPipe, Goto
<1>2. BufferLen \in Nat /\ ready[s] \in Nat /\ Limit \in Nat /\ consumed[s] \in Nat
      /\ written[s] \in Nat /\ budget \in TotalOutputBudgetState
  BY ReadersAssumption, LimitAssumption DEF TypeOK
<1>3. ReadLimit(s) \in Nat /\ ReadLimit(s) <= BufferLen
  BY <1>2 DEF ReadLimit, Request, Remaining, SaturatingSub, Ceiling, MinOf,
     TotalOutputBudgetState
<1>4. n \in 0..BufferLen
  BY <1>1, <1>2, <1>3 DEF MinOf, Unread
<1>5. Len(Bytes(consumed[s], n)) = n
  <2>1. n \in Nat /\ consumed[s] \in Nat
    BY <1>2, <1>4
  <2> HIDE DEF TypeOK
  <2> QED
    BY <2>1, BytesType
<1> QED
  BY <1>1, <1>4, <1>5 DEF TypeOK

\* Where the thread goes from steps that read or write no bytes.
LEMMA QuietStep ==
    ASSUME TypeOK, NEW s \in OutputStream, ReaderStep(s),
           ~ReadPipe(s), ~CheckBeforeTee(s), ~TeeWrites(s), ~TeeFails(s), ~FinishReading(s)
    PROVE  /\ UNCHANGED <<consumed, tee, writeError>>
           /\ pc[s] \notin {"got", "tee", "finish", "done"} /\ pc'[s] \notin {"got", "tee"}
<1> USE DEF Goto, Leave, StopOr, TypeOK, pipeVars, threadVars, ownerVars, cancelVars
<1>1. CASE CheckCancelled(s) \/ EnterPoll(s) \/ PollReturns(s) \/ Peek(s)
  BY <1>1 DEF CheckCancelled, EnterPoll, PollReturns, Peek
<1>2. CASE ReadRefused(s) \/ ReadFails(s) \/ ZeroRead(s) \/ MarkEof(s) \/ CheckLimit(s)
  BY <1>2 DEF ReadRefused, ReadFails, ZeroRead, MarkEof, CheckLimit
<1> QED
  BY <1>1, <1>2 DEF ReaderStep

\* The chunk in the buffer: every step preserves that it is what was read last.
LEMMA ChunkStep ==
    ASSUME TypeOK, NEW s \in OutputStream, ChunkInv(s), StepOf(s)
    PROVE  ChunkInv(s)'
<1>0. consumed[s] \in Nat /\ BufferLen \in Nat
  BY ReadersAssumption DEF TypeOK
<1>1. CASE ReadPipe(s)
  <2>1. PICK n \in 0..BufferLen :
            /\ consumed'[s] = consumed[s] + n
            /\ chunk'[s] = Bytes(consumed[s], n) /\ Len(chunk'[s]) = n
            /\ pc'[s] = IF n = 0 THEN "zero" ELSE "got"
    BY <1>1, ReadChunk
  <2>2. consumed'[s] - Len(chunk'[s]) = consumed[s]
    BY <1>0, <2>1
  <2> QED
    BY <1>0, <2>1, <2>2 DEF ChunkInv
<1>2. CASE CheckBeforeTee(s)
  BY <1>2 DEF CheckBeforeTee, ChunkInv
<1>3. CASE TeeWrites(s) \/ TeeFails(s) \/ FinishReading(s)
  <2>1. pc'[s] \notin {"got", "tee"}
    BY <1>3 DEF TeeWrites, TeeFails, FinishReading, Goto, TypeOK
  <2> QED
    BY <2>1 DEF ChunkInv
<1>4. CASE /\ ReaderStep(s)
           /\ ~ReadPipe(s) /\ ~CheckBeforeTee(s) /\ ~TeeWrites(s) /\ ~TeeFails(s)
           /\ ~FinishReading(s)
  <2>1. pc'[s] \notin {"got", "tee"}
    BY <1>4, QuietStep
  <2> QED
    BY <2>1 DEF ChunkInv
<1>5. CASE OwnerStep(s) \/ ChildStep(s)
  <2>1. UNCHANGED <<pc, chunk, consumed>>
    BY <1>5 DEF OwnerStep, ChildStep, StoreCancel, WakeReader, Join, Detach, ChildWrites,
       ChildCloses, threadVars
  <2> QED
    BY <2>1 DEF ChunkInv
<1> QED
  BY <1>1, <1>2, <1>3, <1>4, <1>5 DEF StepOf

\* The chunk that goes to the tee continues the file.
LEMMA TeeGoesOn ==
    ASSUME TypeOK, NEW s \in OutputStream, ChunkInv(s), TeeInv(s), pc[s] = "tee",
           NEW n \in 0..Len(chunk[s])
    PROVE  /\ tee[s].file \o SubSeq(chunk[s], 1, n) = Bytes(0, Len(tee[s].file) + n)
           /\ Len(tee[s].file \o SubSeq(chunk[s], 1, n)) = Len(tee[s].file) + n
           /\ Len(tee[s].file) + Len(chunk[s]) = consumed[s]
           /\ chunk[s] = SubSeq(chunk[s], 1, Len(chunk[s]))
           /\ Len(tee[s].file) \in Nat /\ Len(chunk[s]) \in Nat
<1>1. /\ tee[s].file \in Seq(Nat) /\ chunk[s] \in Seq(Nat) /\ consumed[s] \in Nat
      /\ Len(tee[s].file) \in Nat /\ Len(chunk[s]) \in Nat
  BY LenProperties DEF TypeOK
<1>2. consumed[s] = Len(tee[s].file) + Len(chunk[s])
  BY DEF TeeInv, LastChunkDropped
<1>3. consumed[s] - Len(chunk[s]) = Len(tee[s].file)
  BY <1>1, <1>2
<1>4. chunk[s] = Bytes(Len(tee[s].file), Len(chunk[s]))
  BY <1>3 DEF ChunkInv
<1>5. SubSeq(chunk[s], 1, n) = Bytes(Len(tee[s].file), n)
  BY <1>1, <1>4, BytesPrefix
<1>6. n \in Nat /\ tee[s].file = Bytes(0, Len(tee[s].file))
  BY <1>1 DEF TeeInv
<1>7. tee[s].file \o SubSeq(chunk[s], 1, n) = Bytes(0, Len(tee[s].file) + n)
  BY <1>1, <1>5, <1>6, BytesJoin
<1>8. Len(Bytes(0, Len(tee[s].file) + n)) = Len(tee[s].file) + n
  <2>1. Len(tee[s].file) + n \in Nat /\ 0 \in Nat
    BY <1>1, <1>6
  <2> QED
    BY <2>1, BytesType
<1>9. SubSeq(chunk[s], 1, Len(chunk[s])) = Bytes(Len(tee[s].file), Len(chunk[s]))
  <2>1. Len(chunk[s]) \in 0..Len(chunk[s])
    BY <1>1
  <2> QED
    BY <1>1, <1>4, <2>1, BytesPrefix
<1> QED
  BY <1>1, <1>2, <1>4, <1>7, <1>8, <1>9

\* The tee: every step preserves that its file is a prefix without gaps.
LEMMA TeeStep ==
    ASSUME TypeOK, NEW s \in OutputStream, EndInv(s), ChunkInv(s), TeeInv(s), StepOf(s)
    PROVE  TeeInv(s)'
<1>0. /\ tee[s].file \in Seq(Nat) /\ chunk[s] \in Seq(Nat) /\ consumed[s] \in Nat
      /\ Len(tee[s].file) \in Nat /\ Len(chunk[s]) \in Nat /\ BufferLen \in Nat
      /\ tee \in [OutputStream -> [used : BOOLEAN, file : Seq(Nat)]]
  BY LenProperties, ReadersAssumption DEF TypeOK
<1>1. CASE ReadPipe(s)
  <2>1. PICK n \in 0..BufferLen :
            /\ consumed'[s] = consumed[s] + n
            /\ Len(chunk'[s]) = n
            /\ pc'[s] = IF n = 0 THEN "zero" ELSE "got"
    BY <1>1, ReadChunk
  <2>2. pc[s] = "read" /\ UNCHANGED <<tee, writeError>>
    BY <1>1 DEF ReadPipe
  <2>3. tee[s].used => consumed[s] = Len(tee[s].file)
    BY <2>2 DEF TeeInv, LastChunkDropped
  <2>4. tee[s].used => IF n = 0 THEN consumed'[s] = Len(tee[s].file)
                       ELSE consumed'[s] = Len(tee[s].file) + Len(chunk'[s])
    BY <1>0, <2>1, <2>3
  <2> QED
    BY <2>1, <2>2, <2>4 DEF TeeInv
<1>2. CASE CheckBeforeTee(s)
  <2>1. pc[s] = "got" /\ UNCHANGED <<tee, writeError, consumed, chunk, cancelled>>
    BY <1>2 DEF CheckBeforeTee, cancelVars
  <2>2. /\ tee[s].used => consumed[s] = Len(tee[s].file) + Len(chunk[s])
        /\ Len(chunk[s]) \in 1..BufferLen
    BY <2>1 DEF TeeInv, LastChunkDropped, ChunkInv
  <2>3. CASE cancelled[s] /\ Leave(s, "stopped")
    <3>1. pc'[s] = "finish" /\ end'[s] = "stopped"
      BY <2>3 DEF Leave, TypeOK
    <3>2. ASSUME tee[s].used
          PROVE  consumed[s] - Len(tee[s].file) \in 1..BufferLen
      <4>1. consumed[s] = Len(tee[s].file) + Len(chunk[s])
        BY <2>2, <3>2
      <4>2. consumed[s] - Len(tee[s].file) = Len(chunk[s])
        BY <1>0, <4>1
      <4> QED
        BY <2>2, <4>2
    <3> QED
      BY <2>1, <2>3, <3>1, <3>2 DEF TeeInv, LastChunkDropped
  <2>4. CASE Goto(s, IF tee[s].used THEN "tee" ELSE "limit")
    <3>1. pc'[s] = IF tee[s].used THEN "tee" ELSE "limit"
      BY <2>4 DEF Goto, TypeOK
    <3> QED
      BY <2>1, <2>2, <3>1 DEF TeeInv
  <2> QED
    BY <1>2, <2>3, <2>4 DEF CheckBeforeTee, StopOr
<1>3. CASE TeeWrites(s)
  <2>1. /\ pc[s] = "tee" /\ pc'[s] = "limit" /\ UNCHANGED <<writeError, consumed>>
        /\ tee' = [tee EXCEPT ![s].file = @ \o chunk[s]]
    BY <1>3 DEF TeeWrites, Goto, TypeOK
  <2>2. tee'[s].file = tee[s].file \o chunk[s] /\ tee'[s].used = tee[s].used
    BY <1>0, <2>1
  <2>3. /\ tee'[s].file = Bytes(0, consumed[s])
        /\ Len(tee'[s].file) = consumed[s]
    <3>1. Len(chunk[s]) \in 0..Len(chunk[s])
      BY <1>0
    <3> QED
      BY <1>0, <2>1, <2>2, <3>1, TeeGoesOn
  <2> QED
    BY <2>1, <2>2, <2>3 DEF TeeInv
<1>4. CASE TeeFails(s)
  <2>1. PICK n \in 0..(Len(chunk[s]) - 1) : tee' = [tee EXCEPT ![s] = DroppedTee(s, n)]
    BY <1>4 DEF TeeFails
  <2>2. pc[s] = "tee" /\ pc'[s] = "limit" /\ writeError'[s] = TRUE
    BY <1>4 DEF TeeFails, Goto, TypeOK
  <2>3. tee'[s].used = FALSE /\ tee'[s].file = tee[s].file \o SubSeq(chunk[s], 1, n)
    BY <1>0, <2>1 DEF DroppedTee
  <2>4. n \in 0..Len(chunk[s])
    BY <1>0, <2>1
  <2>5. tee'[s].file = Bytes(0, Len(tee'[s].file))
    BY <2>2, <2>3, <2>4, TeeGoesOn
  <2> QED
    BY <2>2, <2>3, <2>5 DEF TeeInv
<1>5. CASE FinishReading(s)
  <2>1. /\ pc[s] = "finish" /\ pc'[s] = "done" /\ UNCHANGED <<tee, consumed, end, cancelled>>
        /\ writeError[s] => writeError'[s]
    BY <1>5 DEF FinishReading, Goto, TypeOK, cancelVars
  <2> QED
    BY <2>1 DEF TeeInv, LastChunkDropped
<1>6. CASE /\ ReaderStep(s)
           /\ ~ReadPipe(s) /\ ~CheckBeforeTee(s) /\ ~TeeWrites(s) /\ ~TeeFails(s)
           /\ ~FinishReading(s)
  <2>1. /\ UNCHANGED <<consumed, tee, writeError>>
        /\ pc[s] \notin {"got", "tee", "finish", "done"} /\ pc'[s] \notin {"got", "tee"}
    BY <1>6, QuietStep
  <2> QED
    BY <2>1 DEF TeeInv, LastChunkDropped
<1>7. CASE OwnerStep(s) \/ ChildStep(s)
  <2>1. UNCHANGED <<pc, chunk, consumed, tee, writeError, end>>
        /\ (cancelled[s] => cancelled'[s])
    BY <1>7 DEF OwnerStep, ChildStep, StoreCancel, WakeReader, Join, Detach, ChildWrites,
       ChildCloses, threadVars, cancelVars, TypeOK
  <2> QED
    BY <2>1 DEF TeeInv, LastChunkDropped
<1> QED
  BY <1>1, <1>2, <1>3, <1>4, <1>5, <1>6, <1>7 DEF StepOf

(***************************************************************************)
(* The invariant of the readers.                                           *)
(***************************************************************************)

\* The invariants of a stream hold at the start.
LEMMA ReadersInit == Init => ReadersInv
<1> SUFFICES ASSUME Init, NEW s \in OutputStream PROVE StreamInv(s)
  BY DEF ReadersInv
<1>1. /\ pc[s] = "check" /\ end[s] = None /\ finish[s] = None /\ consumed[s] = 0
      /\ lateIo[s] = 0 /\ wakeup[s] = FALSE /\ request[s] = "none" /\ budget = NewBudget
      /\ local[s] = [bytes |-> <<>>, truncated |-> FALSE]
      /\ tee[s] = [used |-> s \in Teed, file |-> <<>>]
  BY DEF Init
<1>2. LateIoInv(s) /\ RequestInv(s) /\ ChunkInv(s)
  BY <1>1 DEF LateIoInv, RequestInv, ChunkInv
<1>3. EndInv(s)
  BY <1>1, ReadersAssumption DEF EndInv
<1>4. CompleteInv(s)
  BY <1>1, ReadersAssumption DEF CompleteInv, NewBudget
<1>5. ResultInv(s)
  BY <1>1 DEF ResultInv, Joined
<1>6. <<>> = Bytes(0, 0) /\ Len(<<>>) = 0
  BY DEF Bytes
<1>7. KeptInv(s)
  <2>1. KeptCount(s) = 0
    BY <1>1, RetainedCountBound DEF KeptCount
  <2>2. Kept(s) = [bytes |-> <<>>, truncated |-> FALSE] /\ ~budget.transferred[s]
    BY <1>1 DEF Kept, NewBudget
  <2> QED
    BY <1>1, <1>6, <2>1, <2>2 DEF KeptInv, Joined
<1>8. TeeInv(s)
  <2>1. tee[s].file = <<>> /\ tee[s].used = (s \in Teed)
    BY <1>1
  <2>2. s \in Teed => tee[s].used
    BY <2>1
  <2> QED
    BY <1>1, <1>6, <2>1, <2>2 DEF TeeInv
<1> QED
  BY <1>2, <1>3, <1>4, <1>5, <1>7, <1>8 DEF StreamInv

\* No step breaks the invariant of either stream.
LEMMA ReadersStep ==
    TypeInv /\ TypeInv' /\ BudgetAccounting /\ ReadersInv /\ [Next]_vars => ReadersInv'
<1> SUFFICES ASSUME TypeInv, TypeInv', BudgetAccounting, ReadersInv, [Next]_vars,
                    NEW t \in OutputStream
             PROVE  StreamInv(t)'
  BY DEF ReadersInv
<1>1. StreamInv(t)
  BY DEF ReadersInv
<1>2. CASE UNCHANGED vars
  <2>1. StreamKept(t)
    BY <1>2 DEF StreamKept, vars, pipeVars, threadVars, cancelVars, ownerVars
  <2> QED
    BY <1>1, <2>1, KeptStreamInv
<1>3. ASSUME NEW s \in OutputStream, StepOf(s)
      PROVE  StreamInv(t)'
  <2>1. CASE s # t
    <3>1. StreamKept(t)
      BY <1>3, <2>1, OtherStreamKept DEF StepOf
    <3> QED
      BY <1>1, <3>1, KeptStreamInv
  <2>2. CASE s = t
    <3>1. StepOf(t) /\ TypeOK
      BY <1>3, <2>2 DEF TypeInv
    <3>2. /\ LateIoInv(t) /\ RequestInv(t) /\ EndInv(t) /\ CompleteInv(t) /\ ResultInv(t)
          /\ KeptInv(t) /\ ChunkInv(t) /\ TeeInv(t)
      BY <1>1 DEF StreamInv
    <3>3. LateIoInv(t)' /\ RequestInv(t)' /\ EndInv(t)' /\ CompleteInv(t)'
      BY <3>1, <3>2, LateIoStep, RequestStep, EndStep, CompleteStep
    <3>4. ResultInv(t)' /\ KeptInv(t)' /\ ChunkInv(t)' /\ TeeInv(t)'
      BY <3>1, <3>2, ResultStep, KeptStep, ChunkStep, TeeStep
    <3> QED
      BY <3>3, <3>4 DEF StreamInv
  <2> QED
    BY <2>1, <2>2
<1> QED
  BY <1>2, <1>3 DEF Next, StepOf

\* The invariant of the streams.
LEMMA ReadersInvariant == Spec => []ReadersInv
  BY ReadersInit, ReadersStep, TypeInvariant, BudgetNeverOverdrawn, PTL DEF Spec

(***************************************************************************)
(* What follows from it.                                                   *)
(***************************************************************************)

\* A reader whose flag is set starts no read and no tee write beyond the one
\* call that it was in.
THEOREM CancelledReaderStops == Spec => []AtMostOneLateIo
<1>1. ReadersInv => AtMostOneLateIo
  BY DEF ReadersInv, StreamInv, LateIoInv, AtMostOneLateIo
<1> QED
  BY <1>1, ReadersInvariant, PTL

\* For every cap and limit, and across the transfer to the owner: what is kept
\* and what the owner gets of a stream is a prefix of it, the longest there is
\* unless the reader had to be let go.
THEOREM OutputIsPrefix == Spec => []KeptIsPrefix
<1>1. ReadersInv => RetainedIsPrefix
  BY DEF ReadersInv, StreamInv, KeptInv, RetainedIsPrefix
<1>2. ReadersInv => OwnerGetsPrefix
  <2> SUFFICES ASSUME ReadersInv, NEW s \in OutputStream, finish[s] # None
               PROVE  LET got == finish[s].output.bytes
                      IN  IF finish[s].how = "Joined"
                          THEN got = Bytes(0, KeptCount(s))
                          ELSE /\ Len(got) <= KeptCount(s)
                               /\ got = Bytes(0, Len(got))
                               /\ ~finish[s].output.complete
    BY DEF OwnerGetsPrefix
  <2>1. KeptInv(s) /\ ResultInv(s)
    BY DEF ReadersInv, StreamInv
  <2> QED
    BY <2>1 DEF KeptInv, ResultInv, Joined
<1> QED
  BY <1>1, <1>2, ReadersInvariant, PTL DEF KeptIsPrefix

\* The owner is told that a stream is complete exactly when the pipe was
\* drained to its end, however zero reads, limits and cancellations fall.
THEOREM CompletenessIsTrue == Spec => []CompleteIffDrained
<1>1. TypeInv /\ ReadersInv => CompleteIffDrained
  <2> SUFFICES ASSUME TypeInv, ReadersInv, NEW s \in OutputStream, finish[s] # None
               PROVE  /\ finish[s].output.complete =>
                             ~open[s] /\ consumed[s] = written[s]
                      /\ (finish[s].how = "Joined" /\ ~finish[s].output.complete) =>
                             \/ cancelled[s]
                             \/ Budgeted /\ budget.exceeded
                             \/ finish[s].kind \in {"Read", "ReadAfterWrite"}
    BY DEF CompleteIffDrained
  <2>1. ResultInv(s) /\ EndInv(s)
    BY DEF ReadersInv, StreamInv
  <2>2. finish[s].output.complete => end[s] = "eof"
    BY <2>1 DEF ResultInv, Joined
  <2>3. end[s] = "eof" => ~open[s] /\ consumed[s] = written[s]
    BY <2>1 DEF EndInv, AtEof, Unread, TypeInv, TypeOK
  <2>4. ASSUME finish[s].how = "Joined", ~finish[s].output.complete
        PROVE  \/ cancelled[s]
               \/ Budgeted /\ budget.exceeded
               \/ finish[s].kind \in {"Read", "ReadAfterWrite"}
    <3>1. /\ pc[s] = "done" /\ end[s] # "eof"
          /\ finish[s].kind = KindOf(writeError[s], end[s])
      BY <2>1, <2>4 DEF ResultInv, Joined
    <3>2. end[s] \in {"stopped", "error"}
      BY <2>1, <3>1 DEF EndInv, TypeInv, TypeOK, LoopEnd
    <3>3. CASE end[s] = "stopped"
      BY <2>1, <3>3 DEF EndInv
    <3>4. CASE end[s] = "error"
      BY <3>1, <3>4 DEF KindOf
    <3> QED
      BY <3>2, <3>3, <3>4
  <2> QED
    BY <2>2, <2>3, <2>4
<1> QED
  BY <1>1, TypeInvariant, ReadersInvariant, PTL

\* A tee file has no gap, lacks at most the last chunk of a cancelled stream
\* unless a failure is reported, and its failure is reported.
THEOREM TeeFilesAreTrue == Spec => []TeeIsTrue
<1>1. TypeInv /\ ReadersInv => TeeIsTrue
  <2> SUFFICES ASSUME TypeInv, ReadersInv PROVE TeeIsTrue
    OBVIOUS
  <2>1. ASSUME NEW s \in Teed
        PROVE  /\ s \in OutputStream
               /\ TeeInv(s) /\ EndInv(s) /\ ResultInv(s)
               /\ Len(tee[s].file) \in Nat /\ consumed[s] \in Nat
    <3>1. s \in OutputStream
      BY <2>1, ReadersAssumption
    <3> QED
      BY <3>1, LenProperties DEF ReadersInv, StreamInv, TypeInv, TypeOK
  <2>2. ASSUME NEW s \in Teed, finish[s] # None, finish[s].how = "Joined"
        PROVE  /\ pc[s] = "done"
               /\ finish[s].kind = KindOf(writeError[s], end[s])
               /\ finish[s].output.complete => end[s] = "eof"
    BY <2>1, <2>2 DEF ResultInv, Joined
  <2>3. ASSUME NEW s \in Teed, finish[s] # None, finish[s].how = "Joined", ~tee[s].used
        PROVE  finish[s].kind \in {"Write", "ReadAfterWrite"}
    BY <2>1, <2>2, <2>3 DEF TeeInv, KindOf
  <2>4. ASSUME NEW s \in Teed, finish[s] # None, finish[s].how = "Joined",
               finish[s].kind \in {"Ok", "Read"}
        PROVE  /\ Len(tee[s].file) <= consumed[s]
               /\ Len(tee[s].file) < consumed[s] =>
                      /\ cancelled[s]
                      /\ consumed[s] - Len(tee[s].file) <= BufferLen
                      /\ ~finish[s].output.complete
    <3>1. tee[s].used /\ pc[s] = "done" /\ TeeInv(s)
      BY <2>1, <2>2, <2>3, <2>4
    <3>2. consumed[s] = Len(tee[s].file) \/ LastChunkDropped(s)
      BY <3>1 DEF TeeInv
    <3>3. CASE consumed[s] = Len(tee[s].file)
      BY <2>1, <3>3
    <3>4. CASE LastChunkDropped(s)
      <4>1. cancelled[s] /\ consumed[s] - Len(tee[s].file) \in 1..BufferLen
            /\ ~finish[s].output.complete
        BY <2>2, <2>4, <3>4 DEF LastChunkDropped
      <4> QED
        BY <2>1, <4>1, ReadersAssumption
    <3> QED
      BY <3>2, <3>3, <3>4
  <2>5. TeeHasNoGaps
    BY <2>1, <2>4 DEF TeeHasNoGaps, TeeInv
  <2>6. TeeFailureReported
    BY <2>3 DEF TeeFailureReported
  <2> QED
    BY <2>5, <2>6 DEF TeeIsTrue
<1> QED
  BY <1>1, TypeInvariant, ReadersInvariant, PTL

(***************************************************************************)
(* The readers as a run sees them.                                         *)
(***************************************************************************)

AtWork == {s \in OutputStream : pc[s] # "done"}

Failed == {s \in OutputStream : pc[s] = "done" /\ result[s].kind # "Ok"}

\* The variables of HelperContract, as AsHelpers reads them off the readers.
SeenOfReaders == <<AtWork, Failed, Budgeted, budget.exceeded>>

\* A run that starts sees two helpers at work and a limit not passed.
LEMMA ReadersBeginAsHelpers == Init => AsHelpers!HelperInit
<1> SUFFICES ASSUME Init PROVE AsHelpers!HelperInit
  OBVIOUS
<1>1. AtWork = OutputStream /\ Failed = {}
  BY DEF Init, AtWork, Failed
<1>2. budget.exceeded = FALSE
  BY DEF Init, NewBudget
<1>3. Budgeted \in BOOLEAN
  BY ReadersAssumption DEF Init, Budgeted
<1> QED
  BY <1>1, <1>2, <1>3 DEF AsHelpers!HelperInit, AtWork, Failed

\* A reader that returns is a helper that returns, and nothing else is seen of it.
LEMMA FinishIsReturn ==
    ASSUME TypeInv, NEW s \in OutputStream, FinishReading(s), UNCHANGED setup
    PROVE  AsHelpers!Returns(s)
<1>1. /\ pc[s] = "finish" /\ pc' = [pc EXCEPT ![s] = "done"]
      /\ \E r : result' = [result EXCEPT ![s] = r]
      /\ budget' = budget
  BY DEF FinishReading, Goto
<1>2. pc \in [OutputStream -> ReaderPc] /\ DOMAIN result = OutputStream
  BY DEF TypeInv, TypeOK
<1>3. \A t \in OutputStream \ {s} : pc'[t] = pc[t] /\ result'[t] = result[t]
  BY <1>1, <1>2
<1>4. s \in AtWork /\ AtWork' = AtWork \ {s}
  BY <1>1, <1>2, <1>3 DEF AtWork
<1>5. Failed' \in {Failed, Failed \cup {s}}
  BY <1>1, <1>2, <1>3 DEF Failed
<1>6. Budgeted' = Budgeted /\ budget'.exceeded = budget.exceeded
  BY <1>1 DEF Budgeted
<1> QED
  BY <1>4, <1>5, <1>6 DEF AsHelpers!Returns, AtWork, Failed

\* Whatever else a reader, its owner or the child does shows neither in who is
\* at work nor in who failed.
LEMMA NobodyReturns ==
    ASSUME TypeInv, NEW s \in OutputStream, StepOf(s), ~FinishReading(s)
    PROVE  UNCHANGED <<AtWork, Failed, Budgeted>>
<1>0. Budgeted' = Budgeted
  BY DEF StepOf, ReaderStep, OwnerStep, ChildStep, Budgeted
<1>1. CASE OwnerStep(s) \/ ChildStep(s)
  <2>1. UNCHANGED <<pc, result>>
    BY <1>1 DEF OwnerStep, ChildStep, StoreCancel, WakeReader, Join, Detach, ChildWrites,
       ChildCloses, threadVars
  <2> QED
    BY <1>0, <2>1 DEF AtWork, Failed
<1>2. CASE ReaderStep(s)
  <2>1. pc[s] # "done" /\ pc'[s] # "done"
    BY <1>2, ThreadRuns DEF TypeInv
  <2>2. \A t \in OutputStream \ {s} : pc'[t] = pc[t]
    <3> SUFFICES ASSUME NEW t \in OutputStream \ {s} PROVE pc'[t] = pc[t]
      OBVIOUS
    <3>1. StreamKept(t)
      BY <1>2, OtherStreamKept DEF TypeInv, StepOf
    <3> QED
      BY <3>1 DEF StreamKept
  <2>3. UNCHANGED result
    BY <1>2 DEF ReaderStep, CheckCancelled, EnterPoll, PollReturns, Peek, ReadRefused, ReadPipe,
       ReadFails, ZeroRead, MarkEof, CheckBeforeTee, TeeWrites, TeeFails, CheckLimit
  <2> QED
    BY <1>0, <2>1, <2>2, <2>3 DEF AtWork, Failed
<1> QED
  BY <1>1, <1>2 DEF StepOf

\* The limit is passed by a read, and a read is made by a reader at work.
LEMMA LimitPassedByReader ==
    ASSUME TypeInv, BudgetAccounting, NEW s \in OutputStream, StepOf(s)
    PROVE  \/ budget'.exceeded = budget.exceeded
           \/ Budgeted /\ s \in AtWork /\ budget'.exceeded = TRUE
<1>0. /\ budget \in TotalOutputBudgetState
      /\ budget.exceeded \in BOOLEAN /\ UNCHANGED setup
  BY DEF TypeInv, TypeOK, TotalOutputBudgetState, StepOf, ReaderStep, OwnerStep, ChildStep
<1>1. CASE ReadPipe(s)
  <2>1. pc[s] = "read"
    BY <1>1 DEF ReadPipe
  <2>2. CASE ~Budgeted
    BY <1>1, <2>2 DEF ReadPipe
  <2>3. CASE Budgeted
    <3>1. ~budget.exceeded
      BY <1>0, <1>1, <2>3, AccountingRead
    <3>2. budget' \in TotalOutputBudgetState
      <4>1. TypeInv'
        BY <1>0, <1>1, TypeReaderStep DEF ReaderStep
      <4> QED
        BY <4>1 DEF TypeInv, TypeOK
    <3> QED
      BY <1>0, <2>1, <2>3, <3>1, <3>2 DEF AtWork, TotalOutputBudgetState
  <2> QED
    BY <2>2, <2>3
<1>2. CASE ReadRefused(s)
  <2>1. pc[s] = "read" /\ Budgeted /\ budget' \in {budget, HaltAtCeiling(budget)}
    BY <1>2 DEF ReadRefused, Refused
  <2>2. HaltAtCeiling(budget).exceeded = TRUE
    BY <1>0 DEF HaltAtCeiling, TotalOutputBudgetState
  <2> QED
    BY <2>1, <2>2 DEF AtWork
<1>3. CASE ~ReadPipe(s) /\ ~ReadRefused(s)
  BY <1>3, CountersStep DEF BudgetCounters, StepOf
<1> QED
  BY <1>1, <1>2, <1>3

\* To the run the readers are helper threads: each returns once, its failure
\* stays, and the limit is passed by a reader that has not returned and stays
\* passed, whatever the owner cancels, joins, takes or lets go.
THEOREM ReadersAreHelpers == Spec => ReadersActAsHelpers
<1>1. Init => AsHelpers!HelperInit
  BY ReadersBeginAsHelpers
<1>2. TypeInv /\ BudgetAccounting /\ [Next]_vars
          => [AsHelpers!HelperNext]_(AsHelpers!helperContractVars)
  <2> SUFFICES ASSUME TypeInv, BudgetAccounting, [Next]_vars
               PROVE  AsHelpers!HelperNext \/ UNCHANGED AsHelpers!helperContractVars
    OBVIOUS
  <2>1. UNCHANGED SeenOfReaders => UNCHANGED AsHelpers!helperContractVars
    BY DEF SeenOfReaders, AsHelpers!helperContractVars, AtWork, Failed
  <2>2. CASE UNCHANGED vars
    BY <2>1, <2>2 DEF vars, threadVars, SeenOfReaders, AtWork, Failed, Budgeted
  <2>3. ASSUME NEW s \in OutputStream, StepOf(s)
        PROVE  AsHelpers!HelperNext \/ UNCHANGED AsHelpers!helperContractVars
    <3>1. CASE FinishReading(s)
      <4>1. AsHelpers!Returns(s)
        BY <2>3, <3>1, FinishIsReturn DEF StepOf, ReaderStep, OwnerStep, ChildStep
      <4> QED
        BY <4>1 DEF AsHelpers!HelperNext
    <3>2. CASE ~FinishReading(s)
      <4>1. UNCHANGED <<AtWork, Failed, Budgeted>>
        BY <2>3, <3>2, NobodyReturns
      <4>2. CASE budget'.exceeded = budget.exceeded
        BY <2>1, <4>1, <4>2 DEF SeenOfReaders
      <4>3. CASE Budgeted /\ s \in AtWork /\ budget'.exceeded = TRUE
        <5>1. AsHelpers!LimitIsPassed
          BY <4>1, <4>3 DEF AsHelpers!LimitIsPassed, AtWork, Failed
        <5> QED
          BY <5>1 DEF AsHelpers!HelperNext
      <4> QED
        BY <2>3, <4>2, <4>3, LimitPassedByReader
    <3> QED
      BY <3>1, <3>2
  <2> QED
    BY <2>2, <2>3 DEF Next, StepOf
<1> QED
  BY <1>1, <1>2, TypeInvariant, BudgetNeverOverdrawn, PTL
     DEF Spec, ReadersActAsHelpers, AsHelpers!HelperSpec

(***************************************************************************)
(* How long a cancelled reader takes.                                      *)
(***************************************************************************)

\* The steps that a cancelled reader has still to make, at most.
ReaderStepsLeft(s) ==
    CASE pc[s] \in {"read", "tee"}                           -> 4
      [] pc[s] \in {"poll", "zero", "limit"}                 -> 3
      [] pc[s] \in {"check", "wait", "peek", "mark", "got"}  -> 2
      [] pc[s] = "finish"                                    -> 1
      [] pc[s] = "done"                                      -> 0

\* Its thread uses them up, and neither the other reader nor the owner nor the
\* child gives one back.
CancelledReaderRunsOut ==
    \A s \in OutputStream :
        cancelled[s] => /\ cancelled'[s]
                        /\ ReaderStepsLeft(s)' <= ReaderStepsLeft(s)
                        /\ ReaderStep(s) => ReaderStepsLeft(s)' < ReaderStepsLeft(s)

\* Where a step of a cancelled reader leads.
LEMMA CancelledReaderMoves ==
    ASSUME TypeOK, NEW s \in OutputStream, cancelled[s], ReaderStep(s)
    PROVE  \/ pc[s] \in {"read", "tee"} /\ pc'[s] \in {"check", "zero", "got", "limit", "finish"}
           \/ pc[s] \in {"poll", "zero", "limit"} /\ pc'[s] \in {"check", "wait", "mark", "finish"}
           \/ pc[s] \in {"check", "wait", "peek", "mark", "got"} /\ pc'[s] = "finish"
           \/ pc[s] = "finish" /\ pc'[s] = "done"
<1> USE DEF Goto, Leave, StopOr
<1>0. pc \in [OutputStream -> ReaderPc]
  BY DEF TypeOK
<1>1. CASE CheckCancelled(s) \/ EnterPoll(s) \/ PollReturns(s) \/ Peek(s)
  BY <1>0, <1>1 DEF CheckCancelled, EnterPoll, PollReturns, Peek
<1>2. CASE ReadRefused(s) \/ ReadPipe(s) \/ ReadFails(s)
  BY <1>0, <1>2 DEF ReadRefused, ReadPipe, ReadFails
<1>3. CASE ZeroRead(s) \/ MarkEof(s) \/ CheckBeforeTee(s)
  BY <1>0, <1>3 DEF ZeroRead, MarkEof, CheckBeforeTee
<1>4. CASE TeeWrites(s) \/ TeeFails(s) \/ CheckLimit(s) \/ FinishReading(s)
  BY <1>0, <1>4 DEF TeeWrites, TeeFails, CheckLimit, FinishReading
<1> QED
  BY <1>1, <1>2, <1>3, <1>4 DEF ReaderStep

\* Only a reader itself moves on, and a cancellation is not taken back.
LEMMA CancelledReaderStays ==
    ASSUME TypeInv, Next, NEW s \in OutputStream
    PROVE  /\ cancelled[s] => cancelled'[s]
           /\ ReaderStep(s) \/ pc'[s] = pc[s]
<1>1. PICK t \in OutputStream : StepOf(t)
  BY DEF Next, StepOf
<1>2. cancelled \in [OutputStream -> BOOLEAN]
  BY DEF TypeInv, TypeOK
<1>3. cancelled[s] => cancelled'[s]
  <2>1. CASE ReaderStep(t)
    BY <2>1 DEF ReaderStep, CheckCancelled, EnterPoll, PollReturns, Peek, ReadRefused, ReadPipe,
       ReadFails, ZeroRead, MarkEof, CheckBeforeTee, TeeWrites, TeeFails, CheckLimit,
       FinishReading, cancelVars
  <2>2. CASE OwnerStep(t) \/ ChildStep(t)
    BY <1>2, <2>2 DEF OwnerStep, StoreCancel, WakeReader, Join, Detach, ChildStep, ChildWrites,
       ChildCloses, cancelVars
  <2> QED
    BY <1>1, <2>1, <2>2 DEF StepOf
<1>4. ReaderStep(s) \/ pc'[s] = pc[s]
  <2>1. CASE t # s
    <3>1. StreamKept(s)
      BY <1>1, <2>1, OtherStreamKept DEF StepOf
    <3> QED
      BY <3>1 DEF StreamKept
  <2>2. CASE t = s
    BY <1>1, <2>2 DEF StepOf, OwnerStep, StoreCancel, WakeReader, Join, Detach, ChildStep,
       ChildWrites, ChildCloses, threadVars
  <2> QED
    BY <2>1, <2>2
<1> QED
  BY <1>3, <1>4

\* A cancelled reader returns with its fourth step from now at the latest,
\* wherever it is, whichever call fails and however much output there is: no
\* retry of an interrupted call leads it around its loop again
\* (read_output_inner).
THEOREM CancelledReaderIsBounded ==
    Spec => /\ [](\A s \in OutputStream : ReaderStepsLeft(s) \in 0..4)
            /\ [][CancelledReaderRunsOut]_vars
<1>1. TypeInv => \A s \in OutputStream : ReaderStepsLeft(s) \in 0..4
  BY DEF TypeInv, TypeOK, ReaderPc, ReaderStepsLeft
<1>2. TypeInv /\ [Next]_vars => [CancelledReaderRunsOut]_vars
  <2> SUFFICES ASSUME TypeInv, Next, NEW s \in OutputStream, cancelled[s]
               PROVE  /\ cancelled'[s]
                      /\ ReaderStepsLeft(s)' <= ReaderStepsLeft(s)
                      /\ ReaderStep(s) => ReaderStepsLeft(s)' < ReaderStepsLeft(s)
    BY DEF CancelledReaderRunsOut
  <2>1. TypeOK /\ pc[s] \in ReaderPc
    BY DEF TypeInv, TypeOK
  <2>2. cancelled'[s]
    BY <2>1, CancelledReaderStays
  <2>3. CASE ReaderStep(s)
    <3>1. ReaderStepsLeft(s)' < ReaderStepsLeft(s) /\ ReaderStepsLeft(s)' <= ReaderStepsLeft(s)
      <4>1. \/ pc[s] \in {"read", "tee"} /\ pc'[s] \in {"check", "zero", "got", "limit", "finish"}
            \/ pc[s] \in {"poll", "zero", "limit"} /\ pc'[s] \in {"check", "wait", "mark", "finish"}
            \/ pc[s] \in {"check", "wait", "peek", "mark", "got"} /\ pc'[s] = "finish"
            \/ pc[s] = "finish" /\ pc'[s] = "done"
        BY <2>1, <2>3, CancelledReaderMoves
      <4> QED
        BY ONLY <4>1 DEF ReaderStepsLeft
    <3> QED
      BY <2>2, <3>1
  <2>4. CASE ~ReaderStep(s)
    <3>1. pc'[s] = pc[s]
      BY <2>1, <2>4, CancelledReaderStays
    <3>2. ReaderStepsLeft(s)' <= ReaderStepsLeft(s)
      BY ONLY <2>1, <3>1 DEF ReaderStepsLeft, ReaderPc
    <3> QED
      BY <2>2, <2>4, <3>2
  <2> QED
    BY <2>3, <2>4
<1> QED
  BY <1>1, <1>2, TypeInvariant, PTL DEF Spec
=============================================================================
