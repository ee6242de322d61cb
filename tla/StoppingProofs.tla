--------------------------- MODULE StoppingProofs ---------------------------
(***************************************************************************)
(* Theorems about the two halves of stopping a command, ProcessTerminator  *)
(* and HelperFinalization, for every number of exit checks, set of faults, *)
(* window and set of cancellation answers.  The steps of each half are     *)
(* shown to preserve its inductive invariant, which StartingCommandProofs  *)
(* and RunningCommandProofs cite for the compositions.                     *)
(***************************************************************************)
EXTENDS ProcessTerminator, HelperFinalization, TLAPS

(***************************************************************************)
(* ProcessTerminator: the inductive invariant.                             *)
(***************************************************************************)

\* The processes of the managed tree that live and that no kill reached.
Untouched == (group \cap alive) \ signalled

\* Once spawned the child is running or has a status, it is in its group unless
\* it may leave it, and while it is, what it forks is in it, too.
ChildSpawned ==
    /\ "child" \in alive \/ status # None
    /\ MayLeaveGroup \/ "child" \in group
    /\ "child" \in group => alive \subseteq group

\* A dead child stays dead, and a status collected earlier is its status.
StatusIsFinal ==
    /\ status # None => "child" \notin alive
    /\ observed \in {None, status}
    /\ outcome # None => tpc = "done" /\ outcome \in {"error", status}

\* Nothing is on record before the first kill; the exit checks follow a failed
\* kill of the tree and are bounded.
ProgressOnRecord ==
    /\ tpc \in {"idle", "start"} => failures = <<>> /\ checks = 0 /\ ~treeGone
    /\ tpc = "check" => managed /\ failures = <<"tree">> /\ checks < ExitChecks
    /\ tpc \in {"direct", "confirm"} /\ managed => Reported("tree")
    /\ tpc = "confirm" => Reported("child")

\* A tree that was gone stays gone, and a kill of the tree that is not reported
\* as failed reached all of it.
TreeIsAccountedFor ==
    /\ treeGone => group \cap alive = {}
    /\ managed /\ tpc \notin {"idle", "start"} /\ ~Reported("tree") => Untouched = {}

\* The blocking wait is entered only when a kill reached the child or the child
\* is out of reach of every kill; without a managed tree the direct kill alone
\* has to reach it.
ChildIsAccountedFor ==
    /\ tpc = "wait" => "child" \notin Untouched
    /\ outcome = "error" /\ "child" \in Untouched =>
          Reported("child") /\ (managed => Reported("tree"))
    /\ ~managed /\ tpc \in {"wait", "done"} /\ ~Reported("child") =>
          "child" \notin alive \ signalled

TerminatorInv ==
    /\ TerminatorTypeOK
    /\ StatusIsFinal
    /\ ProgressOnRecord
    /\ TreeIsAccountedFor
    /\ ChildIsAccountedFor

(***************************************************************************)
(* ProcessTerminator: it is inductive.                                     *)
(***************************************************************************)

\* The reports there are before anything is appended.
LEMMA ShortReports ==
    /\ <<>> \in Seq(CleanupFailure)
    /\ <<"tree">> \in Seq(CleanupFailure)
  BY DEF CleanupFailure

\* What is on record stays so when a failure is appended.
LEMMA ReportedStays ==
    ASSUME NEW failure \in CleanupFailure, NEW f \in CleanupFailure,
           failures \in Seq(CleanupFailure), failures' = Append(failures, f)
    PROVE  /\ Reported(failure) => Reported(failure)'
           /\ Reported(f)'
<1>1. Reported(failure) => Reported(failure)'
  BY DEF Reported
<1>2. Reported(f)'
  <2>1. Len(failures) + 1 \in DOMAIN failures' /\ failures'[Len(failures) + 1] = f
    OBVIOUS
  <2> QED
    BY <2>1 DEF Reported
<1> QED
  BY <1>1, <1>2

\* The invariant holds before the first call.
LEMMA TerminatorInvInit == TerminatorInit => TerminatorInv /\ ChildSpawned
<1> SUFFICES ASSUME TerminatorInit PROVE TerminatorInv /\ ChildSpawned
  OBVIOUS
<1> USE TerminatorAssumption DEF TerminatorInit
<1>1. TerminatorTypeOK
  <2>1. /\ alive \subseteq Process /\ group \subseteq Process /\ signalled \subseteq Process
        /\ status \in ExitStatus \cup {None}
    BY DEF ExitStatus
  <2>2. checks \in 0..ExitChecks
    OBVIOUS
  <2>3. failures \in Seq(CleanupFailure)
    OBVIOUS
  <2>4. managed \in BOOLEAN /\ treeGone \in BOOLEAN
    OBVIOUS
  <2> QED
    BY <2>1, <2>2, <2>3, <2>4 DEF TerminatorTypeOK, TerminatorPc
<1>2. StatusIsFinal
  BY DEF StatusIsFinal
<1>3. ProgressOnRecord /\ TreeIsAccountedFor /\ ChildIsAccountedFor
  BY DEF ProgressOnRecord, TreeIsAccountedFor, ChildIsAccountedFor
<1>4. ChildSpawned
  BY DEF ChildSpawned, Process
<1> QED
  BY <1>1, <1>2, <1>3, <1>4 DEF TerminatorInv

\* Whatever the processes do by themselves, at whatever point of terminate.
LEMMA ProcessStepInv ==
    ASSUME TerminatorInv, ProcessStep
    PROVE  TerminatorInv'
<1> USE TerminatorAssumption DEF TerminatorInv, callVars
<1>0. UNCHANGED <<callVars, managed, signalled>>
  BY DEF ProcessStep, ProcessExits, ChildLeavesGroup, ChildForks
<1>1. TerminatorTypeOK'
  BY <1>0 DEF ProcessStep, ProcessExits, ChildLeavesGroup, ChildForks,
              TerminatorTypeOK, Process, ExitStatus
<1>2. StatusIsFinal'
  BY <1>0 DEF ProcessStep, ProcessExits, ChildLeavesGroup, ChildForks,
              StatusIsFinal, TerminatorTypeOK, ExitStatus, Process
<1>3. ProgressOnRecord'
  BY <1>0 DEF ProgressOnRecord, Reported
<1>4. group' \cap alive' = {} \/ group \cap alive # {}
  BY DEF ProcessStep, ProcessExits, ChildLeavesGroup, ChildForks
<1>5. /\ "child" \in Untouched' => "child" \in Untouched
      /\ "child" \notin alive \ signalled => "child" \notin alive' \ signalled'
  BY <1>0 DEF ProcessStep, ProcessExits, ChildLeavesGroup, ChildForks, Untouched
<1>6. Untouched = {} => Untouched' = {}
  BY <1>0 DEF ProcessStep, ProcessExits, ChildLeavesGroup, ChildForks, Untouched
<1>7. TreeIsAccountedFor' /\ ChildIsAccountedFor'
  BY <1>0, <1>4, <1>5, <1>6 DEF TreeIsAccountedFor, ChildIsAccountedFor, Reported
<1> QED
  BY <1>1, <1>2, <1>3, <1>7

\* The call of terminate, with the status its caller has seen.
LEMMA TerminateInv ==
    ASSUME TerminatorInv, NEW seen, Terminate(seen)
    PROVE  TerminatorInv'
<1> USE DEF TerminatorInv, Terminate, Continue, processVars
<1>1. TerminatorTypeOK'
  BY DEF TerminatorTypeOK, TerminatorPc
<1>2. StatusIsFinal'
  BY DEF StatusIsFinal
<1>3. ProgressOnRecord' /\ TreeIsAccountedFor' /\ ChildIsAccountedFor'
  BY DEF ProgressOnRecord, TreeIsAccountedFor, ChildIsAccountedFor, Untouched, Reported
<1> QED
  BY <1>1, <1>2, <1>3

\* The kill of the tree that succeeds leaves no process of it untouched.
LEMMA KillTreeSucceedsInv ==
    ASSUME TerminatorInv, KillTreeSucceeds
    PROVE  TerminatorInv'
<1> USE TerminatorAssumption DEF TerminatorInv, KillTreeSucceeds, Continue, Return
<1>1. Untouched' = {}
  BY DEF Untouched
<1>2. TerminatorTypeOK'
  BY DEF TerminatorTypeOK, TerminatorPc, ExitStatus
<1>3. StatusIsFinal'
  BY DEF StatusIsFinal
<1>4. ProgressOnRecord' /\ TreeIsAccountedFor' /\ ChildIsAccountedFor'
  BY <1>1 DEF ProgressOnRecord, TreeIsAccountedFor, ChildIsAccountedFor, Reported
<1> QED
  BY <1>2, <1>3, <1>4

\* The kill of the tree that fails is on record, unless there was no tree.
LEMMA KillTreeFailsInv ==
    ASSUME TerminatorInv, NEW gone \in BOOLEAN, KillTreeFails(gone)
    PROVE  TerminatorInv'
<1> USE TerminatorAssumption
        DEF TerminatorInv, KillTreeFails, Continue, Return, processVars
<1>1. TerminatorTypeOK'
  <2>1. failures' \in Seq(CleanupFailure)
    BY ShortReports
  <2>2. treeGone' \in BOOLEAN /\ managed' \in BOOLEAN
    BY DEF TerminatorTypeOK
  <2> QED
    BY <2>1, <2>2 DEF TerminatorTypeOK, TerminatorPc, ExitStatus
<1>2. StatusIsFinal'
  BY DEF StatusIsFinal, TerminatorTypeOK, ExitStatus
<1>3. failures' = <<"tree">> => Reported("tree")'
  BY DEF Reported
<1>4. ProgressOnRecord'
  BY DEF ProgressOnRecord
<1>5. group \cap alive = {} => Untouched' = {}
  BY DEF Untouched
<1>6. TreeIsAccountedFor' /\ ChildIsAccountedFor'
  BY <1>3, <1>5 DEF TreeIsAccountedFor, ChildIsAccountedFor, StatusIsFinal,
                    TerminatorTypeOK, ExitStatus
<1> QED
  BY <1>1, <1>2, <1>4, <1>6

\* A command without a managed tree has nothing to report of one.
LEMMA SkipTreeInv ==
    ASSUME TerminatorInv, SkipTree
    PROVE  TerminatorInv'
<1> USE TerminatorAssumption DEF TerminatorInv, SkipTree, Continue, Return, processVars
<1>1. TerminatorTypeOK'
  BY DEF TerminatorTypeOK, TerminatorPc, ExitStatus
<1>2. StatusIsFinal'
  BY DEF StatusIsFinal, TerminatorTypeOK, ExitStatus
<1>3. ProgressOnRecord' /\ TreeIsAccountedFor' /\ ChildIsAccountedFor'
  BY DEF ProgressOnRecord, TreeIsAccountedFor, ChildIsAccountedFor, Reported,
         StatusIsFinal, TerminatorTypeOK, ExitStatus
<1> QED
  BY <1>1, <1>2, <1>3

\* The exit checks drop the failed kill only of a tree that was gone.
LEMMA CheckExitInv ==
    ASSUME TerminatorInv, CheckExit
    PROVE  TerminatorInv'
<1> USE TerminatorAssumption
        DEF TerminatorInv, Continue, Return, processVars, AfterCheck, FailuresAfterExit
<1>0. /\ managed /\ failures = <<"tree">> /\ checks < ExitChecks
      /\ tpc = "check" /\ UNCHANGED <<processVars, observed, treeGone>>
      /\ Reported("tree") /\ outcome = None
  BY DEF CheckExit, ProgressOnRecord, Reported, StatusIsFinal
<1>1. CASE status # None /\ failures' = FailuresAfterExit /\ Return(status)
           /\ UNCHANGED checks
  <2>1. failures' = IF treeGone THEN <<>> ELSE <<"tree">>
    BY <1>0, <1>1
  <2>2. TerminatorTypeOK'
    <3>1. failures' \in Seq(CleanupFailure)
      BY <2>1, ShortReports
    <3> QED
      BY <1>0, <1>1, <3>1 DEF TerminatorTypeOK, TerminatorPc, ExitStatus
  <2>3. StatusIsFinal' /\ ProgressOnRecord'
    BY <1>0, <1>1, <2>1 DEF StatusIsFinal, ProgressOnRecord
  <2>4. treeGone => Untouched' = {}
    BY <1>0 DEF TreeIsAccountedFor, Untouched
  <2>5. ~treeGone => Reported("tree")'
    BY <2>1 DEF Reported
  <2>6. status # "error"
    BY DEF TerminatorTypeOK, ExitStatus
  <2>7. TreeIsAccountedFor' /\ ChildIsAccountedFor'
    BY <1>0, <1>1, <2>4, <2>5, <2>6 DEF TreeIsAccountedFor, ChildIsAccountedFor,
                                       TerminatorTypeOK
  <2> QED
    BY <2>2, <2>3, <2>7
<1>2. CASE status = None /\ checks' = checks + 1 /\ Continue(AfterCheck(checks'))
           /\ UNCHANGED failures
  <2>1. TerminatorTypeOK'
    BY <1>0, <1>2 DEF TerminatorTypeOK, TerminatorPc
  <2>2. StatusIsFinal' /\ ProgressOnRecord'
    BY <1>0, <1>2 DEF StatusIsFinal, ProgressOnRecord, Reported
  <2>3. TreeIsAccountedFor' /\ ChildIsAccountedFor'
    BY <1>0, <1>2 DEF TreeIsAccountedFor, ChildIsAccountedFor, Reported
  <2> QED
    BY <2>1, <2>2, <2>3
<1>3. CASE failures' = Append(failures, "wait") /\ Continue("direct")
           /\ UNCHANGED checks
  <2>1. Reported("tree")'
    BY <1>0, <1>3 DEF Reported
  <2>2. TerminatorTypeOK'
    BY <1>0, <1>3 DEF TerminatorTypeOK, TerminatorPc, CleanupFailure
  <2>3. StatusIsFinal' /\ ProgressOnRecord'
    BY <1>0, <1>3, <2>1 DEF StatusIsFinal, ProgressOnRecord
  <2>4. TreeIsAccountedFor' /\ ChildIsAccountedFor'
    BY <1>0, <1>3, <2>1 DEF TreeIsAccountedFor, ChildIsAccountedFor
  <2> QED
    BY <2>2, <2>3, <2>4
<1> QED
  BY <1>1, <1>2, <1>3 DEF CheckExit

\* The direct kill reaches the child if there is one to reach.
LEMMA KillChildSucceedsInv ==
    ASSUME TerminatorInv, KillChildSucceeds
    PROVE  TerminatorInv'
<1> USE TerminatorAssumption DEF TerminatorInv, KillChildSucceeds, Continue
<1>1. TerminatorTypeOK'
  BY DEF TerminatorTypeOK, TerminatorPc, Process
<1>2. StatusIsFinal' /\ ProgressOnRecord'
  BY DEF StatusIsFinal, ProgressOnRecord
<1>3. "child" \notin Untouched' /\ Untouched' \subseteq Untouched
  BY DEF Untouched
<1>4. TreeIsAccountedFor' /\ ChildIsAccountedFor'
  BY <1>3 DEF TreeIsAccountedFor, ChildIsAccountedFor, Reported
<1> QED
  BY <1>1, <1>2, <1>4

\* A failed direct kill is on record next to that of the tree.
LEMMA KillChildFailsInv ==
    ASSUME TerminatorInv, KillChildFails
    PROVE  TerminatorInv'
<1> USE TerminatorAssumption DEF TerminatorInv, KillChildFails, Continue, processVars
<1>1. TerminatorTypeOK'
  BY DEF TerminatorTypeOK, TerminatorPc, CleanupFailure
<1>2. Reported("child")' /\ (Reported("tree") => Reported("tree")')
  BY ReportedStays DEF CleanupFailure, TerminatorTypeOK
<1>3. StatusIsFinal' /\ ProgressOnRecord'
  BY <1>2 DEF StatusIsFinal, ProgressOnRecord
<1>4. TreeIsAccountedFor' /\ ChildIsAccountedFor'
  BY <1>2 DEF TreeIsAccountedFor, ChildIsAccountedFor, Untouched
<1> QED
  BY <1>1, <1>3, <1>4

\* The last two steps return a status that is the child's, or an error after
\* what was tried.
LEMMA LastWaitInv ==
    ASSUME TerminatorInv, ConfirmExit \/ FinishWait
    PROVE  TerminatorInv'
<1> USE TerminatorAssumption DEF TerminatorInv, Return
<1>0. /\ tpc \in {"confirm", "wait"} /\ tpc' = "done"
      /\ UNCHANGED <<processVars, observed, treeGone, checks>>
      /\ outcome' \in ExitStatus \cup {"error"} /\ outcome' \in {"error", status}
      /\ failures' \in {failures, Append(failures, "wait")}
  BY DEF ConfirmExit, FinishWait, TerminatorTypeOK
<1> USE <1>0 DEF processVars
<1>1. failures' \in Seq(CleanupFailure)
  BY DEF TerminatorTypeOK, CleanupFailure
<1>2. TerminatorTypeOK'
  BY <1>1 DEF TerminatorTypeOK, TerminatorPc
<1>3. /\ Reported("tree") => Reported("tree")'
      /\ Reported("child") => Reported("child")'
  BY ReportedStays DEF CleanupFailure, TerminatorTypeOK, Reported
<1>4. StatusIsFinal' /\ ProgressOnRecord'
  BY DEF StatusIsFinal, ProgressOnRecord
<1>5. Untouched' = Untouched
  BY DEF Untouched
<1>6. TreeIsAccountedFor'
  BY <1>3, <1>5 DEF TreeIsAccountedFor
<1>7. ChildIsAccountedFor'
  BY <1>3, <1>5 DEF ChildIsAccountedFor, ProgressOnRecord
<1> QED
  BY <1>2, <1>4, <1>6, <1>7

\* Every step of terminate preserves the invariant.
LEMMA TerminatorStepInv ==
    ASSUME TerminatorInv, TerminatorStep
    PROVE  TerminatorInv'
<1>1. CASE KillTreeSucceeds
  BY <1>1, KillTreeSucceedsInv
<1>2. CASE \E gone \in BOOLEAN : KillTreeFails(gone)
  BY <1>2, KillTreeFailsInv
<1>3. CASE SkipTree
  BY <1>3, SkipTreeInv
<1>4. CASE CheckExit
  BY <1>4, CheckExitInv
<1>5. CASE KillChildSucceeds
  BY <1>5, KillChildSucceedsInv
<1>6. CASE KillChildFails
  BY <1>6, KillChildFailsInv
<1>7. CASE ConfirmExit \/ FinishWait
  BY <1>7, LastWaitInv
<1> QED
  BY <1>1, <1>2, <1>3, <1>4, <1>5, <1>6, <1>7 DEF TerminatorStep

\* A stuttering step too, also one that a composition sees as another step.
LEMMA TerminatorStutterInv ==
    ASSUME TerminatorInv, UNCHANGED terminatorVars
    PROVE  TerminatorInv'
  BY DEF terminatorVars, processVars, callVars, TerminatorInv, TerminatorTypeOK,
         StatusIsFinal, ProgressOnRecord, TreeIsAccountedFor, ChildIsAccountedFor,
         Untouched, Reported

\* A spawned child stays one that is alive or has a status, whoever acts.
LEMMA ChildSpawnedStep ==
    ASSUME ChildSpawned, TerminatorTypeOK, [TerminatorNext]_terminatorVars
    PROVE  ChildSpawned'
<1> USE TerminatorAssumption DEF ChildSpawned, terminatorVars, processVars, callVars
<1>1. CASE ProcessStep
  BY <1>1 DEF ProcessStep, ProcessExits, ChildLeavesGroup, ChildForks
<1>2. ASSUME NEW seen, Terminate(seen) PROVE ChildSpawned'
  BY <1>2 DEF Terminate
<1>3. CASE TerminatorStep
  BY <1>3 DEF TerminatorStep, KillTreeSucceeds, KillTreeFails, SkipTree, CheckExit,
              KillChildSucceeds, KillChildFails, ConfirmExit, FinishWait
<1>4. CASE UNCHANGED terminatorVars
  BY <1>4
<1> QED
  BY <1>1, <1>2, <1>3, <1>4 DEF TerminatorNext

\* The properties follow from the invariant.
LEMMA TerminationIsTrueByInv ==
    ASSUME TerminatorInv
    PROVE  TerminationIsTrue
<1> USE TerminatorAssumption DEF TerminatorInv
<1>1. SurvivorsReported
  BY DEF SurvivorsReported, TreeIsAccountedFor, Untouched
<1>2. StatusIsTrue
  BY DEF StatusIsTrue, StatusIsFinal, ExitStatus
<1>3. GivesUpAfterEveryKill
  BY DEF GivesUpAfterEveryKill, ChildIsAccountedFor, Untouched
<1> QED
  BY <1>1, <1>2, <1>3 DEF TerminationIsTrue

\* The invariant implies WaitsOnlyForKilledChild for a child that was spawned.
LEMMA WaitsOnlyForKilledChildByInv ==
    ASSUME TerminatorInv, tpc = "wait" => ChildSpawned
    PROVE  WaitsOnlyForKilledChild
  BY DEF TerminatorInv, WaitsOnlyForKilledChild, ChildSpawned, ChildIsAccountedFor,
         Untouched

(***************************************************************************)
(* ProcessTerminator: the theorem.                                         *)
(***************************************************************************)

\* Whatever the processes do and whichever calls fail: terminate reports every
\* survivor, returns the status the child died with, gives up only after every
\* kill, and blocks only on a child that a kill reached (process_terminator.rs).
THEOREM TerminatorSafety ==
    TerminatorSpec => [](TerminationIsTrue /\ WaitsOnlyForKilledChild)
<1> DEFINE Inv == TerminatorInv /\ ChildSpawned
<1>1. TerminatorInit => Inv
  BY TerminatorInvInit
<1>2. Inv /\ [TerminatorNext]_terminatorVars => Inv'
  <2> SUFFICES ASSUME Inv, [TerminatorNext]_terminatorVars PROVE Inv'
    OBVIOUS
  <2>1. TerminatorInv'
    BY ProcessStepInv, TerminateInv, TerminatorStepInv, TerminatorStutterInv
       DEF TerminatorNext
  <2>2. ChildSpawned'
    BY ChildSpawnedStep DEF TerminatorInv
  <2> QED
    BY <2>1, <2>2
<1>3. Inv => TerminationIsTrue /\ WaitsOnlyForKilledChild
  BY TerminationIsTrueByInv, WaitsOnlyForKilledChildByInv
<1> QED
  BY <1>1, <1>2, <1>3, PTL DEF TerminatorSpec

(***************************************************************************)
(* HelperFinalization: the inductive invariant.                            *)
(***************************************************************************)

\* Every helper up to the one being treated has been asked to stop, and all of
\* them have been before the first is waited for.
AskedInOrder ==
    /\ fpc = "idle" => turn = 1
    /\ fpc = "cancel" =>
          \A i \in 1..3 : i < turn /\ HelperOrder[i] \in present =>
              answer[HelperOrder[i]] # None
    /\ fpc \in {"finish", "done"} => \A h \in present : answer[h] # None

\* The helpers are finished one after the other, each of them once.
EndedInOrder ==
    /\ fpc \in {"idle", "cancel"} =>
          slept = 0 /\ retained = {} /\ \A h \in Helper : ended[h] = None
    /\ fpc = "finish" =>
          \A i \in 1..3 : HelperOrder[i] \in present =>
              (i < turn <=> ended[HelperOrder[i]] # None)
    /\ fpc = "done" => \A h \in present : ended[h] # None

\* A joined helper has returned, one that was let go is on record with its
\* cancellation failure, and nothing else is on record but real failures.
EndIsRecorded ==
    \A h \in Helper :
        /\ ended[h] = "joined" => h \notin running
        /\ ended[h] = "detached" => h \in retained /\ answer[h] # "ok"
        /\ h \in retained =>
              h \in present /\ ended[h] # None
                            /\ (ended[h] = "joined" => answer[h] = "failed")

\* Sleeping uses up the one window there is.
WindowShrinks == slept + left <= Window

FinalizationInv ==
    /\ FinalizationTypeOK
    /\ AskedInOrder
    /\ EndedInOrder
    /\ EndIsRecorded
    /\ WindowShrinks

(***************************************************************************)
(* HelperFinalization: it is inductive.                                    *)
(***************************************************************************)

\* Every helper has one turn.
LEMMA HelperOrderCovers ==
    /\ Len(HelperOrder) = 3
    /\ \A i \in 1..3 : HelperOrder[i] \in Helper
    /\ \A i, j \in 1..3 : HelperOrder[i] = HelperOrder[j] => i = j
    /\ \A h \in Helper : \E i \in 1..3 : HelperOrder[i] = h
<1>1. HelperOrder[1] = "stdout" /\ HelperOrder[2] = "stderr" /\ HelperOrder[3] = "stdin"
  BY DEF HelperOrder
<1>2. \A i \in 1..3 : i = 1 \/ i = 2 \/ i = 3
  OBVIOUS
<1>3. Len(HelperOrder) = 3
  BY DEF HelperOrder
<1> QED
  BY <1>1, <1>2, <1>3 DEF Helper

\* No helper was asked to stop.
LEMMA FinalizationInvInit == FinalizationInit => FinalizationInv
<1> SUFFICES ASSUME FinalizationInit PROVE FinalizationInv
  OBVIOUS
<1> USE FinalizationAssumption DEF FinalizationInit
<1>1. FinalizationTypeOK
  BY DEF FinalizationTypeOK
<1>2. AskedInOrder /\ EndedInOrder /\ EndIsRecorded /\ WindowShrinks
  BY DEF AskedInOrder, EndedInOrder, EndIsRecorded, WindowShrinks
<1> QED
  BY <1>1, <1>2 DEF FinalizationInv

\* A helper may return at any moment.
LEMMA HelperReturnsInv ==
    ASSUME FinalizationInv, NEW h \in Helper, HelperReturns(h)
    PROVE  FinalizationInv'
  BY DEF FinalizationInv, FinalizationTypeOK, AskedInOrder, EndedInOrder,
         EndIsRecorded, WindowShrinks, HelperReturns, finalizeVars

\* So may time pass, and the finalization begin.
LEMMA DeadlineNearsInv ==
    ASSUME FinalizationInv, DeadlineNears \/ BeginFinalization
    PROVE  FinalizationInv'
<1> USE FinalizationAssumption DEF FinalizationInv, helperVars
<1>1. CASE DeadlineNears
  BY <1>1 DEF DeadlineNears, FinalizationTypeOK, AskedInOrder, EndedInOrder,
              EndIsRecorded, WindowShrinks
<1>2. CASE BeginFinalization
  BY <1>2 DEF BeginFinalization, FinalizationTypeOK, AskedInOrder, EndedInOrder,
              EndIsRecorded, WindowShrinks
<1> QED
  BY <1>1, <1>2

\* Asking a helper to stop.
LEMMA CancelHelperInv ==
    ASSUME FinalizationInv, CancelHelper
    PROVE  FinalizationInv'
<1> USE FinalizationAssumption, HelperOrderCovers
    DEF FinalizationInv, CancelHelper, Current, Proceed, helperVars
<1>0. turn \in 1..3 /\ HelperOrder[turn] \in Helper
  BY DEF FinalizationTypeOK
<1>1. answer' \in [Helper -> CancelAnswer \cup {None}]
  BY <1>0 DEF FinalizationTypeOK
<1>2. FinalizationTypeOK'
  BY <1>0, <1>1 DEF FinalizationTypeOK
<1>3. /\ HelperOrder[turn] \in present => answer'[HelperOrder[turn]] # None
      /\ \A h \in Helper : h # HelperOrder[turn] => answer'[h] = answer[h]
  BY <1>0 DEF FinalizationTypeOK
<1>4. AskedInOrder'
  <2>1. CASE turn < 3
    BY <2>1, <1>0, <1>3 DEF AskedInOrder
  <2>2. CASE turn = 3
    <3>1. \A i \in 1..3 : HelperOrder[i] \in present => answer'[HelperOrder[i]] # None
      BY <2>2, <1>0, <1>3 DEF AskedInOrder
    <3> QED
      BY <2>2, <3>1 DEF AskedInOrder, FinalizationTypeOK
  <2> QED
    BY <1>0, <2>1, <2>2
<1>5. EndedInOrder'
  BY <1>0 DEF EndedInOrder
<1>6. EndIsRecorded' /\ WindowShrinks'
  BY DEF EndIsRecorded, WindowShrinks, EndedInOrder
<1> QED
  BY <1>2, <1>4, <1>5, <1>6

\* Passing over a helper that was never started.
LEMMA SkipAbsentHelperInv ==
    ASSUME FinalizationInv, SkipAbsentHelper
    PROVE  FinalizationInv'
<1> USE FinalizationAssumption, HelperOrderCovers
    DEF FinalizationInv, SkipAbsentHelper, Current, Proceed, helperVars
<1>0. turn \in 1..3 /\ HelperOrder[turn] \in Helper
  BY DEF FinalizationTypeOK
<1>1. FinalizationTypeOK'
  BY <1>0 DEF FinalizationTypeOK
<1>2. AskedInOrder' /\ EndIsRecorded' /\ WindowShrinks'
  BY <1>0 DEF AskedInOrder, EndIsRecorded, WindowShrinks
<1>3. EndedInOrder'
  BY <1>0 DEF EndedInOrder, FinalizationTypeOK
<1> QED
  BY <1>1, <1>2, <1>3

\* Finishing a helper, by joining it or by letting it go.
LEMMA EndHelperInv ==
    ASSUME FinalizationInv, JoinHelper \/ DetachHelper
    PROVE  FinalizationInv'
<1> USE FinalizationAssumption, HelperOrderCovers DEF FinalizationInv, helperVars
<1> DEFINE current == HelperOrder[turn]
<1>0. /\ turn \in 1..3 /\ current \in Helper /\ current \in present
      /\ fpc = "finish" /\ ended[current] = None
      /\ Proceed("done") /\ UNCHANGED <<helperVars, answer, slept, left>>
  BY DEF JoinHelper, DetachHelper, Current, KeepDeadline, FinalizationTypeOK, EndedInOrder
<1>1. \/ /\ current \notin running
         /\ ended' = [ended EXCEPT ![current] = "joined"]
         /\ retained' = IF answer[current] = "failed" THEN retained \cup {current}
                        ELSE retained
      \/ /\ answer[current] # "ok"
         /\ ended' = [ended EXCEPT ![current] = "detached"]
         /\ retained' = retained \cup {current}
  BY DEF JoinHelper, DetachHelper, Current, FailureRemains, Retain, CancelFailed
<1>2. /\ ended' \in [Helper -> {"joined", "detached", None}]
      /\ ended'[current] # None
      /\ \A h \in Helper : h # current => ended'[h] = ended[h]
  BY <1>0, <1>1 DEF FinalizationTypeOK
<1>3. FinalizationTypeOK'
  BY <1>0, <1>1, <1>2 DEF FinalizationTypeOK, Proceed
<1>4. AskedInOrder' /\ WindowShrinks'
  BY <1>0 DEF AskedInOrder, WindowShrinks, Proceed
<1>5. EndedInOrder'
  BY <1>0, <1>2 DEF EndedInOrder, Proceed, FinalizationTypeOK
<1>6. EndIsRecorded'
  <2> SUFFICES ASSUME NEW h \in Helper
               PROVE /\ ended'[h] = "joined" => h \notin running'
                     /\ ended'[h] = "detached" => h \in retained' /\ answer'[h] # "ok"
                     /\ h \in retained' =>
                          h \in present' /\ ended'[h] # None
                              /\ (ended'[h] = "joined" => answer'[h] = "failed")
    BY DEF EndIsRecorded
  <2>1. CASE h = current
    BY <2>1, <1>0, <1>1, <1>2 DEF EndIsRecorded, FinalizationTypeOK
  <2>2. CASE h # current
    BY <2>2, <1>0, <1>1, <1>2 DEF EndIsRecorded, FinalizationTypeOK
  <2> QED
    BY <2>1, <2>2
<1> QED
  BY <1>3, <1>4, <1>5, <1>6

\* Waiting for a helper takes from the window.
LEMMA SleepForHelperInv ==
    ASSUME FinalizationInv, SleepForHelper
    PROVE  FinalizationInv'
  BY FinalizationAssumption
     DEF FinalizationInv, FinalizationTypeOK, AskedInOrder, EndedInOrder,
         EndIsRecorded, WindowShrinks, SleepForHelper, helperVars

\* Every step of finish_helpers_with_wait preserves the invariant.
LEMMA FinalizeStepInv ==
    ASSUME FinalizationInv, FinalizeStep
    PROVE  FinalizationInv'
  BY CancelHelperInv, SkipAbsentHelperInv, EndHelperInv, SleepForHelperInv
     DEF FinalizeStep

\* Nothing changes in a stuttering step.
LEMMA FinalizationStutterInv ==
    ASSUME FinalizationInv, UNCHANGED finalizationVars
    PROVE  FinalizationInv'
  BY DEF finalizationVars, helperVars, finalizeVars, FinalizationInv,
         FinalizationTypeOK, AskedInOrder, EndedInOrder, EndIsRecorded, WindowShrinks

\* The properties follow from the invariant.
LEMMA HelpersReportedExactlyByInv ==
    ASSUME FinalizationInv
    PROVE  HelpersReportedExactly
<1> USE FinalizationAssumption DEF FinalizationInv
<1>1. SurvivingHelperReported
  BY DEF SurvivingHelperReported, EndedInOrder, EndIsRecorded, FinalizationTypeOK
<1>2. NoFalseAlarm
  BY DEF NoFalseAlarm, EndIsRecorded, FinalizationTypeOK
<1> QED
  BY <1>1, <1>2 DEF HelpersReportedExactly

\* The invariant implies OneSharedWait.
LEMMA OneSharedWaitByInv ==
    ASSUME FinalizationInv
    PROVE  OneSharedWait
<1> USE FinalizationAssumption DEF FinalizationInv
<1>1. AllAskedBeforeAnyWait
  BY DEF AllAskedBeforeAnyWait, AskedInOrder, EndedInOrder, FinalizationTypeOK
<1>2. OneWindowForAll
  BY DEF OneWindowForAll, WindowShrinks, FinalizationTypeOK
<1> QED
  BY <1>1, <1>2 DEF OneSharedWait

(***************************************************************************)
(* HelperFinalization: the theorem.                                        *)
(***************************************************************************)

\* Whatever cancel answers and whenever the helpers return: the helpers
\* reported are exactly those to report, and they share one window, which
\* opens after all were asked to stop (command_io.rs).
THEOREM FinalizationSafety ==
    FinalizationSpec => [](HelpersReportedExactly /\ OneSharedWait)
<1>1. FinalizationInit => FinalizationInv
  BY FinalizationInvInit
<1>2. FinalizationInv /\ [FinalizationNext]_finalizationVars => FinalizationInv'
  BY HelperReturnsInv, DeadlineNearsInv, FinalizeStepInv, FinalizationStutterInv
     DEF FinalizationNext
<1>3. FinalizationInv => HelpersReportedExactly /\ OneSharedWait
  BY HelpersReportedExactlyByInv, OneSharedWaitByInv
<1> QED
  BY <1>1, <1>2, <1>3, PTL DEF FinalizationSpec

(***************************************************************************)
(* How long stopping can take.  Each step of the calling thread lowers a   *)
(* count that no step of the child, the helpers or the clock raises: what  *)
(* remains of termination is a matter of the two places where it waits.    *)
(***************************************************************************)

\* The system calls that terminate has still to make, at most.
CallsLeft ==
    CASE tpc = "idle"              -> ExitChecks + 4
      [] tpc = "start"             -> ExitChecks + 3
      [] tpc = "check"             -> ExitChecks - checks + 2
      [] tpc = "direct"            -> 2
      [] tpc \in {"confirm", "wait"} -> 1
      [] tpc = "done"              -> 0

\* The helpers still to be asked and to be finished, and the sleeps there are.
VisitsLeft ==
    CASE fpc = "idle"   -> Window + 7
      [] fpc = "cancel" -> left + 7 - turn
      [] fpc = "finish" -> left + 4 - turn
      [] fpc = "done"   -> 0

\* The counts are bounded by the constants alone.
LEMMA CountsAreBounded ==
    /\ TerminatorInv => CallsLeft \in 0..(ExitChecks + 4)
    /\ FinalizationInv => VisitsLeft \in 0..(Window + 7)
<1>1. TerminatorInv => CallsLeft \in 0..(ExitChecks + 4)
  BY TerminatorAssumption DEF TerminatorInv, TerminatorTypeOK, TerminatorPc, CallsLeft
<1>2. FinalizationInv => VisitsLeft \in 0..(Window + 7)
  BY FinalizationAssumption DEF FinalizationInv, FinalizationTypeOK, VisitsLeft
<1> QED
  BY <1>1, <1>2

\* The counts are numbers, and so is their sum with a third one; the sum falls
\* with any of them.
CountsAreNumbers == CallsLeft \in Nat /\ VisitsLeft \in Nat

LEMMA SumOfCounts == \A a, b, c \in Nat : a + b + c \in Nat
OBVIOUS

NotRaised(old, new) == new < old \/ new = old

LEMMA SumFalls ==
    \A a, b, c, d, e, f \in Nat :
        NotRaised(d, a) /\ NotRaised(e, b) /\ NotRaised(f, c)
            => /\ a + b + c <= d + e + f
               /\ a < d \/ b < e \/ c < f => a + b + c < d + e + f
BY DEF NotRaised

\* Each call of terminate, and its being called, is one call less.
LEMMA CallsRunOut ==
    ASSUME TerminatorInv, TerminatorStep \/ \E seen \in {None, status} : Terminate(seen)
    PROVE  CallsLeft' < CallsLeft
<1> USE TerminatorAssumption DEF TerminatorInv, TerminatorTypeOK, CallsLeft, Continue, Return
<1>1. ExitChecks \in Nat /\ checks \in 0..ExitChecks
  OBVIOUS
<1>2. CASE \E seen \in {None, status} : Terminate(seen)
  BY <1>1, <1>2 DEF Terminate
<1>3. CASE KillTreeSucceeds \/ SkipTree \/ \E gone \in BOOLEAN : KillTreeFails(gone)
  <2>1. tpc = "start" /\ checks' = checks /\ checks = 0
    BY <1>3 DEF KillTreeSucceeds, SkipTree, KillTreeFails, ProgressOnRecord
  <2>2. tpc' \in {"wait", "check", "direct", "done"}
    BY <1>3 DEF KillTreeSucceeds, SkipTree, KillTreeFails
  <2> QED
    BY <1>1, <2>1, <2>2
<1>4. CASE CheckExit
  <2>1. tpc = "check" /\ checks < ExitChecks
    BY <1>4 DEF CheckExit, ProgressOnRecord
  <2>2. CASE tpc' \in {"done", "direct"}
    BY <1>1, <2>1, <2>2
  <2>3. CASE checks' = checks + 1 /\ tpc' = "check"
    BY <1>1, <2>1, <2>3
  <2> QED
    BY <1>4, <2>2, <2>3 DEF CheckExit, AfterCheck
<1>5. CASE KillChildSucceeds \/ KillChildFails \/ ConfirmExit \/ FinishWait
  BY <1>5 DEF KillChildSucceeds, KillChildFails, ConfirmExit, FinishWait
<1> QED
  BY <1>2, <1>3, <1>4, <1>5 DEF TerminatorStep

\* Each visit of a helper, each sleep and the call itself is one visit less.
LEMMA VisitsRunOut ==
    ASSUME FinalizationInv, FinalizeStep \/ BeginFinalization
    PROVE  VisitsLeft' < VisitsLeft
<1> USE FinalizationAssumption DEF FinalizationInv, FinalizationTypeOK, VisitsLeft
<1>1. Window \in Nat /\ left \in 0..Window /\ turn \in 1..3 /\ Len(HelperOrder) = 3
  BY HelperOrderCovers
<1>2. CASE BeginFinalization
  BY <1>1, <1>2 DEF BeginFinalization
<1>3. CASE CancelHelper
  <2>1. fpc = "cancel" /\ left' = left
    BY <1>3 DEF CancelHelper
  <2>2. \/ turn < 3 /\ turn' = turn + 1 /\ fpc' = "cancel"
        \/ turn' = 1 /\ turn = 3 /\ fpc' = "finish"
    BY <1>1, <1>3, <2>1 DEF CancelHelper, Proceed
  <2> QED
    BY <1>1, <2>1, <2>2
<1>4. CASE SkipAbsentHelper \/ JoinHelper \/ DetachHelper
  <2>1. fpc = "finish" /\ left' = left
    BY <1>4 DEF SkipAbsentHelper, JoinHelper, DetachHelper, KeepDeadline
  <2>2. \/ turn < 3 /\ turn' = turn + 1 /\ fpc' = "finish"
        \/ turn' = 1 /\ turn = 3 /\ fpc' = "done"
    BY <1>1, <1>4, <2>1 DEF SkipAbsentHelper, JoinHelper, DetachHelper, Proceed
  <2> QED
    BY <1>1, <2>1, <2>2
<1>5. CASE SleepForHelper
  BY <1>1, <1>5 DEF SleepForHelper
<1> QED
  BY <1>2, <1>3, <1>4, <1>5 DEF FinalizeStep

\* Neither the processes nor the helpers nor the clock give back what is left.
LEMMA CountsAreKept ==
    /\ TerminatorInv /\ (ProcessStep \/ UNCHANGED <<tpc, checks>>) => CallsLeft' = CallsLeft
    /\ FinalizationInv /\ UNCHANGED <<fpc, left, turn>> => VisitsLeft' = VisitsLeft
    /\ FinalizationInv /\ DeadlineNears => VisitsLeft' < VisitsLeft
<1>1. TerminatorInv /\ (ProcessStep \/ UNCHANGED <<tpc, checks>>) => CallsLeft' = CallsLeft
  <2>1. ProcessStep => UNCHANGED <<tpc, checks>>
    BY DEF ProcessStep, ProcessExits, ChildLeavesGroup, ChildForks, callVars
  <2> QED
    BY <2>1 DEF CallsLeft
<1>2. FinalizationInv /\ UNCHANGED <<fpc, left, turn>> => VisitsLeft' = VisitsLeft
  BY DEF VisitsLeft
<1>3. FinalizationInv /\ DeadlineNears => VisitsLeft' < VisitsLeft
  BY FinalizationAssumption
     DEF FinalizationInv, FinalizationTypeOK, VisitsLeft, DeadlineNears
<1> QED
  BY <1>1, <1>2, <1>3
=============================================================================
