----------------------- MODULE StartingCommandProofs -----------------------
(***************************************************************************)
(* Theorems about StartingCommand, for every set of run options and of     *)
(* faults.  What terminate and finish_helpers_with_wait do to their own    *)
(* state is cited from StoppingProofs; the invariant here says how far the *)
(* start has got, and what it has therefore spawned and launched.          *)
(***************************************************************************)
EXTENDS StartingCommand, StoppingProofs

(***************************************************************************)
(* The inductive invariant.                                                *)
(***************************************************************************)

\* Where there is no child yet.
Unspawned == BeforeStart \cup {"commit", "spawn", "refused"}

StartStateType ==
    /\ policy \in Policies
    /\ cancelled \in BOOLEAN /\ inTime \in BOOLEAN
    /\ touched \in BOOLEAN
    /\ helperFailed \subseteq Helper
    /\ spc \in BeforeStart \cup Starting \cup {"terminate", "finalize"} \cup Over
    /\ cause \in StartFaults \cup {"CancelledBeforeStart", None}
    /\ report \in [process : Seq(CleanupFailure), helpers : SUBSET Helper] \cup {None}

\* A start that did not get to the spawn has nothing to clean up; after it the
\* child leads the tree that the options ask for.
SpawnedOnce ==
    /\ spc \in Unspawned => /\ alive = {} /\ group = {} /\ signalled = {}
                            /\ status = None /\ present = {}
    /\ spc \notin Unspawned => ChildSpawned /\ managed = ManagesTree(policy)

\* The cleanup runs once, the child first and the helpers next.
CleanupInOrder ==
    /\ spc \notin {"terminate", "finalize", "returned"} => tpc = "idle"
    /\ spc \in {"finalize", "returned"} => tpc = "done"
    /\ spc \notin {"finalize", "returned"} => fpc = "idle"
    /\ spc = "finalize" => fpc # "idle"
    /\ spc = "returned" => fpc = "done"

\* What is reported is what the two halves of the cleanup recorded.
ReportIsCleanup ==
    IF spc = "returned"
    THEN /\ report \in [process : Seq(CleanupFailure), helpers : SUBSET Helper]
         /\ report.process = failures
         /\ retained \subseteq report.helpers
    ELSE report = None

WriterIfBytes == IF policy.bytes THEN {"stdin"} ELSE {}

\* The helpers launched at each step of the start.
LaunchedSoFar ==
    /\ spc \in {"clock", "stdin"} => present = {}
    /\ spc \in {"takeStdout", "takeStderr", "stdout"} => present = WriterIfBytes
    /\ spc = "stderr" => present = WriterIfBytes \cup {"stdout"}
    /\ spc \in {"elapsed", "handed"} => present = WriterIfBytes \cup {"stdout", "stderr"}

\* No file is touched before the last check, and a cancellation that came
\* before it is seen by it.
CancellationIsSeen ==
    /\ spc \in BeforeStart => ~touched
    /\ inTime => cancelled /\ ~touched /\ spc \in BeforeStart \cup {"refused"}

StartInv ==
    /\ TerminatorInv
    /\ FinalizationInv
    /\ StartStateType
    /\ SpawnedOnce
    /\ CleanupInOrder
    /\ ReportIsCleanup
    /\ LaunchedSoFar
    /\ CancellationIsSeen

(***************************************************************************)
(* It is inductive.                                                        *)
(***************************************************************************)

\* Nothing has been started.
LEMMA StartInvInit == StartInit => StartInv
<1> SUFFICES ASSUME StartInit PROVE StartInv
  OBVIOUS
<1> USE TerminatorAssumption, FinalizationAssumption DEF StartInit
<1>1. TerminatorInv
  <2>1. failures \in Seq(CleanupFailure) /\ checks \in 0..ExitChecks
    BY ShortReports
  <2>2. managed \in BOOLEAN /\ treeGone \in BOOLEAN
    OBVIOUS
  <2>3. TerminatorTypeOK
    BY <2>1, <2>2 DEF TerminatorTypeOK, TerminatorPc
  <2>4. StatusIsFinal /\ ProgressOnRecord /\ TreeIsAccountedFor /\ ChildIsAccountedFor
    BY DEF StatusIsFinal, ProgressOnRecord, TreeIsAccountedFor, ChildIsAccountedFor,
           Untouched
  <2> QED
    BY <2>3, <2>4 DEF TerminatorInv
<1>2. FinalizationInv
  BY FinalizationInvInit DEF FinalizationInit
<1>3. StartStateType
  <2>1. cancelled \in BOOLEAN /\ inTime \in BOOLEAN /\ touched \in BOOLEAN
    OBVIOUS
  <2> QED
    BY <2>1 DEF StartStateType, BeforeStart
<1>4. SpawnedOnce /\ CleanupInOrder /\ ReportIsCleanup /\ LaunchedSoFar
  BY DEF SpawnedOnce, CleanupInOrder, ReportIsCleanup, LaunchedSoFar, Unspawned,
         BeforeStart
<1>5. CancellationIsSeen
  BY DEF CancellationIsSeen
<1> QED
  BY <1>1, <1>2, <1>3, <1>4, <1>5 DEF StartInv

\* The steps of run_with that neither spawn nor launch anything.
LEMMA QuietStepInv ==
    ASSUME StartInv,
           \/ Enter \/ Prepare \/ CheckBeforeCommit \/ Commit \/ ReadClock
           \/ TakePipes \/ HandOver
    PROVE  StartInv'
<1> USE DEF StartInv, NoChild
<1>0. UNCHANGED <<terminatorVars, finalizationVars>>
  BY DEF Enter, Prepare, CheckBeforeCommit, Commit, ReadClock, TakePipes, HandOver
<1>1. TerminatorInv' /\ FinalizationInv'
  BY <1>0, TerminatorStutterInv, FinalizationStutterInv
<1> USE <1>0 DEF terminatorVars, finalizationVars, processVars, callVars,
                 helperVars, finalizeVars
<1>2. StartStateType'
  BY DEF Enter, Prepare, CheckBeforeCommit, Commit, ReadClock, TakePipes, HandOver,
         RefuseIfCancelled, Step, FailAt, StartStateType, BeforeStart, Starting, Over
<1>3. SpawnedOnce'
  BY DEF Enter, Prepare, CheckBeforeCommit, Commit, ReadClock, TakePipes, HandOver,
         RefuseIfCancelled, Step, FailAt, SpawnedOnce, Unspawned, BeforeStart,
         ChildSpawned
<1>4. CleanupInOrder' /\ ReportIsCleanup'
  BY DEF Enter, Prepare, CheckBeforeCommit, Commit, ReadClock, TakePipes, HandOver,
         RefuseIfCancelled, Step, FailAt, CleanupInOrder, ReportIsCleanup
<1>5. LaunchedSoFar'
  BY DEF Enter, Prepare, CheckBeforeCommit, Commit, ReadClock, TakePipes, HandOver,
         RefuseIfCancelled, Step, FailAt, LaunchedSoFar, WriterIfBytes
<1>6. CancellationIsSeen'
  BY DEF Enter, Prepare, CheckBeforeCommit, Commit, ReadClock, TakePipes, HandOver,
         RefuseIfCancelled, Step, FailAt, CancellationIsSeen, BeforeStart
<1> QED
  BY <1>1, <1>2, <1>3, <1>4, <1>5, <1>6

\* The child is spawned into a tree of its own, if the options ask for one.
LEMMA SpawnInv ==
    ASSUME StartInv, Spawn
    PROVE  StartInv'
<1> USE DEF StartInv
<1>1. CASE FailAt("spawn", "refused") /\ UNCHANGED <<terminatorVars, touched,
                                                      finalizationVars>>
  <2>1. TerminatorInv' /\ FinalizationInv'
    BY <1>1, TerminatorStutterInv, FinalizationStutterInv
  <2> USE DEF terminatorVars, finalizationVars, processVars, callVars,
              helperVars, finalizeVars, FailAt
  <2>2. StartStateType' /\ CancellationIsSeen'
    BY <1>1 DEF StartStateType, CancellationIsSeen, BeforeStart, Over
  <2>3. SpawnedOnce'
    BY <1>1 DEF SpawnedOnce, Unspawned, BeforeStart
  <2>4. CleanupInOrder' /\ ReportIsCleanup' /\ LaunchedSoFar'
    BY <1>1 DEF CleanupInOrder, ReportIsCleanup, LaunchedSoFar
  <2> QED
    BY <2>1, <2>2, <2>3, <2>4
<1>2. CASE /\ Step("spawn", "clock")
           /\ managed' = ManagesTree(policy)
           /\ alive' = {"child"} /\ group' = {"child"}
           /\ UNCHANGED <<signalled, status, callVars, touched, finalizationVars>>
  <2> USE <1>2 DEF Step
  <2>1. FinalizationInv'
    BY FinalizationStutterInv
  <2>2. /\ tpc = "idle" /\ status = None
        /\ alive = {} /\ signalled = {} /\ present = {} /\ fpc = "idle"
    BY DEF SpawnedOnce, CleanupInOrder, Unspawned, BeforeStart
  <2>3. managed' \in BOOLEAN
    BY StartAssumption DEF ManagesTree, StartStateType
  <2>4. TerminatorTypeOK'
    <3>1. TerminatorTypeOK
      BY DEF TerminatorInv
    <3>2. {"child"} \subseteq Process
      BY DEF Process
    <3> QED
      BY <2>3, <3>1, <3>2 DEF TerminatorTypeOK, callVars
  <2>5. TerminatorInv'
    BY <2>2, <2>4, TerminatorAssumption DEF TerminatorInv, StatusIsFinal, ProgressOnRecord,
          TreeIsAccountedFor, ChildIsAccountedFor, callVars, Reported
  <2>6. StartStateType' /\ CancellationIsSeen'
    BY DEF StartStateType, CancellationIsSeen, BeforeStart, Starting
  <2>7. SpawnedOnce'
    BY DEF SpawnedOnce, Unspawned, BeforeStart, ChildSpawned
  <2>8. CleanupInOrder' /\ ReportIsCleanup' /\ LaunchedSoFar'
    BY <2>2 DEF CleanupInOrder, ReportIsCleanup, LaunchedSoFar, callVars,
          finalizationVars, helperVars, finalizeVars
  <2> QED
    BY <2>1, <2>5, <2>6, <2>7, <2>8
<1> QED
  BY <1>1, <1>2 DEF Spawn

\* A helper is launched, and owned by the guard, while none is finalized.
LEMMA LaunchInv ==
    ASSUME FinalizationInv, fpc = "idle", NEW h \in Helper, LaunchGuarded(h),
           UNCHANGED finalizeVars
    PROVE  FinalizationInv'
  BY FinalizationAssumption
     DEF LaunchGuarded, Launch, finalizeVars, FinalizationInv, FinalizationTypeOK,
         AskedInOrder, EndedInOrder, EndIsRecorded, WindowShrinks

\* Starting the writer or a reader: it is launched, there is nothing to launch,
\* or the start fails and goes on to its cleanup.
LEMMA StartHelperInv ==
    ASSUME StartInv, StartStdin \/ StartReaders
    PROVE  StartInv'
<1> USE DEF StartInv
<1>0. /\ spc \in {"stdin", "stdout", "stderr"}
      /\ UNCHANGED <<touched, terminatorVars, finalizeVars>>
      /\ tpc = "idle" /\ fpc = "idle"
  BY DEF StartStdin, StartReaders, StartReader, Step, FailAt, CleanupInOrder
<1>1. TerminatorInv'
  BY <1>0, TerminatorStutterInv
<1>2. FinalizationInv'
  <2>1. UNCHANGED helperVars \/ \E h \in Helper : LaunchGuarded(h)
    BY DEF StartStdin, StartReaders, StartReader, Helper
  <2> QED
    BY <1>0, <2>1, LaunchInv, FinalizationStutterInv DEF finalizationVars
<1> USE <1>0 DEF terminatorVars, finalizeVars, processVars, callVars,
                 StartStdin, StartReaders, StartReader, Step, FailAt
<1>3. StartStateType' /\ CancellationIsSeen'
  BY DEF StartStateType, CancellationIsSeen, BeforeStart, Starting, Over
<1>4. SpawnedOnce'
  BY DEF SpawnedOnce, Unspawned, BeforeStart, ChildSpawned
<1>5. CleanupInOrder' /\ ReportIsCleanup'
  BY DEF CleanupInOrder, ReportIsCleanup
<1>6. LaunchedSoFar'
  BY DEF LaunchedSoFar, WriterIfBytes, LaunchGuarded, Launch, helperVars
<1> QED
  BY <1>1, <1>2, <1>3, <1>4, <1>5, <1>6

\* What others do: processes, helpers, the caller and time.
LEMMA EnvironmentInv ==
    ASSUME StartInv,
           ProcessActs \/ CallerCancels \/ TimePasses \/ \E h \in Helper : HelperActs(h)
    PROVE  StartInv'
<1> USE DEF StartInv
<1>1. CASE ProcessActs
  <2> USE <1>1 DEF ProcessActs, startVars
  <2>1. TerminatorInv' /\ FinalizationInv'
    BY ProcessStepInv, FinalizationStutterInv
  <2>2. UNCHANGED <<managed, signalled, callVars>>
    BY DEF ProcessStep, ProcessExits, ChildLeavesGroup, ChildForks, callVars
  <2>3. ChildSpawned => ChildSpawned'
    BY ChildSpawnedStep DEF TerminatorInv, TerminatorNext
  <2>4. spc \notin Unspawned
    BY DEF ProcessStep, ProcessExits, ChildLeavesGroup, ChildForks, SpawnedOnce
  <2>5. SpawnedOnce'
    BY <2>2, <2>3, <2>4 DEF SpawnedOnce
  <2>6. StartStateType' /\ CleanupInOrder' /\ ReportIsCleanup' /\ LaunchedSoFar'
        /\ CancellationIsSeen'
    BY <2>2 DEF StartStateType, CleanupInOrder, ReportIsCleanup, LaunchedSoFar,
                CancellationIsSeen, callVars, finalizationVars, helperVars, finalizeVars,
                WriterIfBytes
  <2> QED
    BY <2>1, <2>5, <2>6
<1>2. CASE CallerCancels
  <2> USE <1>2 DEF CallerCancels
  <2>1. TerminatorInv' /\ FinalizationInv'
    BY TerminatorStutterInv, FinalizationStutterInv
  <2> USE DEF terminatorVars, finalizationVars, processVars, callVars,
              helperVars, finalizeVars
  <2>2. StartStateType' /\ CancellationIsSeen'
    BY DEF StartStateType, CancellationIsSeen
  <2>3. SpawnedOnce' /\ CleanupInOrder' /\ ReportIsCleanup' /\ LaunchedSoFar'
    BY DEF SpawnedOnce, CleanupInOrder, ReportIsCleanup, LaunchedSoFar, ChildSpawned,
           WriterIfBytes
  <2> QED
    BY <2>1, <2>2, <2>3
<1>3. CASE TimePasses
  <2> USE <1>3 DEF TimePasses, DeadlineNears, startVars
  <2>1. TerminatorInv' /\ FinalizationInv'
    BY TerminatorStutterInv, DeadlineNearsInv
  <2> USE DEF terminatorVars, processVars, callVars, helperVars
  <2>2. StartStateType' /\ SpawnedOnce' /\ CleanupInOrder' /\ ReportIsCleanup'
        /\ LaunchedSoFar' /\ CancellationIsSeen'
    BY DEF StartStateType, SpawnedOnce, CleanupInOrder, ReportIsCleanup, LaunchedSoFar,
           CancellationIsSeen, ChildSpawned, WriterIfBytes
  <2> QED
    BY <2>1, <2>2
<1>4. ASSUME NEW h \in Helper, HelperActs(h) PROVE StartInv'
  <2> USE <1>4 DEF HelperActs, HelperReturns
  <2>1. TerminatorInv' /\ FinalizationInv'
    BY TerminatorStutterInv, HelperReturnsInv
  <2> USE DEF terminatorVars, processVars, callVars, finalizeVars
  <2>2. StartStateType'
    BY DEF StartStateType
  <2>3. SpawnedOnce' /\ CleanupInOrder' /\ ReportIsCleanup'
        /\ LaunchedSoFar' /\ CancellationIsSeen'
    BY DEF SpawnedOnce, CleanupInOrder, ReportIsCleanup, LaunchedSoFar,
           CancellationIsSeen, ChildSpawned, WriterIfBytes
  <2> QED
    BY <2>1, <2>2, <2>3
<1> QED
  BY <1>1, <1>2, <1>3, <1>4

\* The steps of StartingCommand::cleanup.
LEMMA CleanupStepInv ==
    ASSUME StartInv, CleanupStep
    PROVE  StartInv'
<1> USE DEF StartInv
<1>1. CASE BeginCleanup \/ TerminationStep
  <2>0. /\ spc = "terminate" /\ UNCHANGED <<finalizationVars, startVars>>
        /\ TerminatorNext
        /\ UNCHANGED managed /\ (Terminate(None) \/ TerminatorStep)
    BY <1>1 DEF BeginCleanup, TerminationStep, TerminatorNext, Terminate, processVars,
          TerminatorStep, KillTreeSucceeds, KillTreeFails, SkipTree, CheckExit,
          KillChildSucceeds, KillChildFails, ConfirmExit, FinishWait
  <2>1. TerminatorInv' /\ FinalizationInv'
    BY <2>0, TerminateInv, TerminatorStepInv, FinalizationStutterInv
  <2> USE <2>0 DEF startVars, finalizationVars, helperVars, finalizeVars
  <2>2. SpawnedOnce'
    BY ChildSpawnedStep DEF SpawnedOnce, TerminatorInv, Unspawned, BeforeStart
  <2>3. StartStateType' /\ CleanupInOrder' /\ ReportIsCleanup' /\ LaunchedSoFar'
        /\ CancellationIsSeen'
    BY DEF StartStateType, CleanupInOrder, ReportIsCleanup, LaunchedSoFar,
           CancellationIsSeen
  <2> QED
    BY <2>1, <2>2, <2>3
<1>2. CASE AfterTermination
  <2> USE <1>2 DEF AfterTermination, GoOnToHelpers
  <2>1. TerminatorInv' /\ FinalizationInv'
    BY TerminatorStutterInv, DeadlineNearsInv
  <2> USE DEF BeginFinalization, terminatorVars, processVars, callVars, helperVars
  <2>2. StartStateType' /\ SpawnedOnce' /\ CancellationIsSeen'
    BY DEF StartStateType, SpawnedOnce, CancellationIsSeen, Unspawned, BeforeStart,
           ChildSpawned
  <2>3. CleanupInOrder' /\ ReportIsCleanup' /\ LaunchedSoFar'
    BY DEF CleanupInOrder, ReportIsCleanup, LaunchedSoFar
  <2> QED
    BY <2>1, <2>2, <2>3
<1>3. CASE FinalizationStep
  <2> USE <1>3 DEF FinalizationStep
  <2>1. TerminatorInv' /\ FinalizationInv'
    BY TerminatorStutterInv, FinalizeStepInv
  <2>2. fpc # "idle" => fpc' # "idle"
    BY DEF FinalizeStep, CancelHelper, SkipAbsentHelper, JoinHelper, SleepForHelper,
           DetachHelper, Proceed
  <2>3. UNCHANGED present
    BY DEF FinalizeStep, CancelHelper, SkipAbsentHelper, JoinHelper, SleepForHelper,
           DetachHelper, helperVars
  <2> USE DEF startVars, terminatorVars, processVars, callVars
  <2>4. StartStateType' /\ SpawnedOnce' /\ CancellationIsSeen'
    BY <2>3 DEF StartStateType, SpawnedOnce, CancellationIsSeen, ChildSpawned
  <2>5. CleanupInOrder' /\ ReportIsCleanup' /\ LaunchedSoFar'
    BY <2>2, <2>3 DEF CleanupInOrder, ReportIsCleanup, LaunchedSoFar
  <2> QED
    BY <2>1, <2>4, <2>5
<1>4. CASE ReturnAborted
  <2> USE <1>4 DEF ReturnAborted
  <2>1. TerminatorInv' /\ FinalizationInv'
    BY TerminatorStutterInv, FinalizationStutterInv
  <2>2. /\ CleanupReport \in [process : Seq(CleanupFailure), helpers : SUBSET Helper]
        /\ CleanupReport.process = failures
        /\ retained \subseteq CleanupReport.helpers
    BY DEF CleanupReport, TerminatorInv, TerminatorTypeOK, FinalizationInv,
           FinalizationTypeOK, StartStateType
  <2> USE DEF terminatorVars, processVars, callVars, finalizationVars, helperVars,
              finalizeVars
  <2>3. StartStateType' /\ ReportIsCleanup'
    BY <2>2 DEF StartStateType, ReportIsCleanup, Over
  <2>4. SpawnedOnce' /\ CancellationIsSeen' /\ CleanupInOrder' /\ LaunchedSoFar'
    BY DEF SpawnedOnce, CancellationIsSeen, Unspawned, BeforeStart, ChildSpawned,
           CleanupInOrder, LaunchedSoFar
  <2> QED
    BY <2>1, <2>3, <2>4
<1> QED
  BY <1>1, <1>2, <1>3, <1>4 DEF CleanupStep

\* All of it: the invariant of every start.
LEMMA StartInvStep == StartInv /\ [StartNext]_startingVars => StartInv'
<1> SUFFICES ASSUME StartInv, [StartNext]_startingVars PROVE StartInv'
  OBVIOUS
<1>1. CASE StartStep
  BY <1>1, QuietStepInv, SpawnInv, StartHelperInv DEF StartStep
<1>2. CASE CleanupStep
  BY <1>2, CleanupStepInv
<1>3. CASE ProcessActs \/ CallerCancels \/ TimePasses \/ \E h \in Helper : HelperActs(h)
  BY <1>3, EnvironmentInv
<1>4. CASE UNCHANGED startingVars
  <2> USE <1>4 DEF startingVars, startVars
  <2>1. TerminatorInv' /\ FinalizationInv'
    BY TerminatorStutterInv, FinalizationStutterInv DEF StartInv
  <2> USE DEF terminatorVars, processVars, callVars, finalizationVars, helperVars,
              finalizeVars
  <2>2. StartStateType' /\ SpawnedOnce' /\ CleanupInOrder'
        /\ ReportIsCleanup' /\ LaunchedSoFar' /\ CancellationIsSeen'
    BY DEF StartInv, StartStateType, SpawnedOnce, CleanupInOrder, ReportIsCleanup,
           LaunchedSoFar, CancellationIsSeen, ChildSpawned, WriterIfBytes
  <2> QED
    BY <2>1, <2>2 DEF StartInv
<1> QED
  BY <1>1, <1>2, <1>3, <1>4 DEF StartNext, RunnerStep

\* The invariant of a start.
LEMMA StartInvAlways == StartSpec => []StartInv
  BY StartInvInit, StartInvStep, PTL DEF StartSpec

(***************************************************************************)
(* The theorems.                                                           *)
(***************************************************************************)

\* Every variable keeps its type, in a start that fails at any step too.
THEOREM StartTypeCorrect == StartSpec => []StartTypeOK
<1>1. StartInv => StartTypeOK
  BY DEF StartInv, TerminatorInv, FinalizationInv, StartStateType, StartTypeOK
<1> QED
  BY <1>1, StartInvAlways, PTL

\* A start that fails after the spawn has killed its child, and the tree the
\* options ask for, or reports that it could not (StartingCommand::cleanup).
THEOREM FailedStartKills == StartSpec => []FailedStartKillsChild
<1>1. StartInv => FailedStartKillsChild
  <2> SUFFICES ASSUME StartInv, spc = "returned", ~Blamed("tree"), ~Blamed("child")
               PROVE  IF policy.timeout \/ policy.token \/ policy.budget
                      THEN group \cap alive \subseteq signalled
                      ELSE "child" \in alive => "child" \in signalled
    BY DEF FailedStartKillsChild
  <2> USE DEF StartInv
  <2>1. ~Reported("tree") /\ ~Reported("child")
    BY DEF ReportIsCleanup, Blamed, Reported
  <2>2. tpc = "done" /\ managed = ManagesTree(policy)
    BY DEF CleanupInOrder, SpawnedOnce, Unspawned, BeforeStart
  <2>3. managed => Untouched = {}
    BY <2>1, <2>2 DEF TerminatorInv, TreeIsAccountedFor
  <2>4. ~managed => "child" \notin alive \ signalled
    BY <2>1, <2>2 DEF TerminatorInv, ChildIsAccountedFor
  <2> QED
    BY <2>2, <2>3, <2>4 DEF ManagesTree, Untouched
<1> QED
  BY <1>1, StartInvAlways, PTL

\* No helper outlives a failed start without being reported
\* (cancel_and_join_started_helpers).
THEOREM FailedStartLeavesNoHelper == StartSpec => []FailedStartEndsHelpers
<1>1. StartInv => FailedStartEndsHelpers
  <2> SUFFICES ASSUME StartInv, spc \in {"refused", "returned"}
               PROVE  running \subseteq (IF report = None THEN {} ELSE report.helpers)
    BY DEF FailedStartEndsHelpers
  <2> USE DEF StartInv
  <2>1. CASE spc = "refused"
    BY <2>1 DEF SpawnedOnce, Unspawned, FinalizationInv, FinalizationTypeOK
  <2>2. CASE spc = "returned"
    <3>1. report # None /\ retained \subseteq report.helpers
      BY <2>2, StartAssumption DEF ReportIsCleanup
    <3>2. running \subseteq retained
      BY <2>2, HelpersReportedExactlyByInv
         DEF CleanupInOrder, HelpersReportedExactly, SurvivingHelperReported,
             FinalizationInv, FinalizationTypeOK
    <3> QED
      BY <3>1, <3>2
  <2> QED
    BY <2>1, <2>2
<1> QED
  BY <1>1, StartInvAlways, PTL

\* The monitor is handed what its model starts from (StartingCommand::finish).
THEOREM HandsOverWhole == StartSpec => []HandsOverWholeCommand
<1>1. StartInv => HandsOverWholeCommand
  BY DEF StartInv, HandsOverWholeCommand, CleanupInOrder, SpawnedOnce, LaunchedSoFar,
         WriterIfBytes, Unspawned, BeforeStart, ChildSpawned, ManagesTree,
         FinalizationInv, FinalizationTypeOK
<1> QED
  BY <1>1, StartInvAlways, PTL

\* A cancellation that comes in time prevents everything that would be seen
\* outside (the two checks of run_with).
THEOREM CancelledStartIsRefused == StartSpec => []CancelledStartDoesNothing
<1>1. StartInv => CancelledStartDoesNothing
  BY DEF StartInv, CancelledStartDoesNothing, CancellationIsSeen, SpawnedOnce, Unspawned
<1> QED
  BY <1>1, StartInvAlways, PTL

\* What terminate and finish_helpers_with_wait promise, they keep for a start
\* that fails with any part of the command running.
THEOREM FailedStartStopsTruly ==
    StartSpec => [](/\ TerminationIsTrue /\ WaitsOnlyForKilledChild
                    /\ HelpersReportedExactly /\ OneSharedWait)
<1>1. StartInv => /\ TerminationIsTrue /\ WaitsOnlyForKilledChild
                  /\ HelpersReportedExactly /\ OneSharedWait
  <2> SUFFICES ASSUME StartInv
               PROVE  /\ TerminationIsTrue /\ WaitsOnlyForKilledChild
                      /\ HelpersReportedExactly /\ OneSharedWait
    OBVIOUS
  <2> USE DEF StartInv
  <2>1. TerminationIsTrue /\ HelpersReportedExactly /\ OneSharedWait
    BY TerminationIsTrueByInv, HelpersReportedExactlyByInv, OneSharedWaitByInv
  <2>2. tpc = "wait" => ChildSpawned
    BY DEF SpawnedOnce, CleanupInOrder, Unspawned, BeforeStart
  <2> QED
    BY <2>1, <2>2, WaitsOnlyForKilledChildByInv
<1> QED
  BY <1>1, StartInvAlways, PTL

(***************************************************************************)
(* The hand-over to RunningCommand.                                        *)
(***************************************************************************)

CONSTANT Timeout   \* the timeout of the run, in ticks

\* What a start does not look at: whether a reader has passed the limit, and how
\* many ticks have passed since the clock was read.
VARIABLES exceeded, elapsed

\* The options that the monitor looks at.
MonitorOptions(p) == [timeout |-> p.timeout, token |-> p.token, budget |-> p.budget]

\* The run that a start hands over, before its first poll.  Any helper may fail,
\* and so may the clock.
Monitor ==
    INSTANCE RunningCommand WITH
        Policies     <- {MonitorOptions(p) : p \in Policies},
        policy       <- MonitorOptions(policy),
        MayFail      <- Helper,
        ClockMayFail <- TRUE,
        rpc          <- "exceeded",
        loop         <- "run",
        collected    <- None,
        reason       <- None,
        returned     <- None

\* The start is over, and whatever the readers and the clock did meanwhile.
HandedOver ==
    /\ spc = "handed"
    /\ elapsed \in 0..Timeout
    /\ exceeded \in BOOLEAN /\ (exceeded => policy.budget)

\* Up to the hand-over nothing has been killed, cancelled or waited for.
CleanupUntried ==
    spc \notin {"terminate", "finalize", "returned"} =>
        /\ signalled = {} /\ status # "killed"
        /\ tpc = "idle" /\ observed = None /\ treeGone = FALSE
        /\ checks = 0 /\ failures = <<>> /\ outcome = None
        /\ fpc = "idle" /\ turn = 1 /\ answer = [h \in Helper |-> None]
        /\ left = Window /\ slept = 0
        /\ ended = [h \in Helper |-> None] /\ retained = {}

\* A helper is known to have failed when it has returned, and a cancellation is
\* that of a token.
HandOverInv ==
    /\ CleanupUntried
    /\ helperFailed \subseteq present \ running
    /\ cancelled => policy.token

\* No helper has been launched and no kill been made on entry.
LEMMA HandOverInvInit == StartInit => HandOverInv
  BY TerminatorAssumption DEF StartInit, HandOverInv, CleanupUntried

\* The steps of run_with: each helper is launched once.
LEMMA StartStepHandsOver ==
    ASSUME StartInv, HandOverInv, StartStep
    PROVE  HandOverInv'
<1> USE DEF HandOverInv
<1>1. UNCHANGED <<signalled, callVars, finalizeVars, helperFailed, policy>>
      /\ cancelled' = cancelled
  BY DEF StartStep, Enter, Prepare, CheckBeforeCommit, Commit, Spawn, ReadClock,
         StartStdin, TakePipes, StartReaders, StartReader, HandOver, NoChild, Step,
         FailAt, RefuseIfCancelled, terminatorVars, processVars, finalizationVars
<1>2. status' = status /\ spc \notin {"terminate", "finalize", "returned"}
  BY DEF StartStep, Enter, Prepare, CheckBeforeCommit, Commit, Spawn, ReadClock,
         StartStdin, TakePipes, StartReaders, StartReader, HandOver, NoChild, Step,
         FailAt, RefuseIfCancelled, terminatorVars, processVars
<1>3. \/ UNCHANGED helperVars
      \/ \E h \in Helper : h \notin present /\ Launch(h)
  <2>1. UNCHANGED helperVars \/ StartStdin \/ StartReaders
    BY DEF StartStep, Enter, Prepare, CheckBeforeCommit, Commit, Spawn, ReadClock,
           TakePipes, HandOver, NoChild, finalizationVars
  <2>2. CASE StartStdin
    BY <2>2 DEF StartStdin, LaunchGuarded, Step, StartInv, LaunchedSoFar, Helper
  <2>3. CASE StartReaders
    BY <2>3 DEF StartReaders, StartReader, LaunchGuarded, Step, StartInv, LaunchedSoFar,
                WriterIfBytes, Helper
  <2> QED
    BY <2>1, <2>2, <2>3
<1>4. CleanupUntried'
  BY <1>1, <1>2 DEF CleanupUntried, callVars, finalizeVars
<1>5. helperFailed' \subseteq present' \ running'
  BY <1>1, <1>3 DEF helperVars, Launch
<1> QED
  BY <1>1, <1>4, <1>5

\* The cleanup, after which nothing is handed over, keeps the rest.
LEMMA CleanupStepHandsOver ==
    ASSUME HandOverInv, CleanupStep
    PROVE  HandOverInv'
<1> USE DEF HandOverInv
<1>1. spc' \in {"terminate", "finalize", "returned"}
  BY DEF CleanupStep, BeginCleanup, TerminationStep, AfterTermination, GoOnToHelpers,
         FinalizationStep, ReturnAborted, startVars
<1>2. UNCHANGED <<helperVars, helperFailed, cancelled, policy>>
  BY DEF CleanupStep, BeginCleanup, TerminationStep, AfterTermination, FinalizationStep,
         ReturnAborted, startVars, finalizationVars, BeginFinalization, FinalizeStep,
         CancelHelper, SkipAbsentHelper, JoinHelper, SleepForHelper, DetachHelper
<1> QED
  BY <1>1, <1>2 DEF CleanupUntried, helperVars

\* The child, the helpers, the caller and the clock.
LEMMA EnvironmentHandsOver ==
    ASSUME StartInv, HandOverInv,
           ProcessActs \/ CallerCancels \/ TimePasses \/ \E h \in Helper : HelperActs(h)
    PROVE  HandOverInv'
<1> USE DEF HandOverInv
<1>1. CASE ProcessActs
  <2>1. UNCHANGED <<signalled, callVars, finalizationVars, startVars>>
    BY <1>1 DEF ProcessActs, ProcessStep, ProcessExits, ChildLeavesGroup, ChildForks
  <2>2. signalled = {} /\ status # "killed" => status' # "killed"
    BY <1>1 DEF ProcessActs, ProcessStep, ProcessExits, ChildLeavesGroup, ChildForks
  <2> QED
    BY <2>1, <2>2 DEF CleanupUntried, callVars, finalizationVars, helperVars,
                      finalizeVars, startVars
<1>2. CASE CallerCancels
  BY <1>2 DEF CallerCancels, CleanupUntried, terminatorVars, processVars, callVars,
              finalizationVars, helperVars, finalizeVars
<1>3. CASE TimePasses
  <2>1. spc \in {"terminate", "finalize", "returned"}
    BY <1>3 DEF TimePasses, DeadlineNears, StartInv, CleanupInOrder
  <2> QED
    BY <1>3, <2>1 DEF TimePasses, DeadlineNears, CleanupUntried, helperVars, startVars
<1>4. ASSUME NEW h \in Helper, HelperActs(h)
      PROVE  HandOverInv'
  <2>1. helperFailed' \subseteq present' \ running'
    BY <1>4 DEF HelperActs, HelperReturns, StartInv, FinalizationInv, FinalizationTypeOK
  <2> QED
    BY <1>4, <2>1 DEF HelperActs, HelperReturns, CleanupUntried, terminatorVars,
                      processVars, callVars, finalizeVars
<1> QED
  BY <1>1, <1>2, <1>3, <1>4

\* Every step of a start keeps the state that is handed over.
LEMMA HandOverInvStep ==
    StartInv /\ HandOverInv /\ [StartNext]_startingVars => HandOverInv'
<1> SUFFICES ASSUME StartInv, HandOverInv, [StartNext]_startingVars
             PROVE  HandOverInv'
  OBVIOUS
<1>1. CASE UNCHANGED startingVars
  BY <1>1 DEF startingVars, startVars, HandOverInv, CleanupUntried, terminatorVars,
              processVars, callVars, finalizationVars, helperVars, finalizeVars
<1> QED
  BY <1>1, StartStepHandsOver, CleanupStepHandsOver, EnvironmentHandsOver
  DEF StartNext, RunnerStep

\* Every state that a start hands over is one in which RunningCommand begins: the
\* theorems about a run hold of the run that follows, whatever the child, the
\* helpers and the caller did since the spawn (StartingCommand::finish, the call
\* of wait_for_completion in run_with).
THEOREM HandOverStartsRun == StartSpec => [](HandedOver => Monitor!RunInit)
<1>1. ASSUME StartInv, HandOverInv, HandedOver
      PROVE  Monitor!RunInit
  <2> USE <1>1 DEF StartInv, HandedOver
  <2>1. CleanupUntried /\ helperFailed \subseteq present \ running
        /\ (cancelled => policy.token)
    BY DEF HandOverInv
  <2>2. ChildSpawned /\ managed = ManagesTree(policy)
    BY DEF SpawnedOnce, Unspawned, BeforeStart
  <2>3. /\ alive \subseteq Process /\ group \subseteq Process /\ managed \in BOOLEAN
        /\ status \in ExitStatus \cup {None}
        /\ (status # None => "child" \notin alive)
    BY DEF TerminatorInv, TerminatorTypeOK, StatusIsFinal
  <2>4. Monitor!TerminatorInit
    <3>1. status = IF "child" \in alive THEN None ELSE "exited"
      BY <2>1, <2>2, <2>3 DEF ChildSpawned, CleanupUntried, ExitStatus
    <3> QED
      BY <2>1, <2>2, <2>3, <3>1
      DEF Monitor!TerminatorInit, ChildSpawned, CleanupUntried, Process,
          Monitor!Process
  <2>5. present \subseteq Helper /\ running \subseteq present
    BY DEF FinalizationInv, FinalizationTypeOK
  <2>6. Monitor!FinalizationInit
    BY <2>1, <2>5 DEF Monitor!FinalizationInit, CleanupUntried, Helper, Monitor!Helper
  <2>7. policy \in Policies /\ cancelled \in BOOLEAN
    BY DEF StartStateType
  <2>8. managed = Monitor!Monitored(MonitorOptions(policy))
    BY <2>2 DEF ManagesTree, MonitorOptions, Monitor!Monitored
  <2>9. {"stdout", "stderr"} \subseteq present
    BY DEF LaunchedSoFar
  <2>10. /\ cancelled => MonitorOptions(policy).token
         /\ exceeded => MonitorOptions(policy).budget
    BY <2>1 DEF MonitorOptions
  <2>11. helperFailed \in SUBSET (Helper \cap (present \ running))
    BY <2>1, <2>5
  <2> QED
    BY <2>4, <2>6, <2>7, <2>8, <2>9, <2>10, <2>11 DEF Monitor!RunInit
<1>2. StartSpec => [](StartInv /\ HandOverInv)
  BY StartInvInit, StartInvStep, HandOverInvInit, HandOverInvStep, PTL DEF StartSpec
<1>3. StartInv /\ HandOverInv => (HandedOver => Monitor!RunInit)
  BY <1>1
<1> QED
  BY <1>2, <1>3, PTL

(***************************************************************************)
(* How long a start takes.                                                 *)
(***************************************************************************)

\* The places of run_with that are still ahead.
PlacesLeft ==
    CASE spc = "entry"      -> 13
      [] spc = "prepare"    -> 12
      [] spc = "lastCheck"  -> 11
      [] spc = "commit"     -> 10
      [] spc = "spawn"      -> 9
      [] spc = "clock"      -> 8
      [] spc = "stdin"      -> 7
      [] spc = "takeStdout" -> 6
      [] spc = "takeStderr" -> 5
      [] spc = "stdout"     -> 4
      [] spc = "stderr"     -> 3
      [] spc = "elapsed"    -> 2
      [] spc \in {"terminate", "finalize"} -> 1
      [] spc \in Over       -> 0

\* The steps that a start has still to make, at most, cleanup included.
StartStepsLeft == CallsLeft + VisitsLeft + PlacesLeft

\* A start uses them up, and nothing that happens meanwhile gives one back.
StartRunsOut ==
    /\ RunnerStep => StartStepsLeft' < StartStepsLeft
    /\ StartStepsLeft' <= StartStepsLeft

\* The counts are numbers.
LEMMA StartCountType ==
    StartInv => /\ CountsAreNumbers
                /\ PlacesLeft \in Nat
                /\ StartStepsLeft \in 0..(ExitChecks + Window + 24)
<1> SUFFICES ASSUME StartInv
             PROVE  /\ CountsAreNumbers
                    /\ PlacesLeft \in Nat
                    /\ StartStepsLeft \in 0..(ExitChecks + Window + 24)
  OBVIOUS
<1>1. PlacesLeft \in 0..13
  BY DEF PlacesLeft, StartInv, StartStateType, BeforeStart, Starting, Over
<1>2. CallsLeft \in 0..(ExitChecks + 4) /\ VisitsLeft \in 0..(Window + 7)
  BY CountsAreBounded DEF StartInv
<1> QED
  BY <1>1, <1>2, TerminatorAssumption, FinalizationAssumption
     DEF StartStepsLeft, CountsAreNumbers

\* Each step of run_with leads to a later place.
LEMMA StartStepRunsOut ==
    ASSUME StartInv, CountsAreNumbers, CountsAreNumbers', PlacesLeft \in Nat, PlacesLeft' \in Nat,
           StartStep
    PROVE  StartStepsLeft' < StartStepsLeft
<1>0. /\ CallsLeft \in Nat /\ VisitsLeft \in Nat /\ PlacesLeft \in Nat
      /\ CallsLeft' \in Nat /\ VisitsLeft' \in Nat /\ PlacesLeft' \in Nat
      /\ TerminatorInv /\ FinalizationInv
  BY DEF StartInv, CountsAreNumbers
<1>1. UNCHANGED <<tpc, checks, fpc, left, turn>>
  BY DEF StartStep, Enter, Prepare, CheckBeforeCommit, Commit, Spawn, ReadClock, StartStdin,
     TakePipes, StartReaders, StartReader, HandOver, NoChild, terminatorVars, callVars,
     finalizationVars, finalizeVars
<1>2. CallsLeft' = CallsLeft /\ VisitsLeft' = VisitsLeft
  BY <1>0, <1>1, CountsAreKept
<1>3. PlacesLeft' < PlacesLeft
  <2> USE DEF PlacesLeft, Over, Step, FailAt, RefuseIfCancelled
  <2>1. CASE Enter \/ Prepare \/ CheckBeforeCommit
    BY <2>1 DEF Enter, Prepare, CheckBeforeCommit
  <2>2. CASE Commit \/ Spawn \/ ReadClock
    BY <2>2 DEF Commit, Spawn, ReadClock
  <2>3. CASE StartStdin \/ TakePipes
    BY <2>3 DEF StartStdin, TakePipes
  <2>4. CASE StartReaders \/ HandOver
    BY <2>4 DEF StartReaders, StartReader, HandOver
  <2> QED
    BY <2>1, <2>2, <2>3, <2>4 DEF StartStep
<1> QED
  BY ONLY <1>0, <1>2, <1>3, SumFalls, Zenon DEF StartStepsLeft, NotRaised

\* Each step of the cleanup is one of its two halves, one between them or the
\* last.
LEMMA CleanupStepRunsOut ==
    ASSUME StartInv, CountsAreNumbers, CountsAreNumbers', PlacesLeft \in Nat, PlacesLeft' \in Nat,
           CleanupStep
    PROVE  StartStepsLeft' < StartStepsLeft
<1>0. /\ CallsLeft \in Nat /\ VisitsLeft \in Nat /\ PlacesLeft \in Nat
      /\ CallsLeft' \in Nat /\ VisitsLeft' \in Nat /\ PlacesLeft' \in Nat
      /\ TerminatorInv /\ FinalizationInv
  BY DEF StartInv, CountsAreNumbers
<1>1. CASE BeginCleanup \/ TerminationStep
  <2>1. CallsLeft' < CallsLeft
    BY <1>0, <1>1, CallsRunOut DEF BeginCleanup, TerminationStep
  <2>2. VisitsLeft' = VisitsLeft
    BY <1>0, <1>1, CountsAreKept DEF BeginCleanup, TerminationStep, finalizationVars, finalizeVars
  <2>3. PlacesLeft' = PlacesLeft
    BY <1>1 DEF BeginCleanup, TerminationStep, startVars, PlacesLeft
  <2> QED
    BY ONLY <1>0, <2>1, <2>2, <2>3, SumFalls, Zenon DEF StartStepsLeft, NotRaised
<1>2. CASE AfterTermination \/ FinalizationStep
  <2>1. VisitsLeft' < VisitsLeft
    BY <1>0, <1>2, VisitsRunOut DEF AfterTermination, FinalizationStep
  <2>2. CallsLeft' = CallsLeft
    BY <1>0, <1>2, CountsAreKept DEF AfterTermination, FinalizationStep, terminatorVars, callVars
  <2>3. PlacesLeft' = PlacesLeft
    <3>1. spc \in {"terminate", "finalize"} /\ spc' \in {"terminate", "finalize"}
      BY <1>2 DEF AfterTermination, GoOnToHelpers, FinalizationStep, startVars
    <3>2. PlacesLeft = 1 /\ PlacesLeft' = 1
      BY <3>1 DEF PlacesLeft, Over
    <3> QED
      BY <3>2
  <2> QED
    BY ONLY <1>0, <2>1, <2>2, <2>3, SumFalls, Zenon DEF StartStepsLeft, NotRaised
<1>3. CASE ReturnAborted
  <2>1. CallsLeft' = CallsLeft /\ VisitsLeft' = VisitsLeft
    BY <1>0, <1>3, CountsAreKept
       DEF ReturnAborted, terminatorVars, callVars, finalizationVars, finalizeVars
  <2>2. PlacesLeft' < PlacesLeft
    BY <1>3 DEF ReturnAborted, PlacesLeft, Over
  <2> QED
    BY ONLY <1>0, <2>1, <2>2, SumFalls, Zenon DEF StartStepsLeft, NotRaised
<1> QED
  BY <1>1, <1>2, <1>3 DEF CleanupStep

\* The child, the helpers, the caller and the clock raise no count.
LEMMA OthersKeepStartCount ==
    ASSUME StartInv, CountsAreNumbers, CountsAreNumbers', PlacesLeft \in Nat, PlacesLeft' \in Nat,
           [StartNext]_startingVars, ~RunnerStep
    PROVE  StartStepsLeft' <= StartStepsLeft
<1>0. /\ CallsLeft \in Nat /\ VisitsLeft \in Nat /\ PlacesLeft \in Nat
      /\ CallsLeft' \in Nat /\ VisitsLeft' \in Nat /\ PlacesLeft' \in Nat
      /\ TerminatorInv /\ FinalizationInv
  BY DEF StartInv, CountsAreNumbers
<1>1. \/ ProcessActs \/ CallerCancels \/ TimePasses \/ UNCHANGED startingVars
      \/ \E h \in Helper : HelperActs(h)
  BY DEF StartNext
<1> USE <1>1 DEF ProcessActs, CallerCancels, TimePasses, HelperActs, startingVars
<1>2. spc' = spc /\ PlacesLeft' = PlacesLeft
  BY DEF PlacesLeft, startVars
<1>3. CallsLeft' = CallsLeft
  <2>1. ProcessStep \/ UNCHANGED <<tpc, checks>>
    BY DEF terminatorVars, callVars
  <2> QED
    BY ONLY <1>0, <2>1, CountsAreKept
<1>4. NotRaised(VisitsLeft, VisitsLeft')
  <2>1. DeadlineNears \/ UNCHANGED <<fpc, left, turn>>
    BY DEF HelperReturns, finalizationVars, finalizeVars
  <2> QED
    BY ONLY <1>0, <2>1, CountsAreKept DEF NotRaised
<1> QED
  BY ONLY <1>0, <1>2, <1>3, <1>4, SumFalls, Zenon DEF StartStepsLeft, NotRaised

\* A start hands over, is refused or has cleaned up after a number of its own
\* steps that depends on the attempts and the window alone, wherever it fails
\* (run_with, StartingCommand::cleanup).
THEOREM StartIsBounded ==
    StartSpec => /\ [](StartStepsLeft \in 0..(ExitChecks + Window + 24))
                 /\ [][StartRunsOut]_startingVars
<1> DEFINE Counts == CountsAreNumbers /\ PlacesLeft \in Nat
<1>1. StartInv => Counts /\ StartStepsLeft \in 0..(ExitChecks + Window + 24)
  BY StartCountType
<1>2. StartInv /\ Counts /\ Counts' /\ [StartNext]_startingVars
          => [StartRunsOut]_startingVars
  <2> SUFFICES ASSUME StartInv, Counts, Counts', StartNext PROVE StartRunsOut
    OBVIOUS
  <2>1. CASE RunnerStep
    <3>1. StartStepsLeft \in Nat /\ StartStepsLeft' \in Nat
      BY ONLY Counts, Counts', SumOfCounts, Zenon DEF StartStepsLeft, CountsAreNumbers
    <3>2. StartStepsLeft' < StartStepsLeft
      BY <2>1, StartStepRunsOut, CleanupStepRunsOut DEF RunnerStep
    <3>3. StartStepsLeft' <= StartStepsLeft
      BY ONLY <3>1, <3>2
    <3> QED
      BY ONLY <3>2, <3>3 DEF StartRunsOut
  <2>2. CASE ~RunnerStep
    BY <2>2, OthersKeepStartCount DEF StartRunsOut
  <2> QED
    BY <2>1, <2>2
<1> QED
  BY <1>1, <1>2, StartInvAlways, PTL DEF StartSpec
=============================================================================
