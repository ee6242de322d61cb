------------------------ MODULE RunningCommandProofs ------------------------
(***************************************************************************)
(* Theorems about RunningCommand, for every set of run options, timeout,   *)
(* and set of faults: what a stopped run reports is true, it implements    *)
(* RunContract, and which event decides its result.  What terminate and    *)
(* finish_helpers_with_wait do to their own state is cited from            *)
(* StoppingProofs.                                                         *)
(***************************************************************************)
EXTENDS RunningCommand, StoppingProofs

(***************************************************************************)
(* The inductive invariant.                                                *)
(***************************************************************************)

Watching ==
    {"exceeded", "try", "finished", "cancel", "time", "sleep", "last", "collect"}

RunStateType ==
    /\ policy \in Policies
    /\ cancelled \in BOOLEAN
    /\ exceeded \in BOOLEAN
    /\ elapsed \in 0..Timeout
    /\ helperFailed \subseteq Helper
    /\ rpc \in Watching \cup {"terminate", "finalize", "returned"}
    /\ loop \in {"run", "io"}
    /\ collected \in ExitStatus \cup {None}
    /\ reason \in StopReason \cup {None}
    /\ returned \in RunResult \cup {None}

\* The tree is the one the options ask for, and the limit is that of a budget.
OptionsAreKept ==
    /\ ChildSpawned
    /\ managed = Monitored(policy)
    /\ exceeded => policy.budget
    /\ rpc = "time" => policy.timeout
    /\ rpc \in {"cancel", "time", "sleep", "try", "finished"} => Monitored(policy)

\* A command is stopped once, for one reason, the child first.
StoppedInOrder ==
    /\ rpc \in Watching => reason = None
    /\ rpc \in {"terminate", "finalize"} => reason \in StopReason
    /\ rpc # "returned" => returned = None
    /\ rpc \in Watching \/ (rpc = "returned" /\ reason = None) => tpc = "idle"
    /\ rpc = "finalize" \/ (rpc = "returned" /\ reason # None) => tpc = "done"
    /\ rpc \in Watching \cup {"terminate"} => fpc = "idle"
    /\ rpc = "finalize" => fpc # "idle"

\* The reason a command is stopped for has arisen, and stays so.
ReasonArose ==
    /\ reason = "OutputLimitExceeded" => exceeded
    /\ reason = "Cancelled" => cancelled
    /\ reason = "TimedOut" => policy.timeout /\ elapsed = Timeout

\* The status that an event carries is the one the child died with, and the
\* helpers are waited for only after the exit.
StatusIsCollected ==
    /\ rpc \in Watching \cup {"terminate"} => collected \in {None, status}
    /\ loop = "io" => status # None
    /\ rpc \in {"finished", "last", "collect"} => loop = "io"
    /\ rpc = "try" => loop = "run"

\* From the last look at the budget on, no helper is left that could pass it.
LimitIsLookedAtLast ==
    /\ rpc \in {"last", "collect"} => running = {} \/ ~Monitored(policy)
    /\ rpc = "collect" => ~exceeded

RunInv ==
    /\ TerminatorInv
    /\ FinalizationInv
    /\ RunStateType
    /\ OptionsAreKept
    /\ StoppedInOrder
    /\ ReasonArose
    /\ StatusIsCollected
    /\ LimitIsLookedAtLast
    /\ RunningHelpersReported

(***************************************************************************)
(* It is inductive.                                                        *)
(***************************************************************************)

\* A run is monitored from its hand-over.
LEMMA RunInvInit == RunInit => RunInv
<1> SUFFICES ASSUME RunInit PROVE RunInv
  OBVIOUS
<1> USE TerminatorAssumption, FinalizationAssumption, RunAssumption DEF RunInit
<1>1. TerminatorInv /\ ChildSpawned /\ FinalizationInv
  BY TerminatorInvInit, FinalizationInvInit
<1>2. RunStateType
  <2>1. cancelled \in BOOLEAN /\ exceeded \in BOOLEAN
    OBVIOUS
  <2> QED
    BY <2>1 DEF RunStateType, Watching
<1>3. OptionsAreKept /\ ReasonArose /\ StatusIsCollected /\ LimitIsLookedAtLast
  BY <1>1 DEF OptionsAreKept, ReasonArose, StatusIsCollected, LimitIsLookedAtLast
<1>4. StoppedInOrder
  BY DEF StoppedInOrder, Watching, TerminatorInit, FinalizationInit
<1>5. RunningHelpersReported
  BY DEF RunningHelpersReported
<1> QED
  BY <1>1, <1>2, <1>3, <1>4, <1>5 DEF RunInv

\* The steps of the child, the helpers, the caller and the clock.
LEMMA ProcessActsInv ==
    ASSUME RunInv, ProcessActs
    PROVE  RunInv'
<1> USE DEF RunInv, ProcessActs, inputVars, runnerVars
<1>1. TerminatorInv' /\ FinalizationInv'
  BY ProcessStepInv, FinalizationStutterInv
<1>2. /\ UNCHANGED <<managed, tpc>>
      /\ status # None => status' = status
  BY DEF ProcessStep, ProcessExits, ChildLeavesGroup, ChildForks, callVars,
         TerminatorInv, StatusIsFinal
<1>3. ChildSpawned'
  BY ChildSpawnedStep DEF TerminatorInv, TerminatorNext, OptionsAreKept
<1>4. RunStateType' /\ OptionsAreKept' /\ ReasonArose'
  BY <1>2, <1>3 DEF RunStateType, OptionsAreKept, ReasonArose, Monitored
<1>5. StoppedInOrder' /\ StatusIsCollected' /\ LimitIsLookedAtLast'
      /\ RunningHelpersReported'
  BY <1>2 DEF StoppedInOrder, StatusIsCollected, LimitIsLookedAtLast, Monitored,
         RunningHelpersReported, finalizationVars, helperVars, finalizeVars
<1> QED
  BY <1>1, <1>4, <1>5

\* A helper that returns breaks nothing.
LEMMA HelperActsInv ==
    ASSUME RunInv, NEW h \in Helper, HelperActs(h)
    PROVE  RunInv'
<1> USE DEF RunInv, HelperActs, HelperReturns, runnerVars
<1>1. TerminatorInv' /\ FinalizationInv'
  BY TerminatorStutterInv, HelperReturnsInv
<1> USE DEF terminatorVars, processVars, callVars, finalizeVars
<1>2. RunStateType' /\ OptionsAreKept' /\ ReasonArose'
  BY DEF RunStateType, OptionsAreKept, ReasonArose, Monitored, ChildSpawned
<1>3. StoppedInOrder' /\ StatusIsCollected' /\ LimitIsLookedAtLast'
      /\ RunningHelpersReported'
  BY DEF StoppedInOrder, StatusIsCollected, LimitIsLookedAtLast, Monitored,
         RunningHelpersReported
<1> QED
  BY <1>1, <1>2, <1>3

\* The time stops counting at the timeout.
LEMMA LaterType ==
    ASSUME NEW ticks \in 0..Timeout
    PROVE  Later(ticks) \in 0..Timeout /\ (ticks = Timeout => Later(ticks) = Timeout)
  BY RunAssumption DEF Later

\* The caller cancels, a reader passes the limit, time passes.
LEMMA ConditionArisesInv ==
    ASSUME RunInv, LimitPassed \/ CallerCancels \/ TimePasses
    PROVE  RunInv'
<1> USE RunAssumption DEF RunInv, runnerVars, inputVars
<1>1. UNCHANGED <<terminatorVars, helperVars, runnerVars, policy, helperFailed>>
  BY DEF LimitPassed, CallerCancels, TimePasses, DeadlineNears, finalizationVars
<1>2. TerminatorInv' /\ FinalizationInv'
  <2>1. UNCHANGED finalizationVars \/ DeadlineNears
    BY DEF LimitPassed, CallerCancels, TimePasses
  <2> QED
    BY <1>1, <2>1, TerminatorStutterInv, FinalizationStutterInv, DeadlineNearsInv
<1>3. fpc' = fpc
  BY DEF LimitPassed, CallerCancels, TimePasses, DeadlineNears, finalizationVars,
         finalizeVars
<1>4. /\ cancelled' \in BOOLEAN /\ exceeded' \in BOOLEAN
      /\ cancelled => cancelled'
      /\ exceeded => exceeded'
      /\ exceeded' => exceeded \/ (policy.budget /\ running # {})
  <2>1. /\ cancelled' \in {cancelled, TRUE}
        /\ exceeded' = exceeded \/ (exceeded' = TRUE /\ policy.budget /\ running # {})
    BY DEF LimitPassed, CallerCancels, TimePasses
  <2>2. cancelled \in BOOLEAN /\ exceeded \in BOOLEAN
    BY DEF RunStateType
  <2>3. cancelled' \in BOOLEAN /\ (cancelled => cancelled')
    BY <2>1, <2>2
  <2>4. exceeded' \in BOOLEAN /\ (exceeded => exceeded')
    BY <2>1, <2>2
  <2> QED
    BY <2>1, <2>3, <2>4
<1>5. elapsed' \in 0..Timeout /\ (elapsed = Timeout => elapsed' = Timeout)
  <2>1. elapsed' \in {elapsed, Later(elapsed)}
    BY DEF LimitPassed, CallerCancels, TimePasses
  <2>2. elapsed \in 0..Timeout
    BY DEF RunStateType
  <2> QED
    BY <2>1, <2>2, LaterType
<1> USE <1>1 DEF terminatorVars, processVars, callVars, helperVars
<1>6. RunStateType'
  BY <1>4, <1>5 DEF RunStateType
<1>7. OptionsAreKept'
  BY <1>4 DEF OptionsAreKept, Monitored, ChildSpawned
<1>8. ReasonArose'
  BY <1>4, <1>5 DEF ReasonArose
<1>9. StoppedInOrder' /\ StatusIsCollected' /\ RunningHelpersReported'
  BY <1>3 DEF StoppedInOrder, StatusIsCollected, RunningHelpersReported
<1>10. LimitIsLookedAtLast'
  BY <1>4 DEF LimitIsLookedAtLast, Monitored
<1> QED
  BY <1>2, <1>6, <1>7, <1>8, <1>9, <1>10

\* Every event but the child's exit ends the watching with a reason to stop.
LEMMA StopForInv ==
    ASSUME RunInv, rpc \in Watching, NEW why \in StopReason, NEW seen \in {None, status},
           StopFor(why, seen),
           why = "OutputLimitExceeded" => exceeded,
           why = "Cancelled" => cancelled,
           why = "TimedOut" => policy.timeout /\ elapsed = Timeout
    PROVE  RunInv'
<1> USE DEF RunInv, StopFor, MonitorOnly
<1>1. TerminatorInv' /\ FinalizationInv'
  BY TerminatorStutterInv, FinalizationStutterInv
<1> USE DEF terminatorVars, processVars, callVars, finalizationVars, helperVars,
            finalizeVars
<1>2. seen \in ExitStatus \cup {None}
  BY DEF TerminatorInv, TerminatorTypeOK
<1>3. RunStateType'
  BY <1>2 DEF RunStateType
<1>4. OptionsAreKept' /\ ReasonArose'
  BY DEF OptionsAreKept, ReasonArose, Monitored, ChildSpawned
<1>5. StoppedInOrder' /\ StatusIsCollected' /\ LimitIsLookedAtLast'
      /\ RunningHelpersReported'
  BY DEF StoppedInOrder, StatusIsCollected, LimitIsLookedAtLast, RunningHelpersReported,
         Watching
<1> QED
  BY <1>1, <1>3, <1>4, <1>5

\* The other steps of the monitor go on watching.
LEMMA KeepWatchingInv ==
    ASSUME RunInv, rpc \in Watching, MonitorOnly, rpc' \in Watching,
           loop' \in {"run", "io"}, elapsed' \in 0..Timeout,
           UNCHANGED reason,
           collected' \in {None, status},
           rpc' = "time" => policy.timeout,
           rpc' \in {"cancel", "time", "sleep", "try", "finished"} => Monitored(policy),
           loop' = "io" => status # None,
           rpc' \in {"finished", "last", "collect"} => loop' = "io",
           rpc' = "try" => loop' = "run",
           rpc' \in {"last", "collect"} => running = {} \/ ~Monitored(policy),
           rpc' = "collect" => ~exceeded
    PROVE  RunInv'
<1> USE RunAssumption DEF RunInv, MonitorOnly
<1>1. TerminatorInv' /\ FinalizationInv'
  BY TerminatorStutterInv, FinalizationStutterInv
<1> USE DEF terminatorVars, processVars, callVars, finalizationVars, helperVars,
            finalizeVars
<1>2. collected' \in ExitStatus \cup {None}
  BY DEF TerminatorInv, TerminatorTypeOK
<1>3. RunStateType'
  BY <1>2 DEF RunStateType
<1>4. OptionsAreKept' /\ ReasonArose'
  BY DEF OptionsAreKept, ReasonArose, Monitored, ChildSpawned, StoppedInOrder
<1>5. StoppedInOrder' /\ StatusIsCollected' /\ LimitIsLookedAtLast'
      /\ RunningHelpersReported'
  BY DEF StoppedInOrder, StatusIsCollected, LimitIsLookedAtLast, RunningHelpersReported,
         Watching, Monitored
<1> QED
  BY <1>1, <1>3, <1>4, <1>5

\* The steps of wait_for_event and wait_for_io_event.
LEMMA MonitorStepInv ==
    ASSUME RunInv,
           \/ BlockingWait \/ CheckExceeded \/ TryWait \/ CheckFinished
           \/ CheckCancellation \/ CheckTimeout \/ Sleep \/ CheckLast
    PROVE  RunInv'
<1>0. /\ elapsed \in 0..Timeout /\ collected \in {None, status} /\ status \in {None, status}
      /\ loop \in {"run", "io"} /\ rpc \in Watching
  BY DEF RunInv, RunStateType, StatusIsCollected, BlockingWait, CheckExceeded, TryWait,
         CheckFinished, CheckCancellation, CheckTimeout, Sleep, CheckLast, Watching
<1> USE <1>0, StopForInv, KeepWatchingInv
<1> USE DEF StopReason, StopCondition, ChildExited, Advance
<1>1. CASE BlockingWait
  BY <1>1 DEF BlockingWait, Watching
<1>2. CASE CheckExceeded
  BY <1>2 DEF CheckExceeded, Watching, RunInv, StatusIsCollected
<1>3. CASE TryWait
  BY <1>3 DEF TryWait, Watching, RunInv, OptionsAreKept, StatusIsCollected
<1>4. CASE CheckFinished
  BY <1>4 DEF CheckFinished, Watching, RunInv, StatusIsCollected
<1>5. CASE CheckCancellation
  BY <1>5 DEF CheckCancellation, Watching, RunInv, OptionsAreKept, StatusIsCollected
<1>6. CASE CheckTimeout
  BY <1>6, RunAssumption
     DEF CheckTimeout, Watching, RunInv, OptionsAreKept, StatusIsCollected
<1>7. CASE Sleep
  <2>1. Later(elapsed) \in 0..Timeout
    BY LaterType
  <2> QED
    BY <1>7, <2>1 DEF Sleep, Watching, RunInv, OptionsAreKept, StatusIsCollected
<1>8. CASE CheckLast
  BY <1>8 DEF CheckLast, Watching, RunInv, StatusIsCollected, LimitIsLookedAtLast
<1> QED
  BY <1>1, <1>2, <1>3, <1>4, <1>5, <1>6, <1>7, <1>8

\* A run that comes to its end has joined every helper.
LEMMA CollectInv ==
    ASSUME RunInv, Collect
    PROVE  RunInv'
<1> USE DEF RunInv, Collect, Finished, inputVars
<1>1. TerminatorInv' /\ FinalizationInv'
  BY TerminatorStutterInv, FinalizationStutterInv
<1>2. returned' \in RunResult
  BY DEF RunResult, ResultKind, StopReason, TerminatorInv, TerminatorTypeOK, RunStateType
<1> USE DEF terminatorVars, processVars, callVars, finalizationVars, helperVars,
            finalizeVars
<1>3. RunStateType'
  BY <1>2 DEF RunStateType
<1>4. OptionsAreKept' /\ ReasonArose' /\ StatusIsCollected' /\ LimitIsLookedAtLast'
  BY DEF OptionsAreKept, ReasonArose, StatusIsCollected, LimitIsLookedAtLast,
         ChildSpawned, Watching, Monitored
<1>5. StoppedInOrder'
  BY RunAssumption DEF StoppedInOrder, Watching
<1>6. RunningHelpersReported'
  BY DEF RunningHelpersReported
<1> QED
  BY <1>1, <1>3, <1>4, <1>5, <1>6

\* terminate, called with the status of the event.
LEMMA TerminationInv ==
    ASSUME RunInv, BeginTermination \/ TerminationStep
    PROVE  RunInv'
<1> USE DEF RunInv, inputVars, runnerVars
<1>0. /\ rpc = "terminate" /\ UNCHANGED <<finalizationVars, inputVars, runnerVars>>
      /\ Terminate(collected) \/ TerminatorStep
      /\ Terminate(collected) => collected \in {None, status}
  BY DEF BeginTermination, TerminationStep, Terminate
<1>1. UNCHANGED <<managed, status>>
  BY <1>0 DEF Terminate, processVars,
       TerminatorStep, KillTreeSucceeds, KillTreeFails, SkipTree, CheckExit,
       KillChildSucceeds, KillChildFails, ConfirmExit, FinishWait
<1>2. TerminatorInv' /\ FinalizationInv'
  BY <1>0, TerminateInv, TerminatorStepInv, FinalizationStutterInv
<1>3. ChildSpawned'
  <2>1. TerminatorNext
    BY <1>0 DEF TerminatorNext
  <2> QED
    BY <2>1, ChildSpawnedStep DEF TerminatorInv, OptionsAreKept
<1> USE <1>0, <1>1 DEF finalizationVars, helperVars, finalizeVars
<1>4. RunStateType' /\ OptionsAreKept' /\ ReasonArose'
  BY <1>3 DEF RunStateType, OptionsAreKept, ReasonArose, Monitored
<1>5. StoppedInOrder' /\ StatusIsCollected' /\ LimitIsLookedAtLast'
      /\ RunningHelpersReported'
  BY DEF StoppedInOrder, StatusIsCollected, LimitIsLookedAtLast, RunningHelpersReported,
         Watching
<1> QED
  BY <1>2, <1>4, <1>5

\* Whatever became of the child, the helpers are finished next.
LEMMA AfterTerminationInv ==
    ASSUME RunInv, AfterTermination
    PROVE  RunInv'
<1> USE DEF RunInv, AfterTermination, inputVars
<1>1. TerminatorInv' /\ FinalizationInv'
  BY TerminatorStutterInv, DeadlineNearsInv
<1>2. collected' \in ExitStatus \cup {None}
  BY DEF TerminatorInv, TerminatorTypeOK, RunStateType
<1> USE DEF BeginFinalization, terminatorVars, processVars, callVars, helperVars
<1>3. RunStateType'
  BY <1>2 DEF RunStateType
<1>4. OptionsAreKept' /\ ReasonArose'
  BY DEF OptionsAreKept, ReasonArose, Monitored, ChildSpawned
<1>5. StoppedInOrder' /\ StatusIsCollected' /\ LimitIsLookedAtLast'
      /\ RunningHelpersReported'
  BY DEF StoppedInOrder, StatusIsCollected, LimitIsLookedAtLast, RunningHelpersReported,
         Watching
<1> QED
  BY <1>1, <1>3, <1>4, <1>5

\* finish_helpers_with_wait.
LEMMA FinalizationStepInv ==
    ASSUME RunInv, FinalizationStep
    PROVE  RunInv'
<1> USE DEF RunInv, FinalizationStep, inputVars, runnerVars
<1>1. TerminatorInv' /\ FinalizationInv'
  BY TerminatorStutterInv, FinalizeStepInv
<1>2. UNCHANGED helperVars /\ (fpc # "idle" => fpc' # "idle")
  BY DEF FinalizeStep, CancelHelper, SkipAbsentHelper, JoinHelper, SleepForHelper,
         DetachHelper, Proceed
<1> USE <1>2 DEF helperVars, terminatorVars, processVars, callVars
<1>3. RunStateType' /\ OptionsAreKept' /\ ReasonArose'
  BY DEF RunStateType, OptionsAreKept, ReasonArose, Monitored, ChildSpawned
<1>4. StoppedInOrder' /\ StatusIsCollected' /\ LimitIsLookedAtLast'
      /\ RunningHelpersReported'
  BY DEF StoppedInOrder, StatusIsCollected, LimitIsLookedAtLast, RunningHelpersReported,
         Watching
<1> QED
  BY <1>1, <1>3, <1>4

\* The stopped run returns: every helper still running is on record.
LEMMA ReturnStoppedInv ==
    ASSUME RunInv, ReturnStopped
    PROVE  RunInv'
<1> USE DEF RunInv
<1>0. PICK clockFailed \in BOOLEAN :
          Finished(reason, StoppedOutput(clockFailed), HelperFailures)
  BY DEF ReturnStopped
<1> USE <1>0 DEF ReturnStopped, Finished, inputVars
<1>1. TerminatorInv' /\ FinalizationInv'
  BY TerminatorStutterInv, FinalizationStutterInv
<1>2. StoppedOutput(clockFailed) \in {"none", "captured", "whole"}
  BY DEF StoppedOutput
<1>3. HelperFailures \in SUBSET Helper
  BY DEF HelperFailures, RunStateType, FinalizationInv, FinalizationTypeOK
<1>4. returned' \in RunResult
  BY <1>2, <1>3 DEF RunResult, ResultKind, StoppedInOrder, TerminatorInv, TerminatorTypeOK
<1>5. RunningHelpersReported'
  <2>1. running \subseteq retained
    BY HelpersReportedExactlyByInv
       DEF HelpersReportedExactly, SurvivingHelperReported,
           FinalizationInv, FinalizationTypeOK
  <2> QED
    BY <2>1 DEF RunningHelpersReported, HelperFailures, finalizationVars, helperVars
<1> USE DEF terminatorVars, processVars, callVars, finalizationVars, helperVars,
            finalizeVars
<1>6. RunStateType'
  BY <1>4 DEF RunStateType
<1>7. OptionsAreKept' /\ ReasonArose' /\ StatusIsCollected' /\ LimitIsLookedAtLast'
  BY DEF OptionsAreKept, ReasonArose, StatusIsCollected, LimitIsLookedAtLast,
         ChildSpawned, Watching, Monitored
<1>8. StoppedInOrder'
  BY RunAssumption DEF StoppedInOrder, Watching, StopReason, StopCondition
<1> QED
  BY <1>1, <1>5, <1>6, <1>7, <1>8

\* All of it: the invariant of every run.
LEMMA RunInvStep == RunInv /\ [RunNext]_runVars => RunInv'
<1> SUFFICES ASSUME RunInv, [RunNext]_runVars PROVE RunInv'
  OBVIOUS
<1>1. CASE Monitor
  BY <1>1, MonitorStepInv, CollectInv DEF Monitor
<1>2. CASE Stopping
  BY <1>2, TerminationInv, AfterTerminationInv, FinalizationStepInv, ReturnStoppedInv
     DEF Stopping
<1>3. CASE Environment
  BY <1>3, ProcessActsInv, HelperActsInv, ConditionArisesInv DEF Environment
<1>4. CASE UNCHANGED runVars
  <2> USE <1>4 DEF runVars, RunInv
  <2>1. TerminatorInv' /\ FinalizationInv'
    BY TerminatorStutterInv, FinalizationStutterInv
  <2> USE DEF terminatorVars, processVars, callVars, finalizationVars, helperVars,
              finalizeVars, inputVars, runnerVars
  <2>2. RunStateType' /\ OptionsAreKept' /\ ReasonArose'
    BY DEF RunStateType, OptionsAreKept, ReasonArose, Monitored, ChildSpawned
  <2>3. StoppedInOrder' /\ StatusIsCollected' /\ LimitIsLookedAtLast'
        /\ RunningHelpersReported'
    BY DEF StoppedInOrder, StatusIsCollected, LimitIsLookedAtLast, RunningHelpersReported,
           Monitored
  <2> QED
    BY <2>1, <2>2, <2>3
<1> QED
  BY <1>1, <1>2, <1>3, <1>4 DEF RunNext, RunnerStep

\* The invariant of a run.
LEMMA RunInvAlways == RunSpec => []RunInv
  BY RunInvInit, RunInvStep, PTL DEF RunSpec

(***************************************************************************)
(* The theorems about what is reported.                                    *)
(***************************************************************************)

\* Every variable keeps its type.
THEOREM RunTypeCorrect == RunSpec => []RunTypeOK
<1>1. RunInv => RunTypeOK
  BY DEF RunInv, TerminatorInv, FinalizationInv, RunStateType, RunTypeOK, Watching
<1> QED
  BY <1>1, RunInvAlways, PTL

\* No helper outlives a run without being reported (running_command.rs).
THEOREM RunReportsHelpers == RunSpec => []RunningHelpersReported
<1>1. RunInv => RunningHelpersReported
  BY DEF RunInv
<1> QED
  BY <1>1, RunInvAlways, PTL

\* What terminate and finish_helpers_with_wait promise, they keep for a stopped
\* run; the blocking wait is entered only for a child that a kill reached.
THEOREM RunStopsTruly ==
    RunSpec => [](/\ TerminationIsTrue /\ WaitsOnlyForKilledChild
                  /\ HelpersReportedExactly /\ OneSharedWait)
<1>1. RunInv => /\ TerminationIsTrue /\ WaitsOnlyForKilledChild
                /\ HelpersReportedExactly /\ OneSharedWait
  <2> SUFFICES ASSUME RunInv
               PROVE  /\ TerminationIsTrue /\ WaitsOnlyForKilledChild
                      /\ HelpersReportedExactly /\ OneSharedWait
    OBVIOUS
  <2> USE DEF RunInv
  <2>1. TerminationIsTrue /\ HelpersReportedExactly /\ OneSharedWait
    BY TerminationIsTrueByInv, HelpersReportedExactlyByInv, OneSharedWaitByInv
  <2>2. WaitsOnlyForKilledChild
    BY WaitsOnlyForKilledChildByInv DEF OptionsAreKept
  <2> QED
    BY <2>1, <2>2
<1> QED
  BY <1>1, RunInvAlways, PTL

(***************************************************************************)
(* The refinement of RunContract, step by step.                            *)
(***************************************************************************)

\* The contract sees nothing of a step that leaves alone what it is about.
LEMMA UnseenStep ==
    ASSUME Arisen' = Arisen,
           UNCHANGED <<status, running, managed, group, alive, signalled>>,
           UNCHANGED <<returned, reason, failures>> \/ (returned = None /\ returned' = None)
    PROVE  UNCHANGED Abstract!contractVars
<1>1. Unkilled' = Unkilled
  BY DEF Unkilled
<1>2. Promise' = Promise
  BY DEF Promise, Reported
<1> QED
  BY <1>1, <1>2 DEF Abstract!contractVars

\* Processes and helpers only make progress.
LEMMA ProgressStep ==
    ASSUME UNCHANGED <<policy, cancelled, exceeded, elapsed>>,
           status # None => status' # None,
           running = {} => running' = {},
           UNCHANGED <<returned, reason, failures>> \/ (returned = None /\ returned' = None)
    PROVE  Abstract!ContractNext
<1>1. Arisen' = Arisen
  BY DEF Arisen
<1>2. Promise' = Promise
  BY DEF Promise, Reported
<1>3. Abstract!RunMakesProgress
  BY <1>1, <1>2 DEF Abstract!RunMakesProgress
<1> QED
  BY <1>3 DEF Abstract!ContractNext

\* A condition arises, or has arisen before.
LEMMA ArisingStep ==
    ASSUME NEW condition \in StopCondition,
           condition = "OutputLimitExceeded" => running # {},
           Arisen' = Arisen \cup {condition},
           UNCHANGED <<status, running, managed, group, alive, signalled>>,
           UNCHANGED <<returned, reason, failures>> \/ (returned = None /\ returned' = None)
    PROVE  Abstract!ContractNext
<1>1. Unkilled' = Unkilled
  BY DEF Unkilled
<1>2. Promise' = Promise
  BY DEF Promise, Reported
<1>3. Abstract!Arises(condition)
  BY <1>1, <1>2 DEF Abstract!Arises
<1>4. condition \in Abstract!StopCondition
  BY DEF StopCondition, Abstract!StopCondition
<1> QED
  BY <1>3, <1>4 DEF Abstract!ContractNext

\* Time that passes makes the timeout arise at most.
LEMMA TimeStep ==
    ASSUME RunInv, elapsed' = Later(elapsed),
           UNCHANGED <<policy, cancelled, exceeded>>,
           UNCHANGED <<status, running, managed, group, alive, signalled>>,
           UNCHANGED <<returned, reason, failures>> \/ (returned = None /\ returned' = None)
    PROVE  [Abstract!ContractNext]_(Abstract!contractVars)
<1>1. elapsed = Timeout => elapsed' = Timeout
  BY LaterType DEF RunInv, RunStateType
<1>2. CASE policy.timeout /\ elapsed' = Timeout
  <2>1. Arisen' = Arisen \cup {"TimedOut"}
    BY <1>2 DEF Arisen, StopCondition
  <2>2. "TimedOut" \in StopCondition
    BY DEF StopCondition
  <2> QED
    BY <2>1, <2>2, ArisingStep
<1>3. CASE ~(policy.timeout /\ elapsed' = Timeout)
  <2>1. Arisen' = Arisen
    BY <1>1, <1>3 DEF Arisen
  <2> QED
    BY <2>1, UnseenStep
<1> QED
  BY <1>2, <1>3

\* What others do is a step of the contract, or nothing to it.
LEMMA EnvironmentRefines ==
    ASSUME RunInv, Environment
    PROVE  [Abstract!ContractNext]_(Abstract!contractVars)
<1> USE DEF inputVars, runnerVars, terminatorVars, processVars, callVars,
            finalizationVars, helperVars
<1>1. CASE ProcessActs
  <2>1. /\ UNCHANGED <<policy, cancelled, exceeded, elapsed, running, returned, reason,
                       failures>>
        /\ status # None => status' # None
    BY <1>1 DEF ProcessActs, ProcessStep, ProcessExits, ChildLeavesGroup, ChildForks,
          RunInv, TerminatorInv, StatusIsFinal
  <2> QED
    BY <2>1, ProgressStep
<1>2. ASSUME NEW h \in Helper, HelperActs(h)
      PROVE  Abstract!ContractNext
  <2>1. UNCHANGED <<policy, cancelled, exceeded, elapsed, status, returned, reason, failures>>
    BY <1>2 DEF HelperActs
  <2>2. running = {} => running' = {}
    BY <1>2 DEF HelperActs, HelperReturns
  <2> QED
    BY <2>1, <2>2, ProgressStep
<1>3. CASE LimitPassed
  <2>1. Arisen' = Arisen \cup {"OutputLimitExceeded"} /\ running # {}
    BY <1>3 DEF LimitPassed, Arisen, StopCondition
  <2> QED
    BY <1>3, <2>1, ArisingStep DEF LimitPassed, StopCondition
<1>4. CASE CallerCancels
  <2>1. Arisen' = Arisen \cup {"Cancelled"}
    BY <1>4 DEF CallerCancels, Arisen, StopCondition
  <2> QED
    BY <1>4, <2>1, ArisingStep DEF CallerCancels, StopCondition
<1>5. CASE TimePasses
  <2>1. /\ UNCHANGED <<policy, cancelled, exceeded, status, running, managed, group, alive,
                       signalled, returned, reason, failures>>
        /\ elapsed' = Later(elapsed) \/ elapsed' = elapsed
    BY <1>5 DEF TimePasses, DeadlineNears
  <2>2. CASE elapsed' = elapsed
    <3>1. Arisen' = Arisen
      BY <2>1, <2>2 DEF Arisen
    <3> QED
      BY <2>1, <3>1, UnseenStep
  <2> QED
    BY <2>1, <2>2, TimeStep
<1> QED
  BY <1>1, <1>2, <1>3, <1>4, <1>5 DEF Environment

\* The monitor's looks are nothing to the contract.
LEMMA MonitorRefines ==
    ASSUME RunInv,
           \/ BlockingWait \/ CheckExceeded \/ TryWait \/ CheckFinished
           \/ CheckCancellation \/ CheckTimeout \/ Sleep \/ CheckLast
    PROVE  [Abstract!ContractNext]_(Abstract!contractVars)
<1>1. /\ MonitorOnly /\ rpc # "returned"
      /\ elapsed' = Later(elapsed) \/ elapsed' = elapsed
  BY DEF BlockingWait, CheckExceeded, TryWait, CheckFinished, CheckCancellation,
         CheckTimeout, Sleep, CheckLast, StopFor, ChildExited, Advance
<1>2. returned = None /\ returned' = None
  BY <1>1 DEF RunInv, StoppedInOrder, MonitorOnly
<1> USE <1>1, <1>2 DEF MonitorOnly, terminatorVars, processVars, callVars,
                       finalizationVars, helperVars
<1>3. CASE elapsed' = elapsed
  <2>1. Arisen' = Arisen
    BY <1>3 DEF Arisen
  <2> QED
    BY <2>1, UnseenStep
<1> QED
  BY <1>3, TimeStep

\* The end of a run that was not stopped: a success, or a breakdown.
LEMMA CollectRefines ==
    ASSUME RunInv, Collect
    PROVE  Abstract!ContractNext
<1> USE DEF Collect, Finished, inputVars, terminatorVars, processVars, callVars,
            finalizationVars, helperVars
<1>1. /\ returned = None /\ reason = None /\ status # None /\ ~exceeded /\ running = {}
      /\ reason' = None
  BY DEF RunInv, StoppedInOrder, Watching, StatusIsCollected, LimitIsLookedAtLast
<1>2. Arisen' = Arisen /\ Unkilled' = Unkilled /\ "OutputLimitExceeded" \notin Arisen
  BY <1>1 DEF Arisen, Unkilled
<1>3. Promise = None
  BY <1>1 DEF Promise
<1>4. \/ returned'.kind = "Ok"
      \/ returned'.kind \in {"TimeFailed", "HelperFailed"}
  OBVIOUS
<1>5. returned' # None
  <2>1. returned' \in RunResult
    BY DEF RunResult, ResultKind, StopReason, StopCondition, RunInv, RunStateType,
           TerminatorInv, TerminatorTypeOK
  <2> QED
    BY <2>1, ResultAssumption
<1>6. Promise' = [kind |-> returned'.kind, killed |-> FALSE]
  BY <1>1, <1>5 DEF Promise
<1>7. CASE returned'.kind = "Ok"
  BY <1>1, <1>2, <1>3, <1>6, <1>7 DEF Abstract!ContractNext, Abstract!Succeed
<1>8. CASE returned'.kind \in {"TimeFailed", "HelperFailed"}
  <2>1. Abstract!Fail(returned'.kind, FALSE)
    BY <1>1, <1>2, <1>3, <1>6, <1>8 DEF Abstract!Fail, Abstract!Breakdown
  <2> QED
    BY <1>8, <2>1 DEF Abstract!ContractNext, Abstract!Breakdown
<1> QED
  BY <1>4, <1>7, <1>8

\* Stopping the child and the helpers is progress, or nothing to the contract.
LEMMA StoppingRefines ==
    ASSUME RunInv,
           \/ BeginTermination \/ TerminationStep \/ AfterTermination \/ FinalizationStep
    PROVE  [Abstract!ContractNext]_(Abstract!contractVars)
<1>1. returned = None /\ returned' = None
  BY DEF RunInv, StoppedInOrder, BeginTermination, TerminationStep, AfterTermination,
         FinalizationStep, runnerVars
<1>2. UNCHANGED <<policy, cancelled, exceeded, elapsed, status, running>>
  <2> USE DEF inputVars, finalizationVars, helperVars, terminatorVars, processVars
  <2>1. CASE BeginTermination
    BY <2>1 DEF BeginTermination, Terminate
  <2>2. CASE TerminationStep
    BY <2>2 DEF TerminationStep, TerminatorStep, KillTreeSucceeds, KillTreeFails, SkipTree,
          CheckExit, KillChildSucceeds, KillChildFails, ConfirmExit, FinishWait
  <2>3. CASE AfterTermination
    BY <2>3 DEF AfterTermination, BeginFinalization
  <2>4. CASE FinalizationStep
    BY <2>4 DEF FinalizationStep, FinalizeStep, CancelHelper, SkipAbsentHelper, JoinHelper,
          SleepForHelper, DetachHelper
  <2> QED
    BY <2>1, <2>2, <2>3, <2>4
<1> QED
  BY <1>1, <1>2, ProgressStep

\* A terminated command that reports no failed kill has left nothing unkilled.
LEMMA NothingUnkilled ==
    ASSUME RunInv, tpc = "done", ~Reported("tree"), ~Reported("child")
    PROVE  Unkilled = {}
  BY DEF RunInv, TerminatorInv, TreeIsAccountedFor, ChildIsAccountedFor, Unkilled, Untouched

\* The stopped run returns the reason it was stopped for.
LEMMA ReturnStoppedRefines ==
    ASSUME RunInv, ReturnStopped
    PROVE  Abstract!ContractNext
<1>0. PICK clockFailed \in BOOLEAN :
          Finished(reason, StoppedOutput(clockFailed), HelperFailures)
  BY DEF ReturnStopped
<1> USE <1>0 DEF ReturnStopped, Finished, inputVars, terminatorVars, processVars,
                 callVars, finalizationVars, helperVars
<1>1. returned = None /\ tpc = "done" /\ reason \in StopReason /\ reason # None
  BY RunAssumption DEF RunInv, StoppedInOrder, StopReason, StopCondition
<1>2. Arisen' = Arisen /\ Unkilled' = Unkilled
  BY DEF Arisen, Unkilled
<1>3. Promise = None
  BY <1>1 DEF Promise
<1>4. returned' # None
  <2>1. StoppedOutput(clockFailed) \in {"none", "captured", "whole"}
    BY DEF StoppedOutput
  <2>2. HelperFailures \in SUBSET Helper
    BY DEF HelperFailures, RunInv, RunStateType, FinalizationInv, FinalizationTypeOK
  <2>3. failures \in Seq(CleanupFailure)
    BY DEF RunInv, TerminatorInv, TerminatorTypeOK
  <2>4. returned' \in RunResult
    BY <1>1, <2>1, <2>2, <2>3 DEF RunResult, ResultKind
  <2> QED
    BY <2>4, ResultAssumption
<1> DEFINE killed == ~Reported("tree") /\ ~Reported("child")
<1>5. Promise' = [kind |-> reason, killed |-> killed]
  BY <1>1, <1>4 DEF Promise, Reported
<1>6. reason \in Arisen \cup Abstract!Breakdown
  BY <1>1 DEF RunInv, ReasonArose, Arisen, StopReason, StopCondition, Abstract!Breakdown
<1>7. killed => ~(Unkilled # {})
  BY <1>1, NothingUnkilled
<1>8. Abstract!Fail(reason, killed)
  BY <1>1, <1>2, <1>3, <1>5, <1>6, <1>7 DEF Abstract!Fail
<1>9. reason \in Abstract!StopCondition \cup Abstract!Breakdown /\ killed \in BOOLEAN
  BY <1>1 DEF StopReason, StopCondition, Abstract!StopCondition, Abstract!Breakdown
<1> QED
  BY <1>8, <1>9 DEF Abstract!ContractNext

\* Whatever has happened since the spawn, nothing has been returned.
LEMMA InitRefines == RunInit => Abstract!ContractInit
<1> SUFFICES ASSUME RunInit PROVE Abstract!ContractInit
  OBVIOUS
<1> USE DEF RunInit
<1>1. Arisen \in SUBSET Abstract!StopCondition
  BY DEF Arisen, StopCondition, Abstract!StopCondition
<1>2. Promise = None
  BY DEF Promise
<1>3. /\ (status # None) \in BOOLEAN
      /\ (running = {}) \in BOOLEAN
      /\ (Unkilled # {}) \in BOOLEAN
  OBVIOUS
<1> QED
  BY <1>1, <1>2, <1>3 DEF Abstract!ContractInit

\* Every step of a run is a step of the contract or nothing to it.
LEMMA StepRefines ==
    RunInv /\ [RunNext]_runVars => [Abstract!ContractNext]_(Abstract!contractVars)
<1> SUFFICES ASSUME RunInv, [RunNext]_runVars
             PROVE  [Abstract!ContractNext]_(Abstract!contractVars)
  OBVIOUS
<1>1. CASE Monitor
  BY <1>1, MonitorRefines, CollectRefines DEF Monitor
<1>2. CASE Stopping
  BY <1>2, StoppingRefines, ReturnStoppedRefines DEF Stopping
<1>3. CASE Environment
  BY <1>3, EnvironmentRefines
<1>4. CASE UNCHANGED runVars
  <2> USE <1>4 DEF runVars, inputVars, runnerVars, terminatorVars, processVars, callVars,
                   finalizationVars, helperVars
  <2>1. Arisen' = Arisen
    BY DEF Arisen
  <2> QED
    BY <2>1, UnseenStep
<1> QED
  BY <1>1, <1>2, <1>3, <1>4 DEF RunNext, RunnerStep

\* A run implements the contract of run(): it returns once, for a reason that
\* really arose, it succeeds only when the child has exited, the output is all in
\* and the limit was kept, and no error that claims the processes were killed
\* leaves one behind (wait_for_completion, stop_and_finalize, complete).
THEOREM RunImplementsContract == RunSpec => ImplementsContract
  BY InitRefines, StepRefines, RunInvAlways, PTL
     DEF RunSpec, ImplementsContract, Abstract!Contract

(***************************************************************************)
(* Which event decides.  Each half of EventPrecedence rests on a predicate *)
(* that, once it holds, holds for the rest of the run.                     *)
(***************************************************************************)

\* An exceeded limit is about to be looked at, or has decided.
LimitDecides ==
    /\ exceeded
    /\ \/ rpc \in {"exceeded", "finished", "last"}
       \/ /\ rpc \in {"terminate", "finalize", "returned"}
          /\ reason = "OutputLimitExceeded"
          /\ returned # None => returned.kind = "OutputLimitExceeded"

\* The exit is about to be looked at, or has been; no cancellation or timeout
\* is looked at any more.
ExitDecides ==
    /\ status # None /\ running = {}
    /\ reason \notin {"Cancelled", "TimedOut"}
    /\ \/ rpc \in {"try", "finished", "last", "collect", "terminate", "finalize", "returned"}
       \/ rpc = "exceeded" /\ loop = "run"

\* The steps that are not the runner's take back no event and touch no result.
LEMMA EnvironmentKeepsEvents ==
    ASSUME RunInv, Environment \/ UNCHANGED runVars
    PROVE  /\ UNCHANGED runnerVars
           /\ exceeded => exceeded'
           /\ status # None => status' # None
           /\ running = {} => running' = {}
<1> USE DEF inputVars, runnerVars, terminatorVars, processVars, finalizationVars, helperVars
<1>1. CASE ProcessActs
  BY <1>1 DEF ProcessActs, ProcessStep, ProcessExits, ChildLeavesGroup, ChildForks,
       RunInv, TerminatorInv, StatusIsFinal
<1>2. CASE \E h \in Helper : HelperActs(h)
  BY <1>2 DEF HelperActs, HelperReturns
<1>3. CASE LimitPassed \/ CallerCancels \/ TimePasses
  BY <1>3 DEF LimitPassed, CallerCancels, TimePasses, DeadlineNears
<1>4. CASE UNCHANGED runVars
  BY <1>4 DEF runVars
<1> QED
  BY <1>1, <1>2, <1>3, <1>4 DEF Environment

\* Stopping takes back no event either, and keeps the reason.
LEMMA StoppingKeepsEvents ==
    ASSUME RunInv, Stopping
    PROVE  /\ UNCHANGED <<exceeded, status, running, reason>>
           /\ rpc \in {"terminate", "finalize"}
           /\ rpc' \in {"terminate", "finalize", "returned"}
           /\ returned = None
           /\ returned' # None => returned'.kind = reason
<1> USE DEF inputVars, runnerVars, terminatorVars, processVars, callVars, finalizationVars,
            helperVars
<1>1. CASE BeginTermination \/ TerminationStep
  BY <1>1 DEF BeginTermination, TerminationStep, Terminate, TerminatorStep,
       KillTreeSucceeds, KillTreeFails, SkipTree, CheckExit, KillChildSucceeds,
       KillChildFails, ConfirmExit, FinishWait, RunInv, StoppedInOrder
<1>2. CASE AfterTermination
  BY <1>2 DEF AfterTermination, BeginFinalization, RunInv, StoppedInOrder
<1>3. CASE FinalizationStep
  BY <1>3 DEF FinalizationStep, FinalizeStep, CancelHelper, SkipAbsentHelper, JoinHelper,
       SleepForHelper, DetachHelper, RunInv, StoppedInOrder
<1>4. CASE ReturnStopped
  BY <1>4 DEF ReturnStopped, Finished, RunInv, StoppedInOrder
<1> QED
  BY <1>1, <1>2, <1>3, <1>4 DEF Stopping

\* A limit that was noticed stays what decides.
LEMMA LimitDecidesStep ==
    RunInv /\ LimitDecides /\ [RunNext]_runVars => LimitDecides'
<1> SUFFICES ASSUME RunInv, LimitDecides, [RunNext]_runVars PROVE LimitDecides'
  OBVIOUS
<1> USE DEF LimitDecides
<1>1. CASE Monitor
  <2> USE DEF StopFor, Advance, MonitorOnly
  <2>1. Monitored(policy) /\ returned = None /\ rpc \in {"exceeded", "finished", "last"}
    BY <1>1 DEF Monitored, RunInv, OptionsAreKept, StoppedInOrder, Watching, Monitor,
         BlockingWait, CheckExceeded, TryWait, CheckFinished, CheckCancellation,
         CheckTimeout, Sleep, CheckLast, Collect
  <2>2. CheckExceeded \/ CheckFinished \/ CheckLast
    BY <1>1, <2>1 DEF Monitor, BlockingWait, CheckExceeded, TryWait, CheckFinished,
         CheckCancellation, CheckTimeout, Sleep, CheckLast, Collect
  <2> QED
    BY <2>1, <2>2 DEF CheckExceeded, CheckFinished, CheckLast
<1>2. CASE Stopping
  BY <1>2, StoppingKeepsEvents
<1>3. CASE Environment \/ UNCHANGED runVars
  BY <1>3, EnvironmentKeepsEvents DEF runnerVars
<1> QED
  BY <1>1, <1>2, <1>3 DEF RunNext, RunnerStep

\* An exit that was noticed stays what decides.
LEMMA ExitDecidesStep ==
    RunInv /\ ExitDecides /\ [RunNext]_runVars => ExitDecides'
<1> SUFFICES ASSUME RunInv, ExitDecides, [RunNext]_runVars PROVE ExitDecides'
  OBVIOUS
<1> USE DEF ExitDecides
<1>1. CASE Monitor
  <2> USE DEF StopFor, Advance, MonitorOnly, terminatorVars, processVars, finalizationVars,
              helperVars
  <2>1. BlockingWait \/ CheckExceeded \/ TryWait \/ CheckFinished \/ CheckLast \/ Collect
    BY <1>1 DEF Monitor, CheckCancellation, CheckTimeout, Sleep
  <2>2. CASE BlockingWait \/ TryWait \/ CheckFinished
    BY <2>2 DEF BlockingWait, TryWait, CheckFinished, ChildExited
  <2>3. CASE CheckExceeded \/ CheckLast
    BY <2>3 DEF CheckExceeded, CheckLast
  <2>4. CASE Collect
    BY <2>4 DEF Collect, Finished, inputVars
  <2> QED
    BY <2>1, <2>2, <2>3, <2>4
<1>2. CASE Stopping
  BY <1>2, StoppingKeepsEvents
<1>3. CASE Environment \/ UNCHANGED runVars
  BY <1>3, EnvironmentKeepsEvents DEF runnerVars
<1> QED
  BY <1>1, <1>2, <1>3 DEF RunNext, RunnerStep

\* An exceeded limit that a poll can see decides the result, and a command that
\* has come to its end before a poll is never turned into a cancelled or timed
\* out one (the order of the checks in wait_for_event and wait_for_io_event).
THEOREM PollsDecideInOrder == RunSpec => EventPrecedence
<1>1. RunInv /\ exceeded /\ rpc \in {"exceeded", "finished", "last"} => LimitDecides
  BY DEF LimitDecides
<1>2. RunInv /\ LimitDecides => (returned # None => returned.kind = "OutputLimitExceeded")
  BY DEF LimitDecides, RunInv, StoppedInOrder
<1>3. RunInv /\ Ended /\ (rpc \in {"try", "finished", "last"}
                            \/ (rpc = "exceeded" /\ loop = "run")) => ExitDecides
  BY RunAssumption DEF ExitDecides, Ended, RunInv, StoppedInOrder, Watching
<1>4. ExitDecides => reason \notin {"Cancelled", "TimedOut"}
  BY DEF ExitDecides
<1>5. RunSpec => LimitComesFirst
  BY <1>1, <1>2, LimitDecidesStep, RunInvAlways, PTL DEF RunSpec, LimitComesFirst
<1>6. RunSpec => EndedRunIsNotStopped
  BY <1>3, <1>4, ExitDecidesStep, RunInvAlways, PTL DEF RunSpec, EndedRunIsNotStopped
<1> QED
  BY <1>5, <1>6 DEF EventPrecedence

(***************************************************************************)
(* The helpers.  What RunningCommand has them do is HelperContract, no     *)
(* more and no less; OutputReadersProofs and StdinWriterProofs prove that  *)
(* the threads keep to it.                                                 *)
(***************************************************************************)

SeenHelpers ==
    INSTANCE HelperContract WITH
        Helpers <- Helper,
        Readers <- {"stdout", "stderr"},
        failed  <- helperFailed,
        limited <- policy.budget,
        passed  <- exceeded

\* What is read of the helpers.
HelpersSeen == <<running, helperFailed, policy, exceeded>>

\* What a start hands over is a state that helpers can be in.
LEMMA RunBeginsWithHelpers == RunInit => SeenHelpers!HelperInit
<1> SUFFICES ASSUME RunInit PROVE SeenHelpers!HelperInit
  OBVIOUS
<1>1. running \in SUBSET Helper /\ helperFailed \in SUBSET (Helper \ running)
  BY DEF RunInit, FinalizationInit
<1>2. policy.budget \in BOOLEAN
  BY RunAssumption DEF RunInit
<1>3. exceeded \in {FALSE, policy.budget}
  BY <1>2 DEF RunInit
<1> QED
  BY <1>1, <1>2, <1>3 DEF SeenHelpers!HelperInit

\* The runner does nothing that helpers do.
LEMMA RunnerLeavesHelpers == RunnerStep => UNCHANGED HelpersSeen
<1> SUFFICES ASSUME RunnerStep PROVE UNCHANGED HelpersSeen
  OBVIOUS
<1> USE DEF HelpersSeen, inputVars, finalizationVars, helperVars
<1>1. CASE Monitor
  BY <1>1 DEF Monitor, BlockingWait, CheckExceeded, TryWait, CheckFinished, CheckCancellation,
     CheckTimeout, Sleep, CheckLast, Collect, Finished, StopFor, ChildExited, Advance, MonitorOnly
<1>2. CASE Stopping
  BY <1>2 DEF Stopping, BeginTermination, TerminationStep, AfterTermination, FinalizationStep,
     ReturnStopped, Finished, BeginFinalization, FinalizeStep, CancelHelper, SkipAbsentHelper,
     JoinHelper, SleepForHelper, DetachHelper
<1> QED
  BY <1>1, <1>2 DEF RunnerStep

\* The helpers of every run return once, keep their failures, and pass the limit
\* only while a reader is at work: so the look at the budget that follows the
\* last helper's return (running_command.rs, CheckLast) sees what stays true.
THEOREM RunRestsOnHelpers == RunSpec => SeenHelpers!HelperSpec
<1>1. RunInit => SeenHelpers!HelperInit
  BY RunBeginsWithHelpers
<1>2. [RunNext]_runVars => [SeenHelpers!HelperNext]_(SeenHelpers!helperContractVars)
  <2> SUFFICES ASSUME [RunNext]_runVars
               PROVE  SeenHelpers!HelperNext \/ UNCHANGED SeenHelpers!helperContractVars
    OBVIOUS
  <2>1. UNCHANGED HelpersSeen => UNCHANGED SeenHelpers!helperContractVars
    BY DEF HelpersSeen, SeenHelpers!helperContractVars
  <2>2. CASE UNCHANGED runVars
    BY <2>1, <2>2 DEF runVars, inputVars, finalizationVars, helperVars, HelpersSeen
  <2>3. CASE RunnerStep
    BY <2>1, <2>3, RunnerLeavesHelpers
  <2>4. CASE ProcessActs \/ CallerCancels \/ TimePasses
    <3>1. UNCHANGED HelpersSeen
      BY <2>4 DEF ProcessActs, CallerCancels, TimePasses, DeadlineNears, inputVars,
         finalizationVars, helperVars, HelpersSeen
    <3> QED
      BY <2>1, <3>1
  <2>5. CASE LimitPassed
    <3>1. SeenHelpers!LimitIsPassed
      BY <2>5 DEF LimitPassed, SeenHelpers!LimitIsPassed, finalizationVars, helperVars
    <3> QED
      BY <3>1 DEF SeenHelpers!HelperNext
  <2>6. ASSUME NEW h \in Helper, HelperActs(h)
        PROVE  SeenHelpers!HelperNext
    <3>1. /\ h \in running /\ running' = running \ {h}
          /\ UNCHANGED <<policy, exceeded>>
      BY <2>6 DEF HelperActs, HelperReturns
    <3>2. helperFailed' \in {helperFailed, helperFailed \cup {h}}
      BY <2>6 DEF HelperActs
    <3>3. SeenHelpers!Returns(h)
      BY <3>1, <3>2 DEF SeenHelpers!Returns
    <3> QED
      BY <3>3 DEF SeenHelpers!HelperNext
  <2> QED
    BY <2>2, <2>3, <2>4, <2>5, <2>6 DEF RunNext, Environment
<1> QED
  BY <1>1, <1>2, PTL DEF RunSpec, SeenHelpers!HelperSpec

\* Conversely, when every helper may fail, a run allows for whatever helpers may
\* do, at any of its steps: no order of returns, failures and passing the limit
\* is left out of what is proved of a run.
THEOREM RunAllowsHelpers ==
    ASSUME MayFail = Helper,
           SeenHelpers!HelperNext,
           UNCHANGED <<terminatorVars, present, finalizeVars, policy, cancelled, elapsed, runnerVars>>
    PROVE  Environment
<1>1. CASE SeenHelpers!LimitIsPassed
  <2>1. LimitPassed
    BY <1>1 DEF SeenHelpers!LimitIsPassed, LimitPassed, finalizationVars, helperVars
  <2> QED
    BY <2>1 DEF Environment
<1>2. ASSUME NEW h \in Helper, SeenHelpers!Returns(h)
      PROVE  Environment
  <2>1. HelperReturns(h)
    BY <1>2 DEF SeenHelpers!Returns, HelperReturns
  <2>2. helperFailed' \in {helperFailed, helperFailed \cup ({h} \cap MayFail)} /\ exceeded' = exceeded
    BY <1>2 DEF SeenHelpers!Returns
  <2>3. HelperActs(h)
    BY <2>1, <2>2 DEF HelperActs
  <2> QED
    BY <2>3 DEF Environment
<1> QED
  BY <1>1, <1>2 DEF SeenHelpers!HelperNext

\* The part of a run's helpers that OutputReaders is about, and that StdinWriter is
\* about, in the terms in which those are proved to implement HelperContract.
ReaderHelper == {"stdout", "stderr"}

TheReaders ==
    INSTANCE HelperContract WITH
        Helpers <- ReaderHelper,
        Readers <- ReaderHelper,
        running <- running \cap ReaderHelper,
        failed  <- helperFailed \cap ReaderHelper,
        limited <- policy.budget,
        passed  <- exceeded

TheWriter ==
    INSTANCE HelperContract WITH
        Helpers <- {"stdin"},
        Readers <- {},
        running <- running \cap {"stdin"},
        failed  <- helperFailed \cap {"stdin"},
        limited <- FALSE,
        passed  <- FALSE

ReadersSeen ==
    <<running \cap ReaderHelper, helperFailed \cap ReaderHelper, policy.budget, exceeded>>

WriterSeen == <<running \cap {"stdin"}, helperFailed \cap {"stdin"}>>

\* There are no other helpers than those.
OnlyHelpers == running \subseteq Helper /\ helperFailed \subseteq Helper

\* A step of the readers, or of the writer, is one of the run's helpers.
LEMMA OneOfThemActs ==
    ASSUME OnlyHelpers, OnlyHelpers',
           \/ TheReaders!HelperNext /\ UNCHANGED WriterSeen
           \/ TheWriter!HelperNext /\ UNCHANGED ReadersSeen
    PROVE  SeenHelpers!HelperNext
<1> USE DEF ReadersSeen, WriterSeen, OnlyHelpers, Helper, ReaderHelper
<1>0. /\ running = (running \cap ReaderHelper) \cup (running \cap {"stdin"})
      /\ running' = (running' \cap ReaderHelper) \cup (running' \cap {"stdin"})
      /\ helperFailed = (helperFailed \cap ReaderHelper) \cup (helperFailed \cap {"stdin"})
      /\ helperFailed' = (helperFailed' \cap ReaderHelper) \cup (helperFailed' \cap {"stdin"})
  OBVIOUS
<1>1. CASE TheReaders!LimitIsPassed /\ UNCHANGED WriterSeen
  <2>1. running' = running /\ helperFailed' = helperFailed
    <3>1. /\ running' \cap ReaderHelper = running \cap ReaderHelper
          /\ helperFailed' \cap ReaderHelper = helperFailed \cap ReaderHelper
      BY <1>1 DEF TheReaders!LimitIsPassed
    <3>2. /\ running' \cap {"stdin"} = running \cap {"stdin"}
          /\ helperFailed' \cap {"stdin"} = helperFailed \cap {"stdin"}
      BY <1>1
    <3> QED
      BY ONLY <1>0, <3>1, <3>2
  <2>2. SeenHelpers!LimitIsPassed
    BY <1>1, <2>1 DEF TheReaders!LimitIsPassed, SeenHelpers!LimitIsPassed
  <2> QED
    BY <2>2 DEF SeenHelpers!HelperNext
<1>2. ASSUME NEW h \in ReaderHelper, TheReaders!Returns(h), UNCHANGED WriterSeen
      PROVE  SeenHelpers!HelperNext
  <2>1. h \in running /\ running' = running \ {h}
    BY <1>2 DEF TheReaders!Returns
  <2>2. helperFailed' \in {helperFailed, helperFailed \cup {h}}
    <3>1. helperFailed' \cap ReaderHelper \in {helperFailed \cap ReaderHelper,
                                               (helperFailed \cap ReaderHelper) \cup {h}}
      BY <1>2 DEF TheReaders!Returns
    <3>2. helperFailed' \cap {"stdin"} = helperFailed \cap {"stdin"}
      BY <1>2
    <3>3. CASE helperFailed' \cap ReaderHelper = helperFailed \cap ReaderHelper
      BY ONLY <1>0, <3>2, <3>3
    <3>4. CASE helperFailed' \cap ReaderHelper = (helperFailed \cap ReaderHelper) \cup {h}
      BY ONLY <1>0, <3>2, <3>4
    <3> QED
      BY ONLY <3>1, <3>3, <3>4
  <2>3. SeenHelpers!Returns(h)
    BY <1>2, <2>1, <2>2 DEF TheReaders!Returns, SeenHelpers!Returns
  <2> QED
    BY <2>3 DEF SeenHelpers!HelperNext
<1>3. CASE TheWriter!Returns("stdin") /\ UNCHANGED ReadersSeen
  <2>1. "stdin" \in running /\ running' = running \ {"stdin"}
    BY <1>3 DEF TheWriter!Returns
  <2>2. helperFailed' \in {helperFailed, helperFailed \cup {"stdin"}}
    <3>1. helperFailed' \cap {"stdin"} \in {helperFailed \cap {"stdin"},
                                            (helperFailed \cap {"stdin"}) \cup {"stdin"}}
      BY <1>3 DEF TheWriter!Returns
    <3>2. helperFailed' \cap ReaderHelper = helperFailed \cap ReaderHelper
      BY <1>3
    <3>3. CASE helperFailed' \cap {"stdin"} = helperFailed \cap {"stdin"}
      BY ONLY <1>0, <3>2, <3>3
    <3>4. CASE helperFailed' \cap {"stdin"} = (helperFailed \cap {"stdin"}) \cup {"stdin"}
      BY ONLY <1>0, <3>2, <3>4
    <3> QED
      BY ONLY <3>1, <3>3, <3>4
  <2>3. SeenHelpers!Returns("stdin")
    BY <1>3, <2>1, <2>2 DEF SeenHelpers!Returns
  <2> QED
    BY <2>3 DEF SeenHelpers!HelperNext
<1>4. ~TheWriter!LimitIsPassed
  BY DEF TheWriter!LimitIsPassed
<1> QED
  BY <1>1, <1>2, <1>3, <1>4 DEF TheReaders!HelperNext, TheWriter!HelperNext

\* Two readers and a writer that each keep to the contract, and of which no two
\* act in the same step, are together what a run takes its helpers for: so what
\* is proved of them one by one is all that a run needs of them.
THEOREM HelpersCompose ==
    /\ TheReaders!HelperSpec
    /\ TheWriter!HelperSpec
    /\ []OnlyHelpers
    /\ [][UNCHANGED ReadersSeen \/ UNCHANGED WriterSeen]_<<ReadersSeen, WriterSeen>>
    => SeenHelpers!HelperSpec
<1> DEFINE ReadersGo == [TheReaders!HelperNext]_(TheReaders!helperContractVars)
           WriterGoes == [TheWriter!HelperNext]_(TheWriter!helperContractVars)
           OneAtATime ==
               [UNCHANGED ReadersSeen \/ UNCHANGED WriterSeen]_<<ReadersSeen, WriterSeen>>
<1>1. TheReaders!HelperInit /\ TheWriter!HelperInit /\ OnlyHelpers => SeenHelpers!HelperInit
  BY DEF TheReaders!HelperInit, TheWriter!HelperInit, SeenHelpers!HelperInit, OnlyHelpers,
     Helper, ReaderHelper
<1>2. OnlyHelpers /\ OnlyHelpers' /\ ReadersGo /\ WriterGoes /\ OneAtATime
          => [SeenHelpers!HelperNext]_(SeenHelpers!helperContractVars)
  <2> SUFFICES ASSUME OnlyHelpers, OnlyHelpers', ReadersGo, WriterGoes, OneAtATime
               PROVE  SeenHelpers!HelperNext \/ UNCHANGED SeenHelpers!helperContractVars
    OBVIOUS
  <2>1. UNCHANGED ReadersSeen \/ UNCHANGED WriterSeen
    BY DEF ReadersSeen, WriterSeen
  <2>2. TheReaders!HelperNext \/ UNCHANGED ReadersSeen
    BY DEF TheReaders!helperContractVars, ReadersSeen
  <2>3. TheWriter!HelperNext \/ UNCHANGED WriterSeen
    BY DEF TheWriter!helperContractVars, WriterSeen
  <2>4. CASE UNCHANGED ReadersSeen /\ UNCHANGED WriterSeen
    BY <2>4 DEF ReadersSeen, WriterSeen, OnlyHelpers, Helper, ReaderHelper,
       SeenHelpers!helperContractVars
  <2> QED
    BY <2>1, <2>2, <2>3, <2>4, OneOfThemActs
<1> QED
  BY <1>1, <1>2, PTL
     DEF TheReaders!HelperSpec, TheWriter!HelperSpec, SeenHelpers!HelperSpec

(***************************************************************************)
(* How long stopping takes.                                                *)
(***************************************************************************)

\* The steps that stop_and_finalize has still to make, at most.
ReturnLeft == IF rpc = "returned" THEN 0 ELSE 1
StopStepsLeft == CallsLeft + VisitsLeft + ReturnLeft

\* Stopping uses them up, and nothing that happens meanwhile gives one back.
StoppingRunsOut ==
    /\ Stopping => StopStepsLeft' < StopStepsLeft
    /\ StopStepsLeft' <= StopStepsLeft

\* The counts are numbers.
LEMMA StopCountType ==
    RunInv => CountsAreNumbers /\ StopStepsLeft \in 0..(ExitChecks + Window + 12)
<1> SUFFICES ASSUME RunInv
             PROVE  CountsAreNumbers /\ StopStepsLeft \in 0..(ExitChecks + Window + 12)
  OBVIOUS
<1>1. CallsLeft \in 0..(ExitChecks + 4) /\ VisitsLeft \in 0..(Window + 7)
  BY CountsAreBounded DEF RunInv
<1> QED
  BY <1>1, TerminatorAssumption, FinalizationAssumption
     DEF StopStepsLeft, ReturnLeft, CountsAreNumbers

\* Each step of stopping is one of its two halves, one between them or the last.
LEMMA StoppingStepRunsOut ==
    ASSUME RunInv, CountsAreNumbers, CountsAreNumbers', Stopping
    PROVE  StopStepsLeft' < StopStepsLeft
<1>0. /\ CallsLeft \in Nat /\ VisitsLeft \in Nat /\ CallsLeft' \in Nat /\ VisitsLeft' \in Nat
      /\ ReturnLeft \in Nat /\ ReturnLeft' \in Nat /\ TerminatorInv /\ FinalizationInv
  BY DEF RunInv, CountsAreNumbers, ReturnLeft
<1>1. CASE BeginTermination \/ TerminationStep
  <2>1. CallsLeft' < CallsLeft
    BY <1>0, <1>1, CallsRunOut DEF BeginTermination, TerminationStep, Terminate
  <2>2. VisitsLeft' = VisitsLeft
    BY <1>0, <1>1, CountsAreKept
       DEF BeginTermination, TerminationStep, finalizationVars, finalizeVars
  <2>3. ReturnLeft' = ReturnLeft
    BY <1>1 DEF BeginTermination, TerminationStep, runnerVars, ReturnLeft
  <2> QED
    BY ONLY <1>0, <2>1, <2>2, <2>3, SumFalls, Zenon DEF StopStepsLeft, NotRaised
<1>2. CASE AfterTermination \/ FinalizationStep
  <2>1. VisitsLeft' < VisitsLeft
    BY <1>0, <1>2, VisitsRunOut DEF AfterTermination, FinalizationStep
  <2>2. CallsLeft' = CallsLeft
    BY <1>0, <1>2, CountsAreKept DEF AfterTermination, FinalizationStep, terminatorVars, callVars
  <2>3. ReturnLeft' = ReturnLeft
    BY <1>2 DEF AfterTermination, FinalizationStep, runnerVars, ReturnLeft
  <2> QED
    BY ONLY <1>0, <2>1, <2>2, <2>3, SumFalls, Zenon DEF StopStepsLeft, NotRaised
<1>3. CASE ReturnStopped
  <2>1. CallsLeft' = CallsLeft /\ VisitsLeft' = VisitsLeft
    BY <1>0, <1>3, CountsAreKept
       DEF ReturnStopped, terminatorVars, callVars, finalizationVars, finalizeVars
  <2>2. ReturnLeft' < ReturnLeft
    BY <1>3 DEF ReturnStopped, Finished, ReturnLeft
  <2> QED
    BY ONLY <1>0, <2>1, <2>2, SumFalls, Zenon DEF StopStepsLeft, NotRaised
<1> QED
  BY <1>1, <1>2, <1>3 DEF Stopping

\* The monitor, the child, the helpers, the caller and the clock raise no count.
LEMMA OthersKeepCounts ==
    ASSUME RunInv, CountsAreNumbers, CountsAreNumbers',
           Monitor \/ Environment \/ UNCHANGED runVars
    PROVE  StopStepsLeft' <= StopStepsLeft
<1>0. /\ CallsLeft \in Nat /\ VisitsLeft \in Nat /\ CallsLeft' \in Nat /\ VisitsLeft' \in Nat
      /\ ReturnLeft \in Nat /\ ReturnLeft' \in Nat /\ TerminatorInv /\ FinalizationInv
  BY DEF RunInv, CountsAreNumbers, ReturnLeft
<1>1. NotRaised(ReturnLeft, ReturnLeft')
  BY DEF NotRaised, ReturnLeft, Monitor, BlockingWait, CheckExceeded, TryWait, CheckFinished, CheckCancellation,
     CheckTimeout, Sleep, CheckLast, Collect, Environment, ProcessActs, HelperActs, LimitPassed,
     CallerCancels, TimePasses, runVars, runnerVars
<1>2. CallsLeft' = CallsLeft
  <2>1. ProcessStep \/ UNCHANGED <<tpc, checks>>
    BY DEF Monitor, BlockingWait, CheckExceeded, TryWait, CheckFinished, CheckCancellation,
       CheckTimeout, Sleep, CheckLast, Collect, StopFor, ChildExited, Advance, MonitorOnly,
       Environment, ProcessActs, HelperActs, LimitPassed, CallerCancels, TimePasses, runVars,
       terminatorVars, callVars
  <2> QED
    BY <1>0, <2>1, CountsAreKept
<1>3. NotRaised(VisitsLeft, VisitsLeft')
  <2>1. DeadlineNears \/ UNCHANGED <<fpc, left, turn>>
    BY DEF Monitor, BlockingWait, CheckExceeded, TryWait, CheckFinished, CheckCancellation,
       CheckTimeout, Sleep, CheckLast, Collect, StopFor, ChildExited, Advance, MonitorOnly,
       Environment, ProcessActs, HelperActs, HelperReturns, LimitPassed, CallerCancels,
       TimePasses, runVars, finalizationVars, finalizeVars
  <2> QED
    BY <1>0, <2>1, CountsAreKept DEF NotRaised
<1> QED
  BY ONLY <1>0, <1>1, <1>2, <1>3, SumFalls, Zenon DEF StopStepsLeft, NotRaised

\* Once a run stops its command, the calling thread returns after a number of
\* its own steps that depends on the attempts and the window alone, whatever
\* fails and however many times the child forks, exits or ignores it: only the
\* wait for a child and for helpers that were interrupted can delay it
\* (stop_and_finalize).
THEOREM StoppingIsBounded ==
    RunSpec => /\ [](StopStepsLeft \in 0..(ExitChecks + Window + 12))
               /\ [][StoppingRunsOut]_runVars
<1>1. RunInv => CountsAreNumbers /\ StopStepsLeft \in 0..(ExitChecks + Window + 12)
  BY StopCountType
<1>2. RunInv /\ CountsAreNumbers /\ CountsAreNumbers' /\ [RunNext]_runVars
          => [StoppingRunsOut]_runVars
  <2> SUFFICES ASSUME RunInv, CountsAreNumbers, CountsAreNumbers', RunNext
               PROVE  StoppingRunsOut
    OBVIOUS
  <2>1. CASE Stopping
    <3>1. StopStepsLeft \in Nat /\ StopStepsLeft' \in Nat
      <4>1. ReturnLeft \in Nat /\ ReturnLeft' \in Nat
        BY DEF ReturnLeft
      <4> QED
        BY ONLY CountsAreNumbers, CountsAreNumbers', <4>1, SumOfCounts, Zenon
           DEF StopStepsLeft, CountsAreNumbers
    <3>2. StopStepsLeft' < StopStepsLeft
      BY <2>1, StoppingStepRunsOut
    <3>3. StopStepsLeft' <= StopStepsLeft
      BY ONLY <3>1, <3>2
    <3> QED
      BY ONLY <3>2, <3>3 DEF StoppingRunsOut
  <2>2. CASE ~Stopping
    BY <2>2, OthersKeepCounts DEF StoppingRunsOut, RunNext, RunnerStep
  <2> QED
    BY <2>1, <2>2
<1> QED
  BY <1>1, <1>2, RunInvAlways, PTL DEF RunSpec
=============================================================================
