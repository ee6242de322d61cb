-------------------------- MODULE StartingCommand --------------------------
(***************************************************************************)
(* Starting a command: run_with (command_runner.rs) from its entry to the  *)
(* point where a spawned child with its helper threads is handed to the    *)
(* monitor (RunningCommand), and the guard that undoes a start that fails  *)
(* half way (starting_command.rs): terminate the child                     *)
(* (ProcessTerminator), then end the helpers started so far                *)
(* (HelperFinalization).                                                   *)
(*                                                                         *)
(* What prepare and commit do to files is the subject of IoFiles; here     *)
(* they succeed or fail, and commit may have touched files when it fails.  *)
(***************************************************************************)
EXTENDS ProcessTerminator, HelperFinalization

CONSTANTS
    Policies,   \* the combinations of run options considered
    StartFaults \* the steps of the start that may fail

ASSUME StartAssumption ==
    /\ Policies \subseteq [timeout : BOOLEAN, token : BOOLEAN, budget : BOOLEAN,
                           bytes : BOOLEAN]
    /\ StartFaults \subseteq {"prepare", "commit", "spawn", "clock", "stdin",
                              "takeStdout", "takeStderr", "stdout", "stderr",
                              "elapsed"}
    /\ None \notin [process : Seq(CleanupFailure), helpers : SUBSET Helper]

VARIABLES
    policy,       \* timeout, cancellation token, budget and stdin bytes set?
    cancelled,    \* the shared cancellation token
    inTime,       \* history: it was set before the last check of it
    touched,      \* commit created or truncated a file
    helperFailed, \* helpers that returned an error
    spc,          \* where run_with is
    cause,        \* why the start failed
    report        \* the cleanup failures that come with the cause

startVars == <<policy, cancelled, inTime, touched, helperFailed, spc, cause, report>>
startingVars == <<terminatorVars, finalizationVars, startVars>>

\* The steps before and after the last point where cancellation prevents the
\* start.
BeforeStart == {"entry", "prepare", "lastCheck"}

Starting == {"commit", "spawn", "clock", "stdin", "takeStdout", "takeStderr",
             "stdout", "stderr", "elapsed"}

\* handed: StartingCommand::finish; refused: nothing was spawned;
\* returned: the guard cleaned up.
Over == {"handed", "refused", "returned"}

StartTypeOK ==
    /\ TerminatorTypeOK
    /\ FinalizationTypeOK
    /\ policy \in Policies
    /\ cancelled \in BOOLEAN /\ inTime \in BOOLEAN
    /\ touched \in BOOLEAN
    /\ helperFailed \subseteq Helper
    /\ spc \in BeforeStart \cup Starting \cup {"terminate", "finalize"} \cup Over
    /\ cause \in StartFaults \cup {"CancelledBeforeStart", None}
    /\ report \in [process : Seq(CleanupFailure), helpers : SUBSET Helper] \cup {None}

\* No child and no helper yet.
StartInit ==
    /\ managed = FALSE
    /\ alive = {} /\ group = {} /\ signalled = {}
    /\ status = None
    /\ tpc = "idle" /\ observed = None /\ treeGone = FALSE
    /\ checks = 0 /\ failures = <<>> /\ outcome = None
    /\ present = {} /\ running = {}
    /\ fpc = "idle" /\ turn = 1
    /\ answer = [h \in Helper |-> None]
    /\ left = Window /\ slept = 0
    /\ ended = [h \in Helper |-> None]
    /\ retained = {}
    /\ policy \in Policies
    /\ cancelled = FALSE /\ inTime = FALSE
    /\ touched = FALSE
    /\ helperFailed = {}
    /\ spc = "entry"
    /\ cause = None
    /\ report = None

(***************************************************************************)
(* The environment.                                                        *)
(***************************************************************************)

ProcessActs ==
    /\ ProcessStep
    /\ UNCHANGED <<finalizationVars, startVars>>

HelperActs(h) ==
    /\ HelperReturns(h)
    /\ helperFailed' \in {helperFailed, helperFailed \cup {h}}
    /\ UNCHANGED <<terminatorVars, policy, cancelled, inTime, touched, spc, cause,
                   report>>

CallerCancels ==
    /\ policy.token
    /\ spc \notin Over
    /\ cancelled' = TRUE
    /\ inTime' = (inTime \/ spc \in BeforeStart)
    /\ UNCHANGED <<terminatorVars, finalizationVars, policy, touched, helperFailed,
                   spc, cause, report>>

TimePasses ==
    /\ DeadlineNears
    /\ UNCHANGED <<terminatorVars, startVars>>

(***************************************************************************)
(* run_with.                                                               *)
(***************************************************************************)

Step(from, to) ==
    /\ spc = from
    /\ spc' = to
    /\ UNCHANGED <<policy, cancelled, inTime, helperFailed, cause, report>>

FailAt(step, to) ==
    /\ spc = step /\ step \in StartFaults
    /\ spc' = to
    /\ cause' = step
    /\ UNCHANGED <<policy, cancelled, inTime, helperFailed, report>>

NoChild == UNCHANGED <<terminatorVars, finalizationVars>>

RefuseIfCancelled ==
    /\ cancelled
    /\ spc' = "refused"
    /\ cause' = "CancelledBeforeStart"
    /\ UNCHANGED <<policy, cancelled, inTime, touched, helperFailed, report>>

\* prepare_command_for_run, first half.
Enter ==
    /\ \/ spc = "entry" /\ RefuseIfCancelled
       \/ ~cancelled /\ Step("entry", "prepare") /\ UNCHANGED touched
    /\ NoChild

\* PreparedCommand::prepare
Prepare ==
    /\ Step("prepare", "lastCheck") \/ FailAt("prepare", "refused")
    /\ UNCHANGED touched
    /\ NoChild

\* Mutant: only the check on entry is made.
CheckSkipped ==
    /\ Step("lastCheck", "commit") /\ UNCHANGED touched
    /\ NoChild

\* run_with: the last point where a cancellation prevents the run.
CheckBeforeCommit ==
    /\ \/ spc = "lastCheck" /\ RefuseIfCancelled
       \/ ~cancelled /\ Step("lastCheck", "commit") /\ UNCHANGED touched
    /\ NoChild

\* PreparedCommand::commit; nothing is rolled back when it fails.
Commit ==
    /\ \/ Step("commit", "spawn") /\ touched' \in BOOLEAN
       \/ FailAt("commit", "refused") /\ touched' \in BOOLEAN
    /\ NoChild

\* Mutant: a cancellation token does not ask for a process tree.
ManagedWithoutToken(p) == p.timeout \/ p.budget

ManagesTree(p) == p.timeout \/ p.token \/ p.budget

\* spawn_child: the child leads the tree when the tree is managed.
Spawn ==
    /\ \/ /\ Step("spawn", "clock")
          /\ managed' = ManagesTree(policy)
          /\ alive' = {"child"} /\ group' = {"child"}
          /\ UNCHANGED <<signalled, status, callVars>>
       \/ /\ FailAt("spawn", "refused")
          /\ UNCHANGED terminatorVars
    /\ UNCHANGED <<touched, finalizationVars>>

\* The configured clock is the caller's code: it may panic, and the guard is
\* dropped.
ReadClock ==
    /\ Step("clock", "stdin") \/ FailAt("clock", "terminate")
    /\ UNCHANGED touched
    /\ NoChild

Launch(h) ==
    /\ present' = present \cup {h}
    /\ running' = running \cup {h}

\* Mutant: the thread runs but the guard was not told of it.
LaunchUnguarded(h) ==
    /\ present' = IF h = "stdin" THEN present ELSE present \cup {h}
    /\ running' = running \cup {h}

\* The guard owns a helper as soon as its thread runs.
LaunchGuarded(h) == Launch(h)

\* write_stdin_bytes: nothing to do without bytes; the pipe may be missing, and
\* preparing it, making the cancellation pair or the thread may fail.
StartStdin ==
    /\ \/ /\ policy.bytes
          /\ Step("stdin", "takeStdout")
          /\ LaunchGuarded("stdin")
       \/ /\ ~policy.bytes
          /\ Step("stdin", "takeStdout")
          /\ UNCHANGED helperVars
       \/ /\ policy.bytes
          /\ FailAt("stdin", "terminate")
          /\ UNCHANGED helperVars
    /\ UNCHANGED <<touched, terminatorVars, finalizeVars>>

\* take_output_pipe, for stdout and then for stderr.
TakePipes ==
    /\ \/ Step("takeStdout", "takeStderr") \/ FailAt("takeStdout", "terminate")
       \/ Step("takeStderr", "stdout") \/ FailAt("takeStderr", "terminate")
    /\ UNCHANGED touched
    /\ NoChild

\* start_output_reader, for stdout and then for stderr.
StartReader(stream, next) ==
    /\ \/ /\ Step(stream, next)
          /\ LaunchGuarded(stream)
       \/ /\ FailAt(stream, "terminate")
          /\ UNCHANGED helperVars
    /\ UNCHANGED <<touched, terminatorVars, finalizeVars>>

StartReaders == StartReader("stdout", "stderr") \/ StartReader("stderr", "elapsed")

\* A clock that went backwards, or panics, ends the start; otherwise the guard
\* gives up what it owns to the running command.
HandOver ==
    /\ Step("elapsed", "handed") \/ FailAt("elapsed", "terminate")
    /\ UNCHANGED touched
    /\ NoChild

(***************************************************************************)
(* StartingCommand::cleanup, called by abort and by drop.                  *)
(***************************************************************************)

BeginCleanup ==
    /\ spc = "terminate"
    /\ Terminate(None)
    /\ UNCHANGED <<finalizationVars, startVars>>

TerminationStep ==
    /\ spc = "terminate"
    /\ TerminatorStep
    /\ UNCHANGED <<finalizationVars, startVars>>

\* Mutant: helpers are let go when the child could not be terminated.
SkipHelpersAfterError == spc' = IF outcome = "error" THEN "returned" ELSE "finalize"

\* Mutant: the helpers are looked after once no process is left.
AwaitTheEnd == alive = {} /\ spc' = "finalize"

GoOnToHelpers == spc' = "finalize"

AfterTermination ==
    /\ spc = "terminate" /\ tpc = "done"
    /\ GoOnToHelpers
    /\ BeginFinalization
    /\ UNCHANGED <<terminatorVars, policy, cancelled, inTime, touched, helperFailed,
                   cause, report>>

FinalizationStep ==
    /\ spc = "finalize"
    /\ FinalizeStep
    /\ UNCHANGED <<terminatorVars, startVars>>

\* Cleanup failures of the child, then those of cancel_and_join_started_helpers.
CleanupReport ==
    [process |-> failures,
     helpers |-> retained \cup {h \in helperFailed : ended[h] = "joined"}]

ReturnAborted ==
    /\ spc = "finalize" /\ fpc = "done"
    /\ spc' = "returned"
    /\ report' = CleanupReport
    /\ UNCHANGED <<terminatorVars, finalizationVars, policy, cancelled, inTime, touched,
                   helperFailed, cause>>

(***************************************************************************)
(* Specification.                                                          *)
(***************************************************************************)

StartStep ==
    \/ Enter \/ Prepare \/ CheckBeforeCommit \/ Commit \/ Spawn \/ ReadClock
    \/ StartStdin \/ TakePipes \/ StartReaders \/ HandOver

CleanupStep ==
    \/ BeginCleanup \/ TerminationStep \/ AfterTermination \/ FinalizationStep
    \/ ReturnAborted

RunnerStep == StartStep \/ CleanupStep

StartNext ==
    \/ RunnerStep
    \/ ProcessActs \/ CallerCancels \/ TimePasses
    \/ \E h \in Helper : HelperActs(h)

\* As for a running command: the caller's thread runs, a killed process dies,
\* a helper whose cancellation was delivered returns.  A blocking wait need not
\* fail.
StartFairness ==
    /\ WF_startingVars(RunnerStep /\ (tpc = "wait" => UNCHANGED failures))
    /\ \A p \in Process :
         WF_startingVars(p \in signalled /\ ProcessExits(p) /\ ProcessActs)
    /\ \A h \in Helper : WF_startingVars(answer[h] = "ok" /\ HelperActs(h))

StartSpec == StartInit /\ [][StartNext]_startingVars

FairStartSpec == StartSpec /\ StartFairness

(***************************************************************************)
(* Properties.                                                             *)
(***************************************************************************)

Blamed(failure) == \E i \in DOMAIN report.process : report.process[i] = failure

\* A start that fails after the child was spawned leaves no process behind
\* without saying so: none of the tree under any option that stops commands,
\* and not the child under the others.
FailedStartKillsChild ==
    spc = "returned" /\ ~Blamed("tree") /\ ~Blamed("child") =>
        IF policy.timeout \/ policy.token \/ policy.budget
        THEN group \cap alive \subseteq signalled
        ELSE "child" \in alive => "child" \in signalled

\* No helper thread survives a failed start unreported, at whichever step the
\* start failed and whatever became of the child.
FailedStartEndsHelpers ==
    spc \in {"refused", "returned"} =>
        running \subseteq (IF report = None THEN {} ELSE report.helpers)

\* The monitor is handed what it relies on (RunInit of RunningCommand): a child
\* it has not terminated yet, both readers, the writer exactly if there are
\* bytes, and a process tree exactly if some option may stop the run.
HandsOverWholeCommand ==
    spc = "handed" =>
        /\ tpc = "idle" /\ fpc = "idle"
        /\ present = {"stdout", "stderr"} \cup (IF policy.bytes THEN {"stdin"} ELSE {})
        /\ running \subseteq present
        /\ "child" \in alive \/ status # None
        /\ managed = (policy.timeout \/ policy.token \/ policy.budget)

\* A cancellation that comes before the last check prevents the run: no file is
\* touched, no child is spawned.
CancelledStartDoesNothing ==
    inTime => ~touched /\ alive = {} /\ status = None /\ present = {}

\* A managed child that has moved out of reach of the kill of its group.
Escaped == managed /\ "child" \in alive \ group

\* Every start ends, also one that fails while the child is running and its
\* helpers are blocked on it, unless the child leaves the group that is killed.
StartEnds == <>Escaped \/ <>(spc \in Over)
=============================================================================
