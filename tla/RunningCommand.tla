--------------------------- MODULE RunningCommand ---------------------------
(***************************************************************************)
(* A started command from its first poll to its result                     *)
(* (running_command.rs).  The monitor polls the child, then the helpers,   *)
(* for the first of: an exceeded output limit, the child's exit, a         *)
(* cancellation, a timeout.  On anything but a normal end it terminates    *)
(* the child (ProcessTerminator), ends the helpers (HelperFinalization)    *)
(* and returns the reason it stopped for together with what went wrong     *)
(* while stopping.                                                         *)
(*                                                                         *)
(* Output bytes are not represented: the budget is whether it is exceeded  *)
(* (OutputReaders), a helper is whether it has returned and whether its    *)
(* result is an error.  Time is the number of ticks since the start, which *)
(* stops counting at the timeout.                                          *)
(***************************************************************************)
EXTENDS ProcessTerminator, HelperFinalization

CONSTANTS
    Policies,      \* the combinations of run options considered
    Timeout,       \* the timeout, in ticks
    MayFail,       \* the helpers that may return an error (bounds the model)
    ClockMayFail   \* whether reading the clock or sleeping may fail

ASSUME RunAssumption ==
    /\ Policies \subseteq [timeout : BOOLEAN, token : BOOLEAN, budget : BOOLEAN]
    /\ Timeout \in Nat
    /\ MayFail \subseteq Helper
    /\ ClockMayFail \in BOOLEAN
    /\ None \notin {"OutputLimitExceeded", "Cancelled", "TimedOut", "WaitFailed",
                    "TimeFailed"}

VARIABLES
    policy,       \* which of timeout, cancellation token and budget are set
    cancelled,    \* the shared cancellation token
    exceeded,     \* total_budget.exceeded() is Some
    elapsed,      \* ticks since the command started
    helperFailed, \* helpers that returned an error
    rpc,          \* where the runner is
    loop,         \* "run" in wait_for_event, "io" in wait_for_io_event
    collected,    \* the exit status carried by the event, if any
    reason,       \* the StopReason, once there is one
    returned      \* what wait_for_completion returned

inputVars == <<policy, cancelled, exceeded, elapsed, helperFailed>>
runnerVars == <<rpc, loop, collected, reason, returned>>
runVars == <<terminatorVars, finalizationVars, inputVars, runnerVars>>

StopCondition == {"OutputLimitExceeded", "Cancelled", "TimedOut"}

StopReason == StopCondition \cup {"WaitFailed", "TimeFailed"}

ResultKind == StopReason \cup {"Ok", "HelperFailed"}

\* output: the whole output, what was captured of it, or nothing.
RunResult ==
    [ kind    : ResultKind,
      output  : {"none", "captured", "whole"},
      process : Seq(CleanupFailure),
      helpers : SUBSET Helper ]

ASSUME ResultAssumption == None \notin RunResult

RunTypeOK ==
    /\ TerminatorTypeOK
    /\ FinalizationTypeOK
    /\ policy \in Policies
    /\ cancelled \in BOOLEAN
    /\ exceeded \in BOOLEAN
    /\ elapsed \in 0..Timeout
    /\ helperFailed \subseteq Helper
    /\ rpc \in {"exceeded", "try", "finished", "cancel", "time", "sleep", "last",
                "collect", "terminate", "finalize", "returned"}
    /\ loop \in {"run", "io"}
    /\ collected \in ExitStatus \cup {None}
    /\ reason \in StopReason \cup {None}
    /\ returned \in RunResult \cup {None}

Monitored(p) == p.timeout \/ p.token \/ p.budget

\* What a start hands over: since the spawn the child may have exited, helpers
\* may have returned, and every reason to stop may have arisen.
RunInit ==
    /\ TerminatorInit
    /\ FinalizationInit
    /\ {"stdout", "stderr"} \subseteq present
    /\ policy \in Policies
    /\ managed = Monitored(policy)
    /\ cancelled \in BOOLEAN /\ (cancelled => policy.token)
    /\ exceeded \in BOOLEAN /\ (exceeded => policy.budget)
    /\ elapsed \in 0..Timeout
    /\ helperFailed \in SUBSET (MayFail \cap (present \ running))
    /\ rpc = "exceeded"
    /\ loop = "run"
    /\ collected = None
    /\ reason = None
    /\ returned = None

(***************************************************************************)
(* The environment: the child, the helpers, the caller and the clock.      *)
(***************************************************************************)

ProcessActs ==
    /\ ProcessStep
    /\ UNCHANGED <<finalizationVars, inputVars, runnerVars>>

HelperActs(h) ==
    /\ HelperReturns(h)
    /\ helperFailed' \in {helperFailed, helperFailed \cup ({h} \cap MayFail)}
    /\ UNCHANGED <<terminatorVars, policy, cancelled, exceeded, elapsed,
                   runnerVars>>

\* A reader takes the byte after the last one allowed out of its pipe.
LimitPassed ==
    /\ policy.budget
    /\ running \cap {"stdout", "stderr"} # {}
    /\ exceeded' = TRUE
    /\ UNCHANGED <<terminatorVars, finalizationVars, policy, cancelled, elapsed,
                   helperFailed, runnerVars>>

CallerCancels ==
    /\ policy.token
    /\ cancelled' = TRUE
    /\ UNCHANGED <<terminatorVars, finalizationVars, policy, exceeded, elapsed,
                   helperFailed, runnerVars>>

Later(ticks) == IF ticks < Timeout THEN ticks + 1 ELSE ticks

TimePasses ==
    \/ /\ elapsed' = Later(elapsed)
       /\ UNCHANGED <<terminatorVars, finalizationVars, policy, cancelled,
                      exceeded, helperFailed, runnerVars>>
    \/ DeadlineNears /\ UNCHANGED <<terminatorVars, inputVars, runnerVars>>

(***************************************************************************)
(* The monitor.                                                            *)
(***************************************************************************)

MonitorOnly ==
    UNCHANGED <<terminatorVars, finalizationVars, policy, cancelled, exceeded,
                helperFailed, returned>>

Advance(label) ==
    /\ rpc' = label
    /\ MonitorOnly
    /\ UNCHANGED <<loop, collected, reason, elapsed>>

\* into_exit_status of any event but Exited: stop, with the status seen.
StopFor(why, seen) ==
    /\ rpc' = "terminate"
    /\ reason' = why
    /\ collected' = seen
    /\ MonitorOnly
    /\ UNCHANGED <<loop, elapsed>>

\* Exited: go on to the helpers, which only a monitored run polls.
ChildExited ==
    /\ collected' = status
    /\ loop' = "io"
    /\ rpc' = IF Monitored(policy) THEN "finished" ELSE "last"
    /\ MonitorOnly
    /\ UNCHANGED <<reason, elapsed>>

WaitMayFail == "wait" \in CallFaults

\* Without a timeout, a token and a budget the child is simply waited for.
BlockingWait ==
    /\ rpc = "exceeded" /\ loop = "run" /\ ~Monitored(policy)
    /\ \/ status # None /\ ChildExited
       \/ WaitMayFail /\ StopFor("WaitFailed", None)

\* The limit is looked at first.  The status sampled with it is best effort.
CheckExceeded ==
    /\ rpc = "exceeded" /\ Monitored(policy)
    /\ \/ /\ exceeded
          /\ \/ StopFor("OutputLimitExceeded",
                        IF loop = "run" THEN status ELSE collected)
             \/ /\ loop = "run" /\ WaitMayFail
                /\ StopFor("OutputLimitExceeded", None)
       \/ /\ ~exceeded
          /\ Advance(IF loop = "run" THEN "try" ELSE "cancel")

TryWait ==
    /\ rpc = "try"
    /\ \/ status # None /\ ChildExited
       \/ status = None /\ Advance("cancel")
       \/ WaitMayFail /\ StopFor("WaitFailed", None)

\* Mutants: no look at the budget after the helpers; stop conditions are looked
\* at once more; stop conditions are not looked at while helpers run.
CheckFinishedOnly ==
    /\ rpc = "finished"
    /\ Advance(IF running = {} THEN "collect" ELSE "exceeded")

CheckFinishedAfterPoll ==
    /\ rpc = "finished"
    /\ Advance("exceeded")

WaitUntilFinished ==
    /\ rpc = "finished"
    /\ Advance(IF running = {} THEN "last" ELSE "finished")

CheckFinished ==
    /\ rpc = "finished"
    /\ Advance(IF running = {} THEN "last" ELSE "exceeded")

CheckCancellation ==
    /\ rpc = "cancel"
    /\ IF cancelled THEN StopFor("Cancelled", collected)
       ELSE Advance(IF policy.timeout THEN "time" ELSE "sleep")

CheckTimeout ==
    /\ rpc = "time"
    /\ \/ ClockMayFail /\ StopFor("TimeFailed", collected)
       \/ /\ IF elapsed >= Timeout THEN StopFor("TimedOut", collected)
             ELSE Advance("sleep")

\* One poll interval, or what is left of the timeout if that is less.
Sleep ==
    /\ rpc = "sleep"
    /\ \/ ClockMayFail /\ StopFor("TimeFailed", collected)
       \/ /\ elapsed' = Later(elapsed)
          /\ rpc' = IF loop = "run" THEN "exceeded" ELSE "finished"
          /\ MonitorOnly
          /\ UNCHANGED <<loop, collected, reason>>

\* Mutant: it is not looked at again.
CheckNothing ==
    /\ rpc = "last"
    /\ Advance("collect")

\* The last byte may have been read after the last look at the budget.
CheckLast ==
    /\ rpc = "last"
    /\ IF exceeded THEN StopFor("OutputLimitExceeded", collected)
       ELSE Advance("collect")

(***************************************************************************)
(* The result.                                                             *)
(***************************************************************************)

Finished(kind, output, helpers) ==
    /\ rpc' = "returned"
    /\ returned' = [ kind    |-> kind,
                     output  |-> output,
                     process |-> failures,
                     helpers |-> helpers ]
    /\ UNCHANGED <<inputVars, loop, collected, reason>>

\* complete: join the helpers, waiting for those that are still running.  A
\* clock failure comes before a helper failure.
Collect ==
    /\ rpc = "collect"
    /\ running = {}
    /\ \/ ClockMayFail /\ Finished("TimeFailed", "captured", helperFailed)
       \/ IF helperFailed = {} THEN Finished("Ok", "whole", {})
          ELSE Finished("HelperFailed", "captured", helperFailed)
    /\ UNCHANGED <<terminatorVars, finalizationVars>>

(***************************************************************************)
(* stop_and_finalize.                                                      *)
(***************************************************************************)

BeginTermination ==
    /\ rpc = "terminate"
    /\ Terminate(collected)
    /\ UNCHANGED <<finalizationVars, inputVars, runnerVars>>

TerminationStep ==
    /\ rpc = "terminate"
    /\ TerminatorStep
    /\ UNCHANGED <<finalizationVars, inputVars, runnerVars>>

\* Whatever became of the child, the helpers are ended.
AfterTermination ==
    /\ rpc = "terminate" /\ tpc = "done"
    /\ collected' = IF outcome = "error" THEN None
                    ELSE IF collected # None THEN collected ELSE outcome
    /\ rpc' = "finalize"
    /\ BeginFinalization
    /\ UNCHANGED <<terminatorVars, inputVars, loop, reason, returned>>

FinalizationStep ==
    /\ rpc = "finalize"
    /\ FinalizeStep
    /\ UNCHANGED <<terminatorVars, inputVars, runnerVars>>

\* retains_termination_output: a failed wait has no status to report with,
\* and neither has a failed clock before the child's exit.
RetainsOutput ==
    \/ reason \in StopCondition
    \/ reason = "TimeFailed" /\ observed # None

\* Mutant: only failures of the joined helpers are.
JoinedFailures == {h \in helperFailed : ended[h] = "joined"}

\* The helpers whose failure is on record: an uninterrupted one, and one that
\* was joined and returned an error.
HelperFailures ==
    retained \cup {h \in helperFailed : ended[h] = "joined"}

\* The output that comes with the error.  Without a status it is dropped,
\* except the snapshot of the budget that an exceeded limit always carries.
StoppedOutput(clockFailed) ==
    IF outcome = "error" \/ ~RetainsOutput
    THEN IF reason = "OutputLimitExceeded" THEN "captured" ELSE "none"
    ELSE IF \/ reason = "OutputLimitExceeded" \/ clockFailed
            \/ \E h \in helperFailed : ended[h] = "joined"
         THEN "captured"
         ELSE "whole"

ReturnStopped ==
    /\ rpc = "finalize" /\ fpc = "done"
    /\ \E clockFailed \in BOOLEAN :
         /\ clockFailed => ClockMayFail /\ outcome # "error" /\ RetainsOutput
         /\ Finished(reason, StoppedOutput(clockFailed), HelperFailures)
    /\ UNCHANGED <<terminatorVars, finalizationVars>>

(***************************************************************************)
(* Specification.                                                          *)
(***************************************************************************)

Monitor ==
    \/ BlockingWait \/ CheckExceeded \/ TryWait \/ CheckFinished
    \/ CheckCancellation \/ CheckTimeout \/ Sleep \/ CheckLast \/ Collect

Stopping ==
    \/ BeginTermination \/ TerminationStep \/ AfterTermination
    \/ FinalizationStep \/ ReturnStopped

RunnerStep == Monitor \/ Stopping

Environment ==
    \/ ProcessActs \/ LimitPassed \/ CallerCancels \/ TimePasses
    \/ \E h \in Helper : HelperActs(h)

RunNext == RunnerStep \/ Environment

\* The calling thread is scheduled; a killed process dies; a helper whose
\* cancellation was delivered returns.  Nothing else is assumed: a child may
\* run for ever and a descendant may keep the pipes open for ever.
RunFairness ==
    /\ WF_runVars(RunnerStep)
    /\ \A p \in Process :
         WF_runVars(p \in signalled /\ ProcessExits(p) /\ ProcessActs)
    /\ \A h \in Helper : WF_runVars(answer[h] = "ok" /\ HelperActs(h))

RunSpec == RunInit /\ [][RunNext]_runVars

FairRunSpec == RunSpec /\ RunFairness

(***************************************************************************)
(* Refinement of RunContract.                                              *)
(***************************************************************************)

Arisen ==
    {c \in StopCondition :
        \/ c = "OutputLimitExceeded" /\ exceeded
        \/ c = "Cancelled" /\ cancelled
        \/ c = "TimedOut" /\ policy.timeout /\ elapsed = Timeout}

Unkilled ==
    (IF managed THEN group \cap alive ELSE alive \cap {"child"}) \ signalled

\* A run that stopped its command and reports no failed kill says that no
\* process of it was left behind.
Promise ==
    IF returned = None THEN None
    ELSE [ kind   |-> returned.kind,
           killed |-> /\ reason # None
                      /\ ~Reported("tree") /\ ~Reported("child") ]

Abstract ==
    INSTANCE RunContract WITH
        arisen  <- Arisen,
        exited  <- status # None,
        drained <- running = {},
        lost    <- Unkilled # {},
        result  <- Promise

(***************************************************************************)
(* Properties.                                                             *)
(***************************************************************************)

\* What a run returns, it returns once and for a reason that really arose: a
\* success only after the child's exit, with all output in and the limit kept,
\* also when the last byte came after the last poll; and a stopped run that
\* reports no failed kill has left no process of its tree unkilled.
ImplementsContract == Abstract!Contract

\* A helper that is still running when the run returns is reported, whether the
\* run came to its end or was stopped.
RunningHelpersReported ==
    returned # None => running \subseteq returned.helpers

\* An exceeded limit that a poll can see decides the result, whatever else the
\* same poll would have found: an exit, a cancellation, a timeout.
LimitComesFirst ==
    [](exceeded /\ rpc \in {"exceeded", "finished", "last"}
        => [](returned # None => returned.kind = "OutputLimitExceeded"))

Ended == status # None /\ running = {} /\ ~exceeded

\* A command that has come to its end before a poll begins is not turned into
\* a cancelled or timed out one by that poll or by the checks that follow.
EndedRunIsNotStopped ==
    [](Ended /\ (rpc \in {"try", "finished", "last"}
                    \/ (rpc = "exceeded" /\ loop = "run"))
        => [](reason \notin {"Cancelled", "TimedOut"}))

\* Which of several events of one poll decides the result.
EventPrecedence == LimitComesFirst /\ EndedRunIsNotStopped

\* A cancellation, a timeout and an exceeded limit end the run, even if the
\* child never exits and its descendants never close the pipes they inherited.
StopConditionEndsRun ==
    /\ cancelled ~> returned # None
    /\ exceeded ~> returned # None
    /\ policy.timeout ~> returned # None
=============================================================================
