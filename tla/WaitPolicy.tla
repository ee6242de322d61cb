----------------------------- MODULE WaitPolicy -----------------------------
(***************************************************************************)
(* How often a monitored run is polled (wait_policy.rs and the two loops   *)
(* of running_command.rs that use it), on a clock that counts              *)
(* milliseconds from the start of the run.  RunningCommand has the same    *)
(* loops with sleeps of one tick; here a sleep has its length, and what    *)
(* matters is when an event is noticed and how often the runner wakes.     *)
(*                                                                         *)
(* Polling takes no time, a sleep takes what was asked for and up to       *)
(* MaxLate more.  The run has a timeout or, if that is None, another       *)
(* reason to be polled: a cancellation token or an output budget.          *)
(***************************************************************************)
EXTENDS Optional, Naturals, FiniteSets, Sequences

CONSTANTS
    Timeouts,      \* the timeouts considered
    MaxPollCount,  \* usize::MAX, where the count of polls saturates
    MaxLate,       \* how much longer than asked a sleep may take
    MaxEvents,     \* events in a run (bounds the model)
    MaxTime        \* the clock stops here (bounds the model)

ASSUME PolicyAssumption ==
    /\ Timeouts \subseteq Nat
    /\ MaxPollCount \in Nat /\ MaxPollCount >= 4  \* usize has 16 bits at least
    /\ MaxLate \in Nat /\ MaxEvents \in Nat /\ MaxTime \in Nat
    /\ None \notin Nat \cup {"OutputLimitExceeded", "Cancelled", "TimedOut", "TimeFailed",
                              "Finished"}

VARIABLES
    timeout,   \* the configured timeout, or None
    now,       \* the time since started_at
    happened,  \* when each event happened, or None
    phase,     \* "child": wait_for_event, "io": wait_for_io_event
    began,     \* when the phase began
    at,        \* "polling", "sleeping" or "done"
    polls,     \* timeout_poll_count
    wakeAt,    \* when the sleep may end
    sleeps,    \* how often the runner has slept in this phase
    outcome    \* the event that ended the run, or None

policyVars ==
    <<timeout, now, happened, phase, began, at, polls, wakeAt, sleeps, outcome>>

Event == {"Exceeded", "Exited", "HelpersFinished", "Cancelled"}

Outcome == {"OutputLimitExceeded", "Cancelled", "TimedOut", "TimeFailed", "Finished"}

PolicyTypeOK ==
    /\ timeout \in Timeouts \cup {None}
    /\ now \in Nat /\ began \in Nat /\ wakeAt \in Nat /\ sleeps \in Nat
    /\ happened \in [Event -> Nat \cup {None}]
    /\ phase \in {"child", "io"} /\ at \in {"polling", "sleeping", "done"}
    /\ polls \in 0 .. MaxPollCount
    /\ outcome \in Outcome \cup {None}
    /\ at = "done" <=> outcome # None

PolicyInit ==
    /\ timeout \in Timeouts \cup {None}
    /\ now = 0 /\ began = 0 /\ wakeAt = 0 /\ sleeps = 0 /\ polls = 0
    /\ happened = [e \in Event |-> None]
    /\ phase = "child" /\ at = "polling" /\ outcome = None

(***************************************************************************)
(* The length of a sleep.                                                  *)
(***************************************************************************)

AdaptivePollIntervals == <<1, 2, 4, 8, 10>>

LongestInterval == 10

CancellationPollInterval == 10

Least(m, n) == IF m < n THEN m ELSE n

\* Mutant: the delay goes on doubling.
NextIntervalDoubling(pollCount) == 2 ^ pollCount

NextPollInterval(pollCount) ==
    AdaptivePollIntervals[Least(pollCount, Len(AdaptivePollIntervals) - 1) + 1]

\* Called with elapsed < limit only.
NextSleep(limit, elapsed, pollCount) ==
    Least(limit - elapsed, NextPollInterval(pollCount))

SaturatingNext(n) == Least(n + 1, MaxPollCount)

(***************************************************************************)
(* The loops.                                                              *)
(***************************************************************************)

Seen(e) == happened[e] # None

Finish(how) ==
    /\ at' = "done" /\ outcome' = how
    /\ UNCHANGED <<timeout, now, happened, phase, began, polls, wakeAt, sleeps>>

\* Mutant: the timeout is measured from the start of the phase.
ElapsedInPhase == now - began

Elapsed == now

\* Mutant: the timeout has passed only after its last millisecond.
DeadlineMissed == timeout # None /\ Elapsed > timeout

DeadlineReached == timeout # None /\ Elapsed >= timeout

SleepLength ==
    IF timeout = None THEN CancellationPollInterval
    ELSE NextSleep(timeout, Elapsed, polls)

Sleep ==
    /\ at' = "sleeping"
    /\ wakeAt' = now + SleepLength
    /\ sleeps' = sleeps + 1
    /\ polls' = IF timeout = None THEN polls ELSE SaturatingNext(polls)
    /\ UNCHANGED <<timeout, now, happened, phase, began, outcome>>

\* check_cancellation_and_wait; reading the clock or sleeping may fail.
CheckCancellationAndWait ==
    IF Seen("Cancelled") THEN Finish("Cancelled")
    ELSE \/ Finish("TimeFailed")
         \/ DeadlineReached /\ Finish("TimedOut")
         \/ ~DeadlineReached /\ Sleep

\* Mutant: the second loop goes on with the count of the first.
EnterIoPhaseSlowly ==
    /\ phase' = "io" /\ began' = now /\ sleeps' = 0
    /\ UNCHANGED <<timeout, now, happened, at, polls, wakeAt, outcome>>

EnterIoPhase ==
    /\ phase' = "io" /\ began' = now /\ sleeps' = 0
    /\ polls' = 0
    /\ UNCHANGED <<timeout, now, happened, at, wakeAt, outcome>>

\* One round of wait_for_event.
PollChild ==
    /\ at = "polling" /\ phase = "child"
    /\ IF Seen("Exceeded") THEN Finish("OutputLimitExceeded")
       ELSE IF Seen("Exited") THEN EnterIoPhase
       ELSE CheckCancellationAndWait

\* One round of wait_for_io_event.
PollHelpers ==
    /\ at = "polling" /\ phase = "io"
    /\ IF Seen("Exceeded") THEN Finish("OutputLimitExceeded")
       ELSE IF Seen("HelpersFinished") THEN Finish("Finished")
       ELSE CheckCancellationAndWait

\* The sleeper returns.
Wake ==
    /\ at = "sleeping" /\ now >= wakeAt
    /\ at' = "polling"
    /\ UNCHANGED <<timeout, now, happened, phase, began, polls, wakeAt, sleeps, outcome>>

\* Time passes while the runner sleeps.
Tick ==
    /\ at = "sleeping" /\ now < wakeAt + MaxLate /\ now < MaxTime
    /\ now' = now + 1
    /\ UNCHANGED <<timeout, happened, phase, began, at, polls, wakeAt, sleeps, outcome>>

\* The child, its helpers, the budget or the caller do something.
Happen ==
    /\ at # "done"
    /\ Cardinality({e \in Event : Seen(e)}) < MaxEvents
    /\ \E e \in Event :
        /\ ~Seen(e)
        /\ happened' = [happened EXCEPT ![e] = now]
    /\ UNCHANGED <<timeout, now, phase, began, at, polls, wakeAt, sleeps, outcome>>

PolicyNext == PollChild \/ PollHelpers \/ Wake \/ Tick \/ Happen

PolicySpec == PolicyInit /\ [][PolicyNext]_policyVars

(***************************************************************************)
(* Properties.                                                             *)
(***************************************************************************)

\* A run is never timed out early, and when its timeout has passed it is over
\* as soon as the sleeper allows, whenever the child exits: no sleep reaches
\* past the deadline, and the second loop keeps to the deadline of the first.
TimeoutIsPrompt ==
    timeout # None =>
        /\ outcome = "TimedOut" => now >= timeout
        /\ now <= timeout + MaxLate

\* What the runner of the current phase waits for, with the time from which it
\* could notice it.
Unnoticed ==
    {e \in Event : Seen(e) /\ (e = "Exited" => phase = "child")
                           /\ (e = "HelpersFinished" => phase = "io")}

Since(e) == IF happened[e] < began THEN began ELSE happened[e]

\* Nothing that ends the run or the phase goes unnoticed for longer than the
\* longest interval: "check is bounded by 10 ms" (doc/output-budget-performance.md).
NoticedWithinInterval ==
    at # "done" =>
        \A e \in Unnoticed : now <= Since(e) + LongestInterval + MaxLate

\* With a timeout, polling starts fine and coarsens: what happens d ms into a
\* phase is noticed by 2d + 1, so short runs and short drains are not slowed to
\* the pace of long ones.
ShortWaitsStayShort ==
    timeout # None /\ at # "done" =>
        \A e \in Unnoticed : now <= began + 2 * (Since(e) - began) + 1 + MaxLate

\* The runner does not spin: it sleeps five times at most before it has settled
\* on the longest interval, and once more, shortened, before the timeout.
WakesAreFew == sleeps <= 6 + (now - began) \div LongestInterval

\* The pace of polling: no event waits long, none is waited for busily.
PollingPace == NoticedWithinInterval /\ ShortWaitsStayShort /\ WakesAreFew
=============================================================================
