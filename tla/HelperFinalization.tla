------------------------ MODULE HelperFinalization ------------------------
(***************************************************************************)
(* Ending the helper threads of a run (command_io.rs:                      *)
(* finish_helpers_with_wait): cancel every helper, then join each one that *)
(* was interrupted or returns before a deadline they all share, and let go *)
(* of the others with their cancellation failure on record.                *)
(*                                                                         *)
(* What a helper does is abstracted to whether it has returned.  The       *)
(* modules of the helpers justify the one thing assumed of them: a helper  *)
(* whose cancellation was delivered returns (OutputReaders).               *)
(***************************************************************************)
EXTENDS Optional, Naturals, Sequences

CONSTANTS
    Window,       \* HELPER_CANCELLATION_CONFIRMATION_TIMEOUT, in sleeps
    CancelAnswer  \* what cancel may return

ASSUME FinalizationAssumption ==
    /\ Window \in Nat
    /\ "ok" \in CancelAnswer
    /\ CancelAnswer \subseteq {"ok", "notFound", "failed"}
    /\ None \notin {"ok", "notFound", "failed", "joined", "detached"}

\* The order in which helpers are cancelled and finished.
HelperOrder == <<"stdout", "stderr", "stdin">>

Helper == {"stdout", "stderr", "stdin"}

VARIABLES
    present,  \* helpers that were started
    running,  \* helpers whose thread has not returned
    fpc,      \* where finish_helpers_with_wait is
    turn,     \* index in HelperOrder of the helper being treated
    answer,   \* what cancel returned for each helper
    left,     \* sleeps left until the shared deadline
    slept,    \* sleeps spent waiting for helpers to confirm
    ended,    \* how each helper was finished
    retained  \* helpers whose cancellation failure is reported

helperVars == <<present, running>>
finalizeVars == <<fpc, turn, answer, left, slept, ended, retained>>
finalizationVars == <<helperVars, finalizeVars>>

FinalizationTypeOK ==
    /\ present \subseteq Helper
    /\ running \subseteq present
    /\ fpc \in {"idle", "cancel", "finish", "done"}
    /\ turn \in 1..3
    /\ answer \in [Helper -> CancelAnswer \cup {None}]
    /\ left \in 0..Window
    /\ slept \in Nat
    /\ ended \in [Helper -> {"joined", "detached", None}]
    /\ retained \subseteq Helper

\* A run that fails to start may have any of its helpers, and any may be done.
FinalizationInit ==
    /\ present \in SUBSET Helper
    /\ running \in SUBSET present
    /\ fpc = "idle"
    /\ turn = 1
    /\ answer = [h \in Helper |-> None]
    /\ left = Window
    /\ slept = 0
    /\ ended = [h \in Helper |-> None]
    /\ retained = {}

(***************************************************************************)
(* The environment.                                                        *)
(***************************************************************************)

HelperReturns(h) ==
    /\ h \in running
    /\ running' = running \ {h}
    /\ UNCHANGED <<present, finalizeVars>>

\* Time also passes while the owner is not sleeping.
DeadlineNears ==
    /\ fpc \in {"cancel", "finish"}
    /\ left > 0
    /\ left' = left - 1
    /\ UNCHANGED <<helperVars, fpc, turn, answer, slept, ended, retained>>

(***************************************************************************)
(* finish_helpers_with_wait.                                               *)
(***************************************************************************)

Current == HelperOrder[turn]

\* Mutant: the last helper is forgotten.
ProceedBeforeLast(label) ==
    IF turn < Len(HelperOrder) - 1
    THEN turn' = turn + 1 /\ UNCHANGED fpc
    ELSE turn' = 1 /\ fpc' = label

\* On to the next helper, or from the last one to label.
Proceed(label) ==
    IF turn < Len(HelperOrder)
    THEN turn' = turn + 1 /\ UNCHANGED fpc
    ELSE turn' = 1 /\ fpc' = label

\* The call; the deadline is set once, before any cancellation.
BeginFinalization ==
    /\ fpc = "idle"
    /\ fpc' = "cancel"
    /\ left' = Window
    /\ UNCHANGED <<helperVars, turn, answer, slept, ended, retained>>

CancelHelper ==
    /\ fpc = "cancel"
    /\ IF Current \in present
       THEN \E reply \in CancelAnswer :
                answer' = [answer EXCEPT ![Current] = reply]
       ELSE UNCHANGED answer
    /\ Proceed("finish")
    /\ UNCHANGED <<helperVars, left, slept, ended, retained>>

SkipAbsentHelper ==
    /\ fpc = "finish"
    /\ Current \notin present
    /\ Proceed("done")
    /\ UNCHANGED <<helperVars, answer, left, slept, ended, retained>>

CancelFailed(h) == answer[h] # "ok"

\* Mutant: not having found a call to cancel is a failure, come what may.
AnyFailureRemains(h) == answer[h] # "ok"

\* Finding no pending call to cancel is no failure once the helper is known to
\* have returned.
FailureRemains(h) == answer[h] = "failed"

\* Mutant: nor is it for a helper that is let go.
RetainIfFailed(h) ==
    retained' = IF answer[h] = "failed" THEN retained \cup {h} ELSE retained

\* retain_cancellation_failure
Retain(h) == retained' = retained \cup {h}

\* Mutant: a window for each helper.
FreshDeadline == left' = Window

KeepDeadline == UNCHANGED left

\* Joining blocks until the helper returns.
JoinHelper ==
    /\ fpc = "finish"
    /\ Current \in present \ running
    /\ ended' = [ended EXCEPT ![Current] = "joined"]
    /\ IF FailureRemains(Current) THEN Retain(Current) ELSE UNCHANGED retained
    /\ KeepDeadline
    /\ Proceed("done")
    /\ UNCHANGED <<helperVars, answer, slept>>

\* wait_until_finished, for a helper that may not have been interrupted.
SleepForHelper ==
    /\ fpc = "finish"
    /\ Current \in running /\ CancelFailed(Current)
    /\ left > 0
    /\ left' = left - 1
    /\ slept' = slept + 1
    /\ UNCHANGED <<helperVars, fpc, turn, answer, ended, retained>>

DetachHelper ==
    /\ fpc = "finish"
    /\ Current \in running /\ CancelFailed(Current)
    /\ left = 0
    /\ ended' = [ended EXCEPT ![Current] = "detached"]
    /\ Retain(Current)
    /\ KeepDeadline
    /\ Proceed("done")
    /\ UNCHANGED <<helperVars, answer, slept>>

FinalizeStep ==
    \/ CancelHelper \/ SkipAbsentHelper \/ JoinHelper \/ SleepForHelper
    \/ DetachHelper

FinalizationNext ==
    \/ BeginFinalization
    \/ FinalizeStep
    \/ DeadlineNears
    \/ \E h \in Helper : HelperReturns(h)

\* A helper returns once its cancellation is delivered; nothing is assumed of
\* the others.
FinalizationFairness ==
    /\ WF_finalizationVars(FinalizeStep)
    /\ \A h \in Helper :
         WF_finalizationVars(answer[h] = "ok" /\ HelperReturns(h))

FinalizationSpec ==
    /\ FinalizationInit
    /\ [][FinalizationNext]_finalizationVars
    /\ FinalizationFairness

(***************************************************************************)
(* Properties.                                                             *)
(***************************************************************************)

\* A helper that is still running when the run returns is reported, and it is
\* one whose cancellation failed; no helper was left out.
SurvivingHelperReported ==
    fpc = "done" =>
        \A h \in present :
            /\ ended[h] # None
            /\ h \in running => h \in retained /\ answer[h] # "ok"

\* A helper that returned in time is not reported for having had no call to
\* cancel.
NoFalseAlarm ==
    \A h \in retained : ended[h] = "joined" => answer[h] = "failed"

\* The helpers reported are exactly those that could not be ended in time, and
\* those whose cancellation really failed.
HelpersReportedExactly == SurvivingHelperReported /\ NoFalseAlarm

\* While any helper is waited for, every helper has been asked to stop: none
\* waits for another one's failure to be dealt with.
AllAskedBeforeAnyWait ==
    (fpc = "finish" \/ slept > 0 \/ \E h \in Helper : ended[h] # None) =>
        \A h \in present : answer[h] # None

\* Helpers that cannot be interrupted delay the run by one window in all, and
\* not by one window each.
OneWindowForAll == slept <= Window

\* Every helper is asked to stop before the one window for all of them opens.
OneSharedWait == AllAskedBeforeAnyWait /\ OneWindowForAll

=============================================================================
