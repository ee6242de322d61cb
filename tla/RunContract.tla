---------------------------- MODULE RunContract ----------------------------
(***************************************************************************)
(* What a run promises its caller (design.md, "Run events" and             *)
(* "Termination"), leaving out how it is done: it returns once, for a      *)
(* reason that really arose; it succeeds only if the child has exited, its *)
(* output is all in and the output limit was not passed; and it leaves no  *)
(* process behind unkilled without saying so.                              *)
(***************************************************************************)
EXTENDS Optional

VARIABLES
    arisen,   \* the reasons to stop that have arisen
    exited,   \* whether the child has exited
    drained,  \* whether every helper has returned
    lost,     \* whether a process of the run is alive and was not killed
    result    \* what the run returned

contractVars == <<arisen, exited, drained, lost, result>>

StopCondition == {"Cancelled", "TimedOut", "OutputLimitExceeded"}

\* Failures that need no stop condition: the child cannot be observed, the
\* clock fails, or a helper failed.
Breakdown == {"WaitFailed", "TimeFailed", "HelperFailed"}

\* When the run begins the child has been running for a while.
ContractInit ==
    /\ arisen \in SUBSET StopCondition
    /\ exited \in BOOLEAN
    /\ drained \in BOOLEAN
    /\ lost \in BOOLEAN
    /\ result = None

\* The limit is passed by bytes that a helper reads.
Arises(condition) ==
    /\ condition = "OutputLimitExceeded" => ~drained
    /\ arisen' = arisen \cup {condition}
    /\ UNCHANGED <<exited, drained, lost, result>>

\* Processes exit, fork and are killed, and helpers return.
RunMakesProgress ==
    /\ exited' \in {exited, TRUE}
    /\ drained' \in {drained, TRUE}
    /\ lost' \in BOOLEAN
    /\ UNCHANGED <<arisen, result>>

Succeed ==
    /\ result = None
    /\ exited /\ drained
    /\ "OutputLimitExceeded" \notin arisen
    /\ result' = [kind |-> "Ok", killed |-> FALSE]
    /\ UNCHANGED <<arisen, exited, drained, lost>>

\* The error says that the processes were killed only if they were.
Fail(kind, killed) ==
    /\ result = None
    /\ kind \in arisen \cup Breakdown
    /\ killed => ~lost
    /\ result' = [kind |-> kind, killed |-> killed]
    /\ UNCHANGED <<arisen, exited, drained, lost>>

ContractNext ==
    \/ \E condition \in StopCondition : Arises(condition)
    \/ RunMakesProgress
    \/ Succeed
    \/ \E kind \in StopCondition \cup Breakdown, killed \in BOOLEAN :
           Fail(kind, killed)

Contract == ContractInit /\ [][ContractNext]_contractVars
=============================================================================
