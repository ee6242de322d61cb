------------------------- MODULE ProcessTerminator -------------------------
(***************************************************************************)
(* Stopping the child of a run (process_terminator.rs): kill the process   *)
(* tree when it is managed, fall back to the direct child, and wait only   *)
(* for a child that accepted a kill.                                       *)
(*                                                                         *)
(* The child is the environment.  It may exit at any moment, between any   *)
(* two calls of the terminator; a descendant lives on in its process group *)
(* (a unix process group, a windows job) until it exits or is killed.      *)
(***************************************************************************)
EXTENDS Optional, Naturals, Sequences

CONSTANTS
    ExitChecks,    \* KILL_FAILURE_EXIT_CHECK_ATTEMPTS
    MayLeaveGroup, \* whether the child may move to another process group
    CallFaults     \* the calls that may fail: "tree", "child", "wait"

ASSUME TerminatorAssumption ==
    /\ ExitChecks \in Nat \ {0}
    /\ MayLeaveGroup \in BOOLEAN
    /\ CallFaults \subseteq {"tree", "child", "wait"}
    /\ None \notin {"exited", "killed", "error"}

Process == {"child", "descendant"}

ExitStatus == {"exited", "killed"}

VARIABLES
    managed,   \* process_tree_managed: spawned as a process tree
    alive,     \* processes still running
    group,     \* processes that belong to the managed tree
    signalled, \* processes that a kill call reached
    status,    \* exit status of the child, once it is dead
    tpc,       \* where terminate is
    observed,  \* observed_status: the status its caller had already collected
    treeGone,  \* whether the tree kill failed because the tree was gone
    checks,    \* exit checks made after a failed tree kill
    failures,  \* cleanup failures, in the order they were pushed
    outcome    \* what terminate returned

processVars == <<managed, alive, group, signalled, status>>
callVars == <<tpc, observed, treeGone, checks, failures, outcome>>
terminatorVars == <<processVars, callVars>>

TerminatorPc ==
    {"idle", "start", "check", "direct", "confirm", "wait", "done"}

CleanupFailure == {"tree", "child", "wait"}

TerminatorTypeOK ==
    /\ managed \in BOOLEAN
    /\ alive \subseteq Process
    /\ group \subseteq Process
    /\ signalled \subseteq Process
    /\ status \in ExitStatus \cup {None}
    /\ tpc \in TerminatorPc
    /\ observed \in ExitStatus \cup {None}
    /\ treeGone \in BOOLEAN
    /\ checks \in 0..ExitChecks
    /\ failures \in Seq(CleanupFailure)
    /\ outcome \in ExitStatus \cup {"error", None}

\* A spawned child, which may have exited, forked and left its group.
TerminatorInit ==
    /\ managed \in BOOLEAN
    /\ alive \in SUBSET Process
    /\ group \in SUBSET Process
    /\ MayLeaveGroup \/ "child" \in group
    /\ "child" \in group => alive \subseteq group
    /\ signalled = {}
    /\ status = IF "child" \in alive THEN None ELSE "exited"
    /\ tpc = "idle"
    /\ observed = None
    /\ treeGone = FALSE
    /\ checks = 0
    /\ failures = <<>>
    /\ outcome = None

(***************************************************************************)
(* The environment.                                                        *)
(***************************************************************************)

\* A process exits by itself, or of the kill that reached it.
ProcessExits(p) ==
    /\ p \in alive
    /\ alive' = alive \ {p}
    /\ IF p = "child"
       THEN status' \in {"exited"} \cup
                        (IF p \in signalled THEN {"killed"} ELSE {})
       ELSE UNCHANGED status
    /\ UNCHANGED <<managed, group, signalled, callVars>>

ChildLeavesGroup ==
    /\ MayLeaveGroup
    /\ "child" \in alive \cap group
    /\ group' = group \ {"child"}
    /\ UNCHANGED <<managed, alive, signalled, status, callVars>>

ChildForks ==
    /\ "child" \in alive \ signalled
    /\ "descendant" \notin alive \cup group
    /\ alive' = alive \cup {"descendant"}
    /\ group' = group \cup (IF "child" \in group THEN {"descendant"} ELSE {})
    /\ UNCHANGED <<managed, signalled, status, callVars>>

ProcessStep ==
    (\E p \in Process : ProcessExits(p)) \/ ChildLeavesGroup \/ ChildForks

(***************************************************************************)
(* terminate.  Each action is one system call and what follows it.         *)
(***************************************************************************)

\* Mutant: a child that could not be confirmed dead counts as killed.
ReturnKilled(value) ==
    /\ tpc' = "done"
    /\ outcome' = IF value = "error" THEN "killed" ELSE value

Return(value) ==
    /\ tpc' = "done"
    /\ outcome' = value

Continue(label) ==
    /\ tpc' = label
    /\ UNCHANGED outcome

\* A call of terminate with the status the caller has seen, if any.
Terminate(seen) ==
    /\ tpc = "idle"
    /\ seen \in {None, status}
    /\ observed' = seen
    /\ Continue("start")
    /\ UNCHANGED <<processVars, treeGone, checks, failures>>

KillTreeSucceeds ==
    /\ tpc = "start" /\ managed
    /\ signalled' = signalled \cup (group \cap alive)
    /\ IF observed = None THEN Continue("wait") ELSE Return(observed)
    /\ UNCHANGED <<managed, alive, group, status, observed, treeGone, checks,
                   failures>>

\* gone: ESRCH on unix, NotFound elsewhere; no process of the tree is left.
KillTreeFails(gone) ==
    /\ tpc = "start" /\ managed
    /\ IF gone THEN group \cap alive = {} ELSE "tree" \in CallFaults
    /\ treeGone' = gone
    /\ IF observed = None
       THEN /\ failures' = <<"tree">>
            /\ Continue("check")
       ELSE /\ failures' = IF gone THEN <<>> ELSE <<"tree">>
            /\ Return(observed)
    /\ UNCHANGED <<processVars, observed, checks>>

\* Without a managed tree a known status is all there is to do.
SkipTree ==
    /\ tpc = "start" /\ ~managed
    /\ IF observed = None THEN Continue("direct") ELSE Return(observed)
    /\ UNCHANGED <<processVars, observed, treeGone, checks, failures>>

\* Mutants: giving up, or waiting, without the direct kill.
CheckThenGiveUp(n) == IF n < ExitChecks THEN "check" ELSE "confirm"
CheckThenWait(n) == IF n < ExitChecks THEN "check" ELSE "wait"

AfterCheck(n) == IF n < ExitChecks THEN "check" ELSE "direct"

\* Mutant: a confirmed exit excuses every failed tree kill.
FailuresForgiven == Tail(failures)

\* A failure that only says the tree was gone is dropped once the exit is
\* confirmed.
FailuresAfterExit == IF treeGone THEN Tail(failures) ELSE failures

\* The bounded exit checks after a failed tree kill: the child may have
\* exited while the kill was attempted.
CheckExit ==
    /\ tpc = "check"
    /\ \/ /\ status # None
          /\ failures' = FailuresAfterExit
          /\ Return(status)
          /\ UNCHANGED checks
       \/ /\ status = None
          /\ checks' = checks + 1
          /\ Continue(AfterCheck(checks'))
          /\ UNCHANGED failures
       \/ /\ "wait" \in CallFaults
          /\ failures' = Append(failures, "wait")
          /\ Continue("direct")
          /\ UNCHANGED checks
    /\ UNCHANGED <<processVars, observed, treeGone>>

KillChildSucceeds ==
    /\ tpc = "direct"
    /\ signalled' = signalled \cup ({"child"} \cap alive)
    /\ Continue("wait")
    /\ UNCHANGED <<managed, alive, group, status, observed, treeGone, checks,
                   failures>>

KillChildFails ==
    /\ tpc = "direct"
    /\ "child" \in CallFaults
    /\ failures' = Append(failures, "child")
    /\ Continue("confirm")
    /\ UNCHANGED <<processVars, observed, treeGone, checks>>

\* Both kills failed: one last exit check, never a blocking wait.
ConfirmExit ==
    /\ tpc = "confirm"
    /\ \/ /\ status # None
          /\ Return(status)
          /\ UNCHANGED failures
       \/ /\ status = None
          /\ Return("error")
          /\ UNCHANGED failures
       \/ /\ "wait" \in CallFaults
          /\ failures' = Append(failures, "wait")
          /\ Return("error")
    /\ UNCHANGED <<processVars, observed, treeGone, checks>>

\* finish_wait without a status: blocks until the child is dead.
FinishWait ==
    /\ tpc = "wait"
    /\ \/ /\ status # None
          /\ Return(status)
          /\ UNCHANGED failures
       \/ /\ "wait" \in CallFaults
          /\ failures' = Append(failures, "wait")
          /\ Return("error")
    /\ UNCHANGED <<processVars, observed, treeGone, checks>>

TerminatorStep ==
    \/ KillTreeSucceeds \/ (\E gone \in BOOLEAN : KillTreeFails(gone))
    \/ SkipTree \/ CheckExit
    \/ KillChildSucceeds \/ KillChildFails \/ ConfirmExit \/ FinishWait

TerminatorNext ==
    \/ ProcessStep
    \/ \E seen \in {None, status} : Terminate(seen)
    \/ TerminatorStep

\* A signalled process dies, and the calling thread is scheduled.
TerminatorFairness ==
    /\ WF_terminatorVars(TerminatorStep)
    /\ \A p \in Process : WF_terminatorVars(p \in signalled /\ ProcessExits(p))

TerminatorSpec ==
    TerminatorInit /\ [][TerminatorNext]_terminatorVars /\ TerminatorFairness

(***************************************************************************)
(* Properties.                                                             *)
(***************************************************************************)

Reported(failure) == \E i \in DOMAIN failures : failures[i] = failure

\* No process of a managed tree outlives a successful termination unkilled
\* without a tree failure being reported: the failure is dropped only when
\* the tree really was gone.
SurvivorsReported ==
    (managed /\ tpc = "done" /\ outcome \in ExitStatus /\ ~Reported("tree")) =>
        group \cap alive \subseteq signalled

\* A child that may still be running is never reported as terminated, and the
\* status reported is the one it died with.
StatusIsTrue == outcome \in ExitStatus => outcome = status

\* Termination is given up, with a child of the tree running that no kill
\* reached, only after every kill there is failed, and each is reported.
GivesUpAfterEveryKill ==
    (outcome = "error" /\ "child" \in (alive \cap group) \ signalled) =>
        /\ Reported("child")
        /\ managed => Reported("tree")

\* What terminate reports is true however the child exits, forks or leaves its
\* group between its calls and whichever of them fail.
TerminationIsTrue == SurvivorsReported /\ StatusIsTrue /\ GivesUpAfterEveryKill

\* The blocking wait is entered only for a child that a kill has reached, so
\* it cannot block for ever.  It relies on the child staying in its group.
WaitsOnlyForKilledChild ==
    (tpc = "wait" /\ ~MayLeaveGroup) => "child" \in signalled \/ status # None

=============================================================================
