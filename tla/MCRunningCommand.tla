-------------------------- MODULE MCRunningCommand --------------------------
(***************************************************************************)
(* Instances of RunningCommand for TLC.                                    *)
(***************************************************************************)
EXTENDS RunningCommand

Options(timeout, token, budget) ==
    [timeout |-> timeout, token |-> token, budget |-> budget]

Unmonitored == Options(FALSE, FALSE, FALSE)
Everything  == Options(TRUE, TRUE, TRUE)
BudgetOnly  == Options(FALSE, FALSE, TRUE)
TokenOnly   == Options(FALSE, TRUE, FALSE)
TimeoutOnly == Options(TRUE, FALSE, FALSE)

SafetyPolicies == {Unmonitored, Everything}

\* One option at a time, so that none is helped out by another.
PollPolicies == {TimeoutOnly, TokenOnly, BudgetOnly}

AllCalls  == {"tree", "child", "wait"}
KillCalls == {"tree", "child"}
Stderr    == {"stderr"}
Answers   == {"ok", "failed"}
=============================================================================
