-------------------------- MODULE MCFailureReport --------------------------
(* Instances of FailureReport for TLC.                                     *)
EXTENDS FailureReport

Tree  == Failure("tree", "kill")
Child == Failure("child", "kill")
Final == Failure("wait", "last")

\* A run over its limit has a managed tree: its kill fails before the child's.
FewFailures == {<<>>, <<Tree, Child>>, <<Tree, Child, Final>>}

LimitOnly  == {"OutputLimitExceeded"}
QuietEnds  == {"ok", "detached"}
=============================================================================
