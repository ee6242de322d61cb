------------------------- MODULE MCErrorInspection -------------------------
(* Instances of ErrorInspection for TLC.                                   *)
EXTENDS ErrorInspection

Tree  == Failure("tree", "kill")
Child == Failure("child", "kill")
Check == Failure("wait", "check")
Final == Failure("wait", "last")

\* Every list of failures that terminate can return.
TerminatorFailures ==
    {<<>>, <<Tree>>, <<Child>>, <<Final>>, <<Tree, Check>>, <<Tree, Child>>,
     <<Child, Final>>, <<Tree, Final>>, <<Tree, Child, Final>>, <<Tree, Check, Final>>,
     <<Tree, Check, Child>>, <<Tree, Check, Child, Final>>}

AnyEnd     == {"ok", "read", "write", "readAfterWrite", "detached"}
AnyReason  == {"TimedOut", "Cancelled", "OutputLimitExceeded", "WaitFailed", "TimeFailed"}

\* Success, another exit code, and an end by a signal.
SomeStatuses == {[code |-> 0, signal |-> None], [code |-> 2, signal |-> None],
                 [code |-> None, signal |-> 9]}

ZeroOnly == {0}
=============================================================================
