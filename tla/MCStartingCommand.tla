------------------------- MODULE MCStartingCommand -------------------------
(* Instances of StartingCommand for TLC.                                   *)
EXTENDS StartingCommand

Options(timeout, token, budget, bytes) ==
    [timeout |-> timeout, token |-> token, budget |-> budget, bytes |-> bytes]

\* A managed process tree with two helpers, a lone child with three.
TokenOrBytes == {Options(FALSE, TRUE, FALSE, FALSE), Options(FALSE, FALSE, FALSE, TRUE)}

AnyStep == {"prepare", "commit", "spawn", "clock", "stdin", "takeStdout",
            "takeStderr", "stdout", "stderr", "elapsed"}

AllCalls  == {"tree", "child", "wait"}
Answers   == {"ok", "notFound"}
=============================================================================
