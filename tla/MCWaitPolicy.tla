---------------------------- MODULE MCWaitPolicy ----------------------------
(* Instances of WaitPolicy for TLC.                                        *)
EXTENDS WaitPolicy

\* The first fine interval, the middle of a coarse one, a multiple of it.
SomeTimeouts == {0, 1, 6, 30}
=============================================================================
