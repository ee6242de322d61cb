-------------------------- MODULE MCOutputReaders --------------------------
(***************************************************************************)
(* Instances of OutputReaders for TLC.  A stream of two bytes read through *)
(* a buffer of two comes in one chunk or in two; a limit of one puts the   *)
(* sentinel byte within reach of either reader.                            *)
(***************************************************************************)
EXTENDS OutputReaders

PerStream(out, err) == [s \in OutputStream |-> IF s = "stdout" THEN out ELSE err]

CapsOneAndNone == PerStream(1, None)

TwoAndOne    == PerStream(2, 1)
OneAndNone   == PerStream(1, 0)

TeeStdout == {"stdout"}

EverySetup == [platform : {"unix", "windows"}, budgeted : BOOLEAN]

AllFaults    == FaultKind
WakeAndRetry == {"wake", "interrupted", "wouldblock", "tee"}
=============================================================================
