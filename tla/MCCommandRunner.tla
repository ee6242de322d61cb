-------------------------- MODULE MCCommandRunner --------------------------
(* Instances of CommandRunner for TLC.                                     *)
EXTENDS CommandRunner

SomeCaps  == {0, 2}
SomeSizes == {0, 1, 3}
SomeCodes == {0, 1}
=============================================================================
