--------------------------- MODULE MCStdinWriter ---------------------------
(* Instances of StdinWriter for TLC.                                       *)
EXTENDS StdinWriter

BothPlatforms == {"unix", "windows"}

AllFaults == {"interrupted", "wouldblock", "zero", "write", "poll", "wake"}
=============================================================================
