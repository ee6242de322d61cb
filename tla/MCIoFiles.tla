----------------------------- MODULE MCIoFiles -----------------------------
(* Instances of IoFiles for TLC.                                           *)
EXTENDS IoFiles, TLC

\* Paths are interchangeable; so are the regular files that exist already.
Symmetry == Permutations(Path) \cup Permutations(Ordinary)
=============================================================================
