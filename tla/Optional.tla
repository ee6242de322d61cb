------------------------------ MODULE Optional ------------------------------
(***************************************************************************)
(* The absence of an optional value, shared by all modules.                *)
(***************************************************************************)
CONSTANT None  \* Option::None
=============================================================================
