--------------------------- MODULE HelperContract ---------------------------
(***************************************************************************)
(* What a run relies on of the threads that serve the streams of its       *)
(* child: a helper returns once, its failure does not come and go, and the *)
(* output limit is passed once and for all, by a reader that has not       *)
(* returned.  So once no helper is left, whether the limit was passed is   *)
(* decided (running_command.rs looks at it for the last time then).        *)
(***************************************************************************)

CONSTANTS
    Helpers,  \* the helper threads
    Readers   \* those that read output

VARIABLES
    running,  \* the helpers that have not returned
    failed,   \* the helpers that returned an error
    limited,  \* whether there is an output limit
    passed    \* whether it was passed

helperContractVars == <<running, failed, limited, passed>>

HelperInit ==
    /\ running \in SUBSET Helpers
    /\ failed \in SUBSET (Helpers \ running)
    /\ limited \in BOOLEAN
    /\ passed \in {FALSE, limited}

Returns(h) ==
    /\ h \in running
    /\ running' = running \ {h}
    /\ failed' \in {failed, failed \cup {h}}
    /\ UNCHANGED <<limited, passed>>

LimitIsPassed ==
    /\ limited
    /\ running \cap Readers # {}
    /\ passed' = TRUE
    /\ UNCHANGED <<running, failed, limited>>

HelperNext == LimitIsPassed \/ \E h \in Helpers : Returns(h)

HelperSpec == HelperInit /\ [][HelperNext]_helperContractVars
=============================================================================
