------------------------ MODULE EnvironmentContract ------------------------
(***************************************************************************)
(* What the environment methods of Command promise: each call acts on the  *)
(* environment the child will get as if it were executed at once on the    *)
(* inherited one, so the last call that concerns a variable decides.       *)
(* Nothing is recorded; CommandBuilder, which records, implements this.    *)
(* `call` makes a call that wrongly changes nothing differ from no call.   *)
(***************************************************************************)
EXTENDS Optional

CONSTANTS
    Values,     \* the values a variable may have
    Inherited   \* the environment of this process: variable -> value or None

VARIABLES
    environment,  \* variable -> value or None
    call          \* the last call made

EnvInit == environment = Inherited /\ call = None

SetVariable(var, value) ==
    /\ environment' = [environment EXCEPT ![var] = value]
    /\ call' = <<"set", var, value>>

RemoveVariable(var) ==
    /\ environment' = [environment EXCEPT ![var] = None]
    /\ call' = <<"remove", var, None>>

ClearAll ==
    /\ environment' = [var \in DOMAIN Inherited |-> None]
    /\ call' = <<"clear", None, None>>

EnvNext ==
    \/ \E var \in DOMAIN Inherited : \/ \E value \in Values : SetVariable(var, value)
                                     \/ RemoveVariable(var)
    \/ ClearAll

EnvSpec == EnvInit /\ [][EnvNext]_<<environment, call>>
=============================================================================
