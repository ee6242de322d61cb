--------------------------- MODULE CommandBuilder ---------------------------
(***************************************************************************)
(* The builder of a command (command.rs), how the process is configured    *)
(* from it (process_setup.rs) and which of its arguments are handed to the *)
(* redaction library as secret.  The caller makes any calls in any order.  *)
(* The builder does not touch an environment: it keeps a list of           *)
(* assignments and a list of removals, which are applied when the process  *)
(* is configured.                                                          *)
(*                                                                         *)
(* Several names may denote one variable: on windows they differ in case   *)
(* (env_key_eq).  The paths and bytes of stdin are not represented.        *)
(***************************************************************************)
EXTENDS Optional, Integers, Sequences

CONSTANTS
    VariableOf,    \* the variable each name denotes
    Values,        \* values of variables
    Inherited,     \* the inherited environment: variable -> value or None
    Programs,      \* programs run other than through shell
    ShellProgram,  \* the program and the first argument of shell
    ShellFlag,
    ShellPairs,    \* pairs of program and first argument that are recognized
    Words,         \* arguments that are not secret
    Secrets,       \* command lines and arguments that are
    MaxArgs        \* arguments of a command (bounds the model)

Names == DOMAIN VariableOf

Variables == DOMAIN Inherited

ASSUME BuilderAssumption ==
    /\ \A name \in Names : VariableOf[name] \in Variables
    /\ Inherited \in [Variables -> Values \cup {None}]
    /\ <<ShellProgram, ShellFlag>> \in ShellPairs
    /\ Words \cap Secrets = {} /\ ShellFlag \in Words
    /\ MaxArgs \in Nat
    /\ None \notin Nat

VARIABLES
    program,           \* the fields of Command
    args,
    clearEnvironment,
    envs,
    removedEnvs,
    stdin,
    call               \* history: the last call about the environment

environmentVars == <<clearEnvironment, envs, removedEnvs, call>>
builderVars == <<program, args, environmentVars, stdin>>

Argument == [value : Words \cup Secrets, sensitive : BOOLEAN]

BuilderTypeOK ==
    /\ program \in Programs \cup {ShellProgram}
    /\ args \in Seq(Argument)
    /\ clearEnvironment \in BOOLEAN
    /\ envs \in Seq(Names \X Values)
    /\ removedEnvs \in Seq(Names)
    /\ stdin \in {"Null", "Inherit", "Bytes", "File"}
    /\ \/ call \in {None, <<"clear", None, None>>}
       \/ call \in {"set"} \X Variables \X Values
       \/ call \in {"remove"} \X Variables \X {None}

Visible(value) == [value |-> value, sensitive |-> FALSE]

Sensitive(value) == [value |-> value, sensitive |-> TRUE]

BuilderInit ==
    /\ \/ /\ program \in Programs /\ args = <<>>
       \/ /\ program = ShellProgram
          /\ \E line \in Secrets : args = <<Visible(ShellFlag), Visible(line)>>
    /\ clearEnvironment = FALSE /\ envs = <<>> /\ removedEnvs = <<>>
    /\ stdin = "Null"
    /\ call = None

(***************************************************************************)
(* Arguments.                                                              *)
(***************************************************************************)

AppendArg(argument) ==
    /\ Len(args) < MaxArgs
    /\ args' = Append(args, argument)
    /\ UNCHANGED <<program, environmentVars, stdin>>

Arg == \E value \in Words : AppendArg(Visible(value))

SensitiveArg == \E value \in Secrets : AppendArg(Sensitive(value))

Args ==
    \E v, w \in Words :
        /\ Len(args) + 2 <= MaxArgs
        /\ args' = args \o <<Visible(v), Visible(w)>>
        /\ UNCHANGED <<program, environmentVars, stdin>>

\* Mutant: the line is looked for at the end of the arguments.
LastArgument ==
    IF Len(args) >= 2 /\ <<program, args[1].value>> \in ShellPairs THEN Len(args) ELSE None

\* The argument of a shell that is a command line.
ShellPayloadArg ==
    IF Len(args) >= 2 /\ <<program, args[1].value>> \in ShellPairs THEN 2 ELSE None

\* The arguments as the redaction library gets them.  What it makes of an
\* argument that is not marked, and of environment values, is its own policy.
RedactionArgvItems ==
    [i \in DOMAIN args |->
        [value |-> args[i].value, secret |-> i = ShellPayloadArg \/ args[i].sensitive]]

(***************************************************************************)
(* The environment.                                                        *)
(***************************************************************************)

\* Mutant: names are compared as they are spelled.
SameSpelling(left, right) == left = right

EnvKeyEq(left, right) == VariableOf[left] = VariableOf[right]

\* What Vec::retain keeps of a list from which these elements are dropped.
Without(list, dropped) ==
    LET kept[n \in 0..Len(list)] ==
            IF n = 0 THEN <<>>
            ELSE IF list[n] \in dropped THEN kept[n - 1]
            ELSE Append(kept[n - 1], list[n])
    IN  kept[Len(list)]

EnvsWithout(key) == Without(envs, {pair \in Names \X Values : EnvKeyEq(pair[1], key)})

RemovedEnvsWithout(key) ==
    Without(removedEnvs, {removed \in Names : EnvKeyEq(removed, key)})

Env(key, value) ==
    /\ removedEnvs' = RemovedEnvsWithout(key)
    /\ envs' = Append(EnvsWithout(key), <<key, value>>)
    /\ call' = <<"set", VariableOf[key], value>>
    /\ UNCHANGED <<program, args, clearEnvironment, stdin>>

EnvRemove(key) ==
    /\ envs' = EnvsWithout(key)
    /\ removedEnvs' = Append(RemovedEnvsWithout(key), key)
    /\ call' = <<"remove", VariableOf[key], None>>
    /\ UNCHANGED <<program, args, clearEnvironment, stdin>>

EnvClear ==
    /\ clearEnvironment' = TRUE
    /\ envs' = <<>> /\ removedEnvs' = <<>>
    /\ call' = <<"clear", None, None>>
    /\ UNCHANGED <<program, args, stdin>>

\* The environment the process has before anything is set or removed.
StartEnvironment ==
    IF clearEnvironment THEN [var \in Variables |-> None] ELSE Inherited

\* What is then done to it, one after the other: all the removals come first.
Changes ==
    [i \in 1..Len(removedEnvs) |-> <<VariableOf[removedEnvs[i]], None>>]
        \o [i \in 1..Len(envs) |-> <<VariableOf[envs[i][1]], envs[i][2]>>]

\* configure_environment, applied to the inherited environment.
ConfigureEnvironment ==
    LET env[n \in 0..Len(Changes)] ==
            IF n = 0 THEN StartEnvironment
            ELSE [env[n - 1] EXCEPT ![Changes[n][1]] = Changes[n][2]]
    IN  env[Len(Changes)]

\* stdin_null, stdin_inherit, stdin_bytes, stdin_file
SetStdin ==
    \E kind \in {"Null", "Inherit", "Bytes", "File"} :
        /\ stdin' = kind
        /\ UNCHANGED <<program, args, environmentVars>>

BuilderNext ==
    \/ Arg \/ SensitiveArg \/ Args
    \/ \E key \in Names : EnvRemove(key) \/ \E value \in Values : Env(key, value)
    \/ EnvClear
    \/ SetStdin

BuilderSpec == BuilderInit /\ [][BuilderNext]_builderVars

(***************************************************************************)
(* Properties.                                                             *)
(***************************************************************************)

\* The environment of the child is that of the calls executed one after the
\* other, although assignments and removals are kept apart and replayed by kind.
Contract == INSTANCE EnvironmentContract WITH environment <- ConfigureEnvironment

AppliesCallsInOrder == Contract!EnvSpec

\* An argument given as sensitive, and the command line given to shell, is marked
\* secret when the arguments are handed to the redaction library, whatever is
\* appended after it.  This is about arguments, not about environment values.
SecretArgumentsAreMarked ==
    \A i \in DOMAIN args : args[i].value \in Secrets => RedactionArgvItems[i].secret
=============================================================================
