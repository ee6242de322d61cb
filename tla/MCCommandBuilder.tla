-------------------------- MODULE MCCommandBuilder --------------------------
(* Instances of CommandBuilder for TLC.                                    *)
EXTENDS CommandBuilder

\* Windows: two spellings of one name.
FoldedNames == [PATH |-> "path", Path |-> "path", HOME |-> "home"]

FoldedInherited == [path |-> 1, home |-> None]

SomeValues == {1, 2}

ShellInvocations == {"cmd", "CMD", "cmd.exe"} \X {"/C", "/c"} \cup {<<"sh", "-c">>}

SomePrograms == {"tool", "sh", "CMD"}

SomeWords == {"/C", "-c"}

SomeSecrets == {"line"}
=============================================================================
