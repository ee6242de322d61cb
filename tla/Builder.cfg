SPECIFICATION BuilderSpec

CONSTANTS
    VariableOf <- FoldedNames
    Values <- SomeValues
    Inherited <- FoldedInherited
    Programs <- SomePrograms
    ShellProgram = "cmd"
    ShellFlag = "/C"
    ShellPairs <- ShellInvocations
    Words <- SomeWords
    Secrets <- SomeSecrets
    MaxArgs = 3
    None = None

INVARIANTS
    SecretArgumentsAreMarked

PROPERTIES
    AppliesCallsInOrder
