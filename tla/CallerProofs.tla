---------------------------- MODULE CallerProofs ----------------------------
(***************************************************************************)
(* Theorems about what the caller sets up: the arguments and the           *)
(* environment of a Command and the settings of a CommandRunner, for every *)
(* sequence of calls, and its timeout, for every set of timeouts and every *)
(* lateness of the sleeper: no run overstays it, and the intervals of      *)
(* polling are short enough to notice an event in time and long enough not *)
(* to spin.  The bounds on time and events are constants of any size.      *)
(***************************************************************************)
EXTENDS CommandBuilder, CommandRunner, WaitPolicy, Functions,
        WellFoundedInduction, TLAPS

(***************************************************************************)
(* Secret arguments.                                                       *)
(***************************************************************************)

\* A secret among the arguments is marked, or it is the command line of shell,
\* whose program and flag were there first.
SecretsInv ==
    /\ args \in Seq(Argument)
    /\ \A i \in 1..Len(args) :
         args[i].value \in Secrets =>
            \/ args[i].sensitive
            \/ i = 2 /\ program = ShellProgram /\ args[1] = Visible(ShellFlag)

\* Appended arguments keep it when secrets among them are marked.
LEMMA AppendedArgs ==
    ASSUME SecretsInv, NEW more \in Seq(Argument),
           \A i \in 1..Len(more) : more[i].value \in Secrets => more[i].sensitive,
           args' = args \o more, program' = program
    PROVE  SecretsInv'
<1>1. /\ args \in Seq(Argument) /\ args' \in Seq(Argument)
      /\ Len(args) \in Nat /\ Len(more) \in Nat
      /\ Len(args') = Len(args) + Len(more)
      /\ \A i \in 1..Len(args') :
            args'[i] = IF i <= Len(args) THEN args[i] ELSE more[i - Len(args)]
  BY DEF SecretsInv
<1>2. ASSUME NEW i \in 1..Len(args'), args'[i].value \in Secrets
      PROVE  \/ args'[i].sensitive
             \/ i = 2 /\ program' = ShellProgram /\ args'[1] = Visible(ShellFlag)
  <2>1. CASE i <= Len(args)
    <3>1. i \in 1..Len(args) /\ args'[i] = args[i] /\ args'[1] = args[1]
      BY <1>1, <1>2, <2>1
    <3> QED
      BY <1>2, <3>1 DEF SecretsInv
  <2>2. CASE ~(i <= Len(args))
    <3>1. i - Len(args) \in 1..Len(more) /\ args'[i] = more[i - Len(args)]
      BY <1>1, <1>2, <2>2
    <3> QED
      BY <1>2, <3>1
  <2> QED
    BY <2>1, <2>2
<1> QED
  BY <1>1, <1>2 DEF SecretsInv

\* A new command has its program's arguments only.
LEMMA SecretsInit == BuilderInit => SecretsInv
<1> SUFFICES ASSUME BuilderInit PROVE SecretsInv
  OBVIOUS
<1> USE BuilderAssumption DEF BuilderInit, SecretsInv, Argument, Visible
<1>1. CASE args = <<>>
  BY <1>1
<1>2. CASE program = ShellProgram /\ \E line \in Secrets :
              args = <<Visible(ShellFlag), Visible(line)>>
  <2>1. PICK line \in Secrets : args = <<Visible(ShellFlag), Visible(line)>>
    BY <1>2
  <2>2. Visible(ShellFlag) \in Argument /\ Visible(line) \in Argument
    OBVIOUS
  <2>3. args \in Seq(Argument) /\ Len(args) = 2 /\ args[1] = Visible(ShellFlag)
    BY <2>1, <2>2
  <2>4. Visible(ShellFlag).value \notin Secrets
    OBVIOUS
  <2> HIDE DEF Visible, Argument
  <2> QED
    BY <1>2, <2>3, <2>4
<1> QED
  BY <1>1, <1>2

\* No call of the builder breaks the invariant.
LEMMA SecretsStep == SecretsInv /\ [BuilderNext]_builderVars => SecretsInv'
<1> SUFFICES ASSUME SecretsInv, [BuilderNext]_builderVars PROVE SecretsInv'
  OBVIOUS
<1>1. ASSUME NEW argument \in Argument, AppendArg(argument),
             argument.value \in Secrets => argument.sensitive
      PROVE  SecretsInv'
  <2>1. <<argument>> \in Seq(Argument) /\ Len(<<argument>>) = 1
    OBVIOUS
  <2>2. args' = args \o <<argument>> /\ program' = program
    BY <1>1 DEF AppendArg, SecretsInv
  <2>3. \A i \in 1..Len(<<argument>>) :
            <<argument>>[i].value \in Secrets => <<argument>>[i].sensitive
    BY <1>1
  <2> QED
    BY <2>1, <2>2, <2>3, AppendedArgs
<1>2. CASE Arg
  <2>1. PICK value \in Words : AppendArg(Visible(value))
    BY <1>2 DEF Arg
  <2>2. Visible(value) \in Argument /\ Visible(value).value \notin Secrets
    BY BuilderAssumption DEF Visible, Argument
  <2> QED
    BY <1>1, <2>1, <2>2
<1>3. CASE SensitiveArg
  <2>1. PICK value \in Secrets : AppendArg(Sensitive(value))
    BY <1>3 DEF SensitiveArg
  <2>2. Sensitive(value) \in Argument /\ Sensitive(value).sensitive
    BY DEF Sensitive, Argument
  <2> QED
    BY <1>1, <2>1, <2>2
<1>4. CASE Args
  <2>1. PICK v \in Words, w \in Words :
            args' = args \o <<Visible(v), Visible(w)>> /\ program' = program
    BY <1>4 DEF Args
  <2>2. \A x \in Words : Visible(x) \in Argument /\ Visible(x).value \notin Secrets
    BY BuilderAssumption DEF Visible, Argument
  <2>3. /\ <<Visible(v), Visible(w)>> \in Seq(Argument)
        /\ Len(<<Visible(v), Visible(w)>>) = 2
    BY <2>2
  <2>4. \A i \in 1..Len(<<Visible(v), Visible(w)>>) :
            <<Visible(v), Visible(w)>>[i].value \in Secrets
                => <<Visible(v), Visible(w)>>[i].sensitive
    BY <2>2
  <2> QED
    BY <2>1, <2>3, <2>4, AppendedArgs
<1>5. CASE UNCHANGED <<args, program>>
  BY <1>5 DEF SecretsInv
<1>6. CASE \/ \E key \in Names : EnvRemove(key) \/ \E value \in Values : Env(key, value)
           \/ EnvClear \/ SetStdin
  BY <1>5, <1>6 DEF EnvRemove, Env, EnvClear, SetStdin
<1>7. CASE UNCHANGED builderVars
  BY <1>5, <1>7 DEF builderVars
<1> QED
  BY <1>2, <1>3, <1>4, <1>6, <1>7 DEF BuilderNext

\* A secret argument is marked where the invariant holds.
LEMMA SecretsMarked == SecretsInv => SecretArgumentsAreMarked
<1> SUFFICES ASSUME SecretsInv, NEW i \in 1..Len(args), args[i].value \in Secrets
             PROVE  RedactionArgvItems[i].secret
  BY DEF SecretArgumentsAreMarked, SecretsInv
<1>1. RedactionArgvItems[i].secret = (i = ShellPayloadArg \/ args[i].sensitive)
  BY DEF RedactionArgvItems, SecretsInv
<1>2. CASE args[i].sensitive
  BY <1>1, <1>2
<1>3. CASE i = 2 /\ program = ShellProgram /\ args[1] = Visible(ShellFlag)
  <2>1. ShellPayloadArg = 2
    BY <1>3, BuilderAssumption DEF ShellPayloadArg, Visible, SecretsInv
  <2> QED
    BY <1>1, <1>3, <2>1
<1> QED
  BY <1>2, <1>3 DEF SecretsInv

\* What the redaction library gets of the arguments so far does not depend on
\* what is appended: the place of a command line is found from the front.
MarksAreKept ==
    \A i \in 1..Len(args) : i \in 1..Len(args') /\ RedactionArgvItems'[i] = RedactionArgvItems[i]

\* Appended arguments leave the marks of the others alone.
LEMMA AppendingKeepsMarks ==
    ASSUME SecretsInv, NEW more \in Seq(Argument), args' = args \o more, program' = program
    PROVE  MarksAreKept
<1>1. /\ args \in Seq(Argument) /\ args' \in Seq(Argument)
      /\ Len(args) \in Nat /\ Len(args') \in Nat /\ Len(args) <= Len(args')
      /\ \A i \in 1..Len(args) : args'[i] = args[i]
  BY DEF SecretsInv
<1> SUFFICES ASSUME NEW i \in 1..Len(args)
             PROVE  i \in 1..Len(args') /\ RedactionArgvItems'[i] = RedactionArgvItems[i]
  BY DEF MarksAreKept
<1>2. i \in 1..Len(args') /\ args'[i] = args[i] /\ args'[1] = args[1]
  BY <1>1
<1>3. i = ShellPayloadArg' <=> i = ShellPayloadArg
  <2>1. CASE Len(args) >= 2
    <3>1. ShellPayloadArg' = ShellPayloadArg
      BY <1>1, <1>2, <2>1 DEF ShellPayloadArg
    <3> QED
      BY <3>1
  <2>2. CASE ~(Len(args) >= 2)
    <3>1. i = 1
      BY <1>1, <2>2
    <3>2. ShellPayloadArg = None /\ ShellPayloadArg' \in {2, None} /\ None # 1
      BY <2>2, BuilderAssumption DEF ShellPayloadArg
    <3> QED
      BY <3>1, <3>2
  <2> QED
    BY <2>1, <2>2
<1>4. /\ RedactionArgvItems[i]
            = [value |-> args[i].value, secret |-> i = ShellPayloadArg \/ args[i].sensitive]
      /\ RedactionArgvItems'[i]
            = [value |-> args'[i].value, secret |-> i = ShellPayloadArg' \/ args'[i].sensitive]
  BY <1>1, <1>2 DEF RedactionArgvItems
<1> QED
  BY <1>2, <1>3, <1>4

\* No call of the builder changes what is handed over of the arguments so far.
LEMMA MarksStep == SecretsInv /\ [BuilderNext]_builderVars => MarksAreKept
<1> SUFFICES ASSUME SecretsInv, [BuilderNext]_builderVars PROVE MarksAreKept
  OBVIOUS
<1>1. ASSUME NEW argument \in Argument, AppendArg(argument) PROVE MarksAreKept
  <2>1. <<argument>> \in Seq(Argument)
    OBVIOUS
  <2>2. args' = args \o <<argument>> /\ program' = program
    BY <1>1 DEF AppendArg, SecretsInv
  <2> QED
    BY <2>1, <2>2, AppendingKeepsMarks
<1>2. CASE Arg
  <2>1. PICK value \in Words : AppendArg(Visible(value))
    BY <1>2 DEF Arg
  <2> QED
    BY <1>1, <2>1 DEF Visible, Argument
<1>3. CASE SensitiveArg
  <2>1. PICK value \in Secrets : AppendArg(Sensitive(value))
    BY <1>3 DEF SensitiveArg
  <2> QED
    BY <1>1, <2>1 DEF Sensitive, Argument
<1>4. CASE Args
  <2>1. PICK v \in Words, w \in Words :
            args' = args \o <<Visible(v), Visible(w)>> /\ program' = program
    BY <1>4 DEF Args
  <2>2. <<Visible(v), Visible(w)>> \in Seq(Argument)
    BY DEF Visible, Argument
  <2> QED
    BY <2>1, <2>2, AppendingKeepsMarks
<1>5. ASSUME UNCHANGED <<args, program>> PROVE MarksAreKept
  <2>1. args' = args \o <<>> /\ program' = program
    BY <1>5 DEF SecretsInv
  <2>2. <<>> \in Seq(Argument)
    OBVIOUS
  <2> QED
    BY <2>1, <2>2, AppendingKeepsMarks
<1>6. CASE \/ \E key \in Names : EnvRemove(key) \/ \E value \in Values : Env(key, value)
           \/ EnvClear \/ SetStdin
  BY <1>5, <1>6 DEF EnvRemove, Env, EnvClear, SetStdin
<1>7. CASE UNCHANGED builderVars
  BY <1>5, <1>7 DEF builderVars
<1> QED
  BY <1>2, <1>3, <1>4, <1>6, <1>7 DEF BuilderNext

\* Of every command, the arguments given as sensitive and the command line given
\* to shell are handed to the redaction library marked secret; and no call takes a
\* mark away, or marks an argument, after it was given.  What the library prints,
\* of these arguments or of environment values, is not the subject.
THEOREM SecretArgumentsStayMarked ==
    BuilderSpec => []SecretArgumentsAreMarked /\ [][MarksAreKept]_builderVars
<1>1. SecretsInv /\ [BuilderNext]_builderVars => [MarksAreKept]_builderVars
  BY MarksStep
<1> QED
  BY <1>1, SecretsInit, SecretsStep, SecretsMarked, PTL DEF BuilderSpec

(***************************************************************************)
(* The environment.                                                        *)
(***************************************************************************)

\* Induction up to a bound: the least number that is missing would have a predecessor.
LEMMA UpTo ==
    ASSUME NEW m \in Nat, NEW T, 0 \in T,
           \A n \in 1..m : n - 1 \in T => n \in T
    PROVE  0..m \subseteq T
<1> DEFINE Missing == {n \in 0..m : n \notin T}
<1> SUFFICES ASSUME Missing # {} PROVE FALSE
  OBVIOUS
<1>1. Missing \subseteq Nat
  OBVIOUS
<1>2. PICK n \in Missing : \A i \in Missing : ~(<<i, n>> \in OpToRel(<, Nat))
  <2> HIDE DEF Missing
  <2> QED
    BY <1>1, NatLessThanWellFounded, WFMin
<1>3. \A i \in Missing : ~(i < n)
  <2> HIDE DEF Missing
  <2> QED
    BY <1>1, <1>2 DEF OpToRel
<1>4. n \in 1..m
  OBVIOUS
<1>5. n - 1 \in T
  BY <1>3, <1>4
<1> QED
  BY <1>4, <1>5

\* Each prefix keeps what the previous one keeps, and its last element unless it is
\* dropped.
Keeping(kept, list, dropped, m) ==
    kept = [n \in 0..m |->
              IF n = 0 THEN <<>>
              ELSE IF list[n] \in dropped THEN kept[n - 1]
              ELSE Append(kept[n - 1], list[n])]

\* There is such a sequence of prefixes for every list, each made of the one before.
LEMMA KeepingExists ==
    ASSUME NEW list, Len(list) \in Nat, NEW dropped
    PROVE  \E kept : Keeping(kept, list, dropped, Len(list))
<1> DEFINE T == {m \in 0..Len(list) : \E kept : Keeping(kept, list, dropped, m)}
<1>1. 0 \in T
  <2> DEFINE kept == [n \in 0..0 |-> <<>>]
  <2>1. Keeping(kept, list, dropped, 0)
    BY DEF Keeping
  <2> QED
    BY <2>1
<1>2. ASSUME NEW m \in 1..Len(list), m - 1 \in T
      PROVE  m \in T
  <2>1. PICK kept : Keeping(kept, list, dropped, m - 1)
    BY <1>2
  <2> DEFINE last == IF list[m] \in dropped THEN kept[m - 1]
                     ELSE Append(kept[m - 1], list[m])
             longer == [n \in 0..m |-> IF n = m THEN last ELSE kept[n]]
  <2>2. \A n \in 0..(m - 1) :
            kept[n] = IF n = 0 THEN <<>>
                      ELSE IF list[n] \in dropped THEN kept[n - 1]
                      ELSE Append(kept[n - 1], list[n])
    BY <2>1 DEF Keeping
  <2>3. Keeping(longer, list, dropped, m)
    <3>1. \A n \in 0..m :
            longer[n] = IF n = 0 THEN <<>>
                      ELSE IF list[n] \in dropped THEN longer[n - 1]
                      ELSE Append(longer[n - 1], list[n])
      <4> TAKE n \in 0..m
      <4>1. CASE n = m
        <5>1. longer[n] = last /\ longer[n - 1] = kept[m - 1] /\ n # 0
          BY <4>1
        <5> QED
          BY <5>1, <4>1
      <4>2. CASE n # m /\ n # 0
        <5>1. longer[n] = kept[n] /\ longer[n - 1] = kept[n - 1] /\ n \in 0..(m - 1)
          BY <4>2
        <5> HIDE DEF longer
        <5> QED
          BY <5>1, <2>2, <4>2
      <4>3. CASE n = 0
        BY <4>3, <2>2
      <4> QED
        BY <4>1, <4>2, <4>3
    <3> HIDE DEF last
    <3> QED
      BY <3>1 DEF Keeping
  <2> QED
    BY <2>3
<1>3. 0..Len(list) \subseteq T
  <2> HIDE DEF T
  <2> QED
    BY <1>1, <1>2, UpTo
<1> QED
  BY <1>3

\* What Vec::retain returns is the last prefix of such a sequence.
LEMMA WithoutKeeps ==
    ASSUME NEW list, Len(list) \in Nat, NEW dropped
    PROVE  \E kept : /\ Keeping(kept, list, dropped, Len(list))
                     /\ Without(list, dropped) = kept[Len(list)]
<1> DEFINE kept == CHOOSE g : Keeping(g, list, dropped, Len(list))
<1>1. Keeping(kept, list, dropped, Len(list))
  BY KeepingExists
<1>2. Without(list, dropped) = kept[Len(list)]
  BY DEF Without, Keeping
<1> QED
  BY <1>1, <1>2

\* Vec::retain keeps what is not dropped and nothing else, and repeats nothing.
LEMMA WithoutIsPart ==
    ASSUME NEW S, NEW list \in Seq(S), NEW dropped
    PROVE  LET rest == Without(list, dropped) IN
           /\ rest \in Seq(S)
           /\ \A i \in 1..Len(rest) :
                rest[i] \notin dropped /\ \E j \in 1..Len(list) : list[j] = rest[i]
           /\ \A j \in 1..Len(list) :
                list[j] \notin dropped => \E i \in 1..Len(rest) : rest[i] = list[j]
           /\ IsInjective(list) => IsInjective(rest)
<1> DEFINE L == Len(list)
<1>1. L \in Nat /\ \A j \in 1..L : list[j] \in S
  OBVIOUS
<1>2. PICK kept : Keeping(kept, list, dropped, L) /\ Without(list, dropped) = kept[L]
  BY <1>1, WithoutKeeps
<1> DEFINE Part(n) ==
             /\ kept[n] \in Seq(S)
             /\ \A i \in 1..Len(kept[n]) :
                  kept[n][i] \notin dropped /\ \E j \in 1..n : list[j] = kept[n][i]
             /\ \A j \in 1..n :
                  list[j] \notin dropped
                      => \E i \in 1..Len(kept[n]) : kept[n][i] = list[j]
             /\ IsInjective(list) => IsInjective(kept[n])
           T == {n \in 0..L : Part(n)}
<1>3. 0 \in T
  <2>1. kept[0] = <<>>
    BY <1>1, <1>2 DEF Keeping
  <2>2. IsInjective(kept[0])
    BY <2>1 DEF IsInjective
  <2>3. kept[0] \in Seq(S) /\ Len(kept[0]) = 0
    BY <2>1
  <2>4. Part(0)
    BY <2>2, <2>3
  <2> QED
    BY <1>1, <2>4
<1>4. ASSUME NEW n \in 1..L, n - 1 \in T
      PROVE  n \in T
  <2>1. Part(n - 1)
    BY <1>4
  <2>2. kept[n] = IF list[n] \in dropped THEN kept[n - 1]
                  ELSE Append(kept[n - 1], list[n])
    <3>1. n \in 0..L /\ n # 0
      BY <1>1
    <3> HIDE DEF L, T
    <3> QED
      BY <1>2, <3>1 DEF Keeping
  <2>3. n \in Nat /\ n - 1 \in Nat /\ 1..n = 1..(n - 1) \cup {n}
    BY <1>1
  <2>4. CASE list[n] \in dropped
    <3>1. kept[n] = kept[n - 1]
      BY <2>2, <2>4
    <3>2. /\ \A j \in 1..n : list[j] \notin dropped => j \in 1..(n - 1)
          /\ \A j \in 1..(n - 1) : j \in 1..n
      BY <2>3, <2>4
    <3>3. /\ \A i \in 1..Len(kept[n]) :
               kept[n][i] \notin dropped /\ \E j \in 1..n : list[j] = kept[n][i]
          /\ \A j \in 1..n :
               list[j] \notin dropped => \E i \in 1..Len(kept[n]) : kept[n][i] = list[j]
      BY ONLY <2>1, <3>1, <3>2
    <3>4. Part(n)
      BY <2>1, <3>1, <3>3
    <3>5. n \in 0..L
      BY <1>1
    <3> HIDE DEF Part, L
    <3> QED
      BY <3>4, <3>5
  <2>5. CASE list[n] \notin dropped
    <3> DEFINE before == kept[n - 1]
               k == Len(before)
    <3>1. before \in Seq(S) /\ kept[n] = Append(before, list[n]) /\ k \in Nat
          /\ list[n] \in S
      BY <1>1, <2>1, <2>2, <2>5
    <3>2. /\ kept[n] \in Seq(S) /\ Len(kept[n]) = k + 1 /\ kept[n][k + 1] = list[n]
          /\ \A i \in 1..k : kept[n][i] = before[i]
          /\ 1..(k + 1) = 1..k \cup {k + 1}
      BY <3>1
    <3>3. /\ \A i \in 1..k :
               before[i] \notin dropped /\ \E j \in 1..(n - 1) : list[j] = before[i]
          /\ \A j \in 1..(n - 1) :
               list[j] \notin dropped => \E i \in 1..k : before[i] = list[j]
          /\ IsInjective(list) => IsInjective(before)
      BY <2>1
    <3> HIDE DEF before, k, L, T
    <3>4. \A i \in 1..(k + 1) :
            kept[n][i] \notin dropped /\ \E j \in 1..n : list[j] = kept[n][i]
      BY <2>3, <2>5, <3>2, <3>3
    <3>5. \A j \in 1..n :
            list[j] \notin dropped => \E i \in 1..(k + 1) : kept[n][i] = list[j]
      BY <2>3, <3>2, <3>3
    <3>6. ASSUME IsInjective(list)
          PROVE  IsInjective(kept[n])
      <4>1. \A i \in 1..k : before[i] # list[n]
        <5> SUFFICES ASSUME NEW i \in 1..k, before[i] = list[n] PROVE FALSE
          OBVIOUS
        <5>1. PICK j \in 1..(n - 1) : list[j] = list[n]
          BY <3>3
        <5>2. j \in DOMAIN list /\ n \in DOMAIN list /\ j # n
          BY <1>1, <2>3 DEF L
        <5> QED
          BY <3>6, <5>1, <5>2 DEF IsInjective
      <4>2. DOMAIN before = 1..k /\ DOMAIN kept[n] = 1..(k + 1) /\ IsInjective(before)
        BY <3>1, <3>2, <3>3, <3>6 DEF k
      <4> SUFFICES ASSUME NEW a \in 1..(k + 1), NEW b \in 1..(k + 1),
                          kept[n][a] = kept[n][b]
                   PROVE  a = b
        BY <4>2 DEF IsInjective
      <4> QED
        BY <3>2, <4>1, <4>2 DEF IsInjective
    <3>7. Part(n)
      BY <3>2, <3>4, <3>5, <3>6
    <3> QED
      BY <3>7 DEF T
  <2> QED
    BY <2>4, <2>5
<1>5. L \in T
  <2>1. 0..L \subseteq T
    <3> HIDE DEF T, L
    <3> QED
      BY <1>1, <1>3, <1>4, UpTo
  <2> QED
    BY <1>1, <2>1
<1> QED
  BY <1>2, <1>5

\* Each environment is the previous one after one more change.
Configures(env, changes, start, m) ==
    env = [n \in 0..m |-> IF n = 0 THEN start
                          ELSE [env[n - 1] EXCEPT ![changes[n][1]] = changes[n][2]]]

\* Changes of different variables, made one after the other.
Configured(changes, start, n) ==
    [var \in Variables |->
        IF \E i \in 1..n : changes[i][1] = var
        THEN changes[CHOOSE i \in 1..n : changes[i][1] = var][2]
        ELSE start[var]]

\* The next change, of a variable not changed before, adds itself to them.
LEMMA ChangesAdd ==
    ASSUME NEW changes, Len(changes) \in Nat, NEW start,
           \A i, j \in 1..Len(changes) : changes[i][1] = changes[j][1] => i = j,
           DOMAIN start = Variables, start = [var \in Variables |-> start[var]],
           NEW n \in 1..Len(changes)
    PROVE  Configured(changes, start, n)
             = [Configured(changes, start, n - 1) EXCEPT ![changes[n][1]] = changes[n][2]]
<1>1. n \in Nat /\ n - 1 \in Nat /\ 1..n = 1..(n - 1) \cup {n} /\ n \notin 1..(n - 1)
      /\ 1..n \subseteq 1..Len(changes)
  OBVIOUS
<1>2. ASSUME NEW var \in Variables
      PROVE  Configured(changes, start, n)[var]
               = IF var = changes[n][1] THEN changes[n][2]
                 ELSE Configured(changes, start, n - 1)[var]
  <2>1. CASE var = changes[n][1]
    <3>1. \A i \in 1..n : changes[i][1] = var <=> i = n
      BY <1>1, <2>1
    <3>2. (CHOOSE i \in 1..n : changes[i][1] = var) = n
      BY <1>1, <3>1
    <3> QED
      BY <1>1, <2>1, <3>2 DEF Configured
  <2>2. CASE var # changes[n][1] /\ \E i \in 1..(n - 1) : changes[i][1] = var
    <3>1. PICK i \in 1..(n - 1) : changes[i][1] = var
      BY <2>2
    <3>2. /\ \A j \in 1..n : changes[j][1] = var <=> j = i
          /\ \A j \in 1..(n - 1) : changes[j][1] = var <=> j = i
          /\ i \in 1..n
      BY <1>1, <3>1
    <3>3. (CHOOSE j \in 1..n : changes[j][1] = var) = i
          /\ (CHOOSE j \in 1..(n - 1) : changes[j][1] = var) = i
      BY <3>1, <3>2
    <3> QED
      BY <2>2, <3>1, <3>2, <3>3 DEF Configured
  <2>3. CASE var # changes[n][1] /\ ~ \E i \in 1..(n - 1) : changes[i][1] = var
    <3>1. ~ \E i \in 1..n : changes[i][1] = var
      BY <1>1, <2>3
    <3> QED
      BY <2>3, <3>1 DEF Configured
  <2> QED
    BY <2>1, <2>2, <2>3
<1>3. [Configured(changes, start, n - 1) EXCEPT ![changes[n][1]] = changes[n][2]]
        = [var \in Variables |-> IF var = changes[n][1] THEN changes[n][2]
                                 ELSE Configured(changes, start, n - 1)[var]]
  <2>1. DOMAIN Configured(changes, start, n - 1) = Variables
    BY DEF Configured
  <2> QED
    BY <2>1
<1>4. Configured(changes, start, n)
        = [var \in Variables |-> Configured(changes, start, n)[var]]
  BY DEF Configured
<1> QED
  BY <1>2, <1>3, <1>4

\* So environments that follow one another end with all the changes made.
LEMMA ConfiguresInOrder ==
    ASSUME NEW changes, Len(changes) \in Nat, NEW start,
           \A i, j \in 1..Len(changes) : changes[i][1] = changes[j][1] => i = j,
           start = [var \in Variables |-> start[var]],
           NEW env, Configures(env, changes, start, Len(changes))
    PROVE  env[Len(changes)] = Configured(changes, start, Len(changes))
<1> DEFINE L == Len(changes)
           T == {n \in 0..L : env[n] = Configured(changes, start, n)}
<1>1. \A n \in 0..L : env[n] = IF n = 0 THEN start
                          ELSE [env[n - 1] EXCEPT ![changes[n][1]] = changes[n][2]]
  BY DEF Configures
<1>2. 0 \in T
  <2>1. Configured(changes, start, 0) = start
    BY DEF Configured
  <2>2. 0 \in 0..L
    OBVIOUS
  <2>3. env[0] = start
    BY <1>1, <2>2
  <2> QED
    BY <2>1, <2>2, <2>3
<1>3. ASSUME NEW n \in 1..L, n - 1 \in T PROVE n \in T
  <2>1. Configured(changes, start, n)
             = [Configured(changes, start, n - 1) EXCEPT ![changes[n][1]] = changes[n][2]]
    BY ChangesAdd
  <2>2. env[n] = [env[n - 1] EXCEPT ![changes[n][1]] = changes[n][2]]
    <3>1. n \in 0..L /\ n # 0
      OBVIOUS
    <3> QED
      BY <1>1, <3>1
  <2>3. env[n - 1] = Configured(changes, start, n - 1) /\ n \in 0..L
    BY <1>3
  <2> QED
    BY <2>1, <2>2, <2>3
<1>4. L \in T
  <2>1. 0..L \subseteq T
    <3> HIDE DEF T
    <3> QED
      BY <1>2, <1>3, UpTo
  <2> QED
    BY <2>1
<1> QED
  BY <1>4

\* There is such a sequence of environments.
LEMMA ConfiguresExists ==
    ASSUME NEW changes, Len(changes) \in Nat, NEW start,
           \A i, j \in 1..Len(changes) : changes[i][1] = changes[j][1] => i = j,
           start = [var \in Variables |-> start[var]]
    PROVE  \E env : Configures(env, changes, start, Len(changes))
<1> DEFINE env == [n \in 0..Len(changes) |-> Configured(changes, start, n)]
<1>1. \A n \in 0..Len(changes) :
        env[n] = IF n = 0 THEN start
                 ELSE [env[n - 1] EXCEPT ![changes[n][1]] = changes[n][2]]
  <2> TAKE n \in 0..Len(changes)
  <2>1. CASE n = 0
    BY <2>1 DEF Configured
  <2>2. CASE n # 0
    <3>1. n \in 1..Len(changes) /\ n - 1 \in 0..Len(changes)
      BY <2>2
    <3>2. Configured(changes, start, n)
             = [Configured(changes, start, n - 1) EXCEPT ![changes[n][1]] = changes[n][2]]
      BY <3>1, ChangesAdd
    <3> QED
      BY <2>2, <3>1, <3>2
  <2> QED
    BY <2>1, <2>2
<1> HIDE DEF env
<1>2. env = [n \in 0..Len(changes) |-> env[n]]
  BY DEF env
<1> DEFINE next == [n \in 0..Len(changes) |->
                     IF n = 0 THEN start
                     ELSE [env[n - 1] EXCEPT ![changes[n][1]] = changes[n][2]]]
<1>3. env = next
  <2>1. DOMAIN env = 0..Len(changes) /\ \A n \in 0..Len(changes) : env[n] = next[n]
    BY <1>1, <1>2
  <2>2. next = [n \in 0..Len(changes) |-> next[n]]
    OBVIOUS
  <2> HIDE DEF next
  <2> QED
    BY <1>2, <2>1, <2>2
<1>4. Configures(env, changes, start, Len(changes))
  BY <1>3 DEF Configures
<1> QED
  BY <1>4

\* A variable has one entry in the two lists, however its name is spelled.  Without
\* this, replaying removals before assignments would not be replaying the calls.
OneEntryEach(assigned, removed) ==
    /\ \A i, j \in 1..Len(assigned) :
         VariableOf[assigned[i][1]] = VariableOf[assigned[j][1]] => i = j
    /\ \A i, j \in 1..Len(removed) :
         VariableOf[removed[i]] = VariableOf[removed[j]] => i = j
    /\ \A i \in 1..Len(assigned), j \in 1..Len(removed) :
         VariableOf[assigned[i][1]] # VariableOf[removed[j]]

\* What the environment methods keep of their lists.
EnvInv ==
    /\ clearEnvironment \in BOOLEAN
    /\ envs \in Seq(Names \X Values)
    /\ removedEnvs \in Seq(Names)
    /\ OneEntryEach(envs, removedEnvs)

\* The environment is what the entries say, and the one it starts from elsewhere.
EnvironmentIs ==
    /\ ConfigureEnvironment = [var \in Variables |-> ConfigureEnvironment[var]]
    /\ \A i \in 1..Len(envs) : ConfigureEnvironment[VariableOf[envs[i][1]]] = envs[i][2]
    /\ \A i \in 1..Len(removedEnvs) :
         ConfigureEnvironment[VariableOf[removedEnvs[i]]] = None
    /\ \A var \in Variables :
         /\ \A i \in 1..Len(envs) : VariableOf[envs[i][1]] # var
         /\ \A i \in 1..Len(removedEnvs) : VariableOf[removedEnvs[i]] # var
         => ConfigureEnvironment[var] = StartEnvironment[var]

\* Where the elements of a concatenation come from.
LEMMA ConcatPlaces ==
    ASSUME NEW S, NEW s \in Seq(S), NEW t \in Seq(S)
    PROVE  /\ Len(s \o t) = Len(s) + Len(t)
           /\ \A i \in 1..Len(s) : (s \o t)[i] = s[i]
           /\ \A i \in 1..Len(t) : (s \o t)[Len(s) + i] = t[i]
  OBVIOUS

\* The removals come first, then the assignments.
LEMMA ChangesAre ==
    EnvInv => LET r == Len(removedEnvs) IN
        /\ Len(Changes) = r + Len(envs)
        /\ \A i \in 1..r : Changes[i] = <<VariableOf[removedEnvs[i]], None>>
        /\ \A i \in 1..Len(envs) :
             Changes[r + i] = <<VariableOf[envs[i][1]], envs[i][2]>>
<1> SUFFICES ASSUME EnvInv
             PROVE  LET r == Len(removedEnvs) IN
                    /\ Len(Changes) = r + Len(envs)
                    /\ \A i \in 1..r : Changes[i] = <<VariableOf[removedEnvs[i]], None>>
                    /\ \A i \in 1..Len(envs) :
                         Changes[r + i] = <<VariableOf[envs[i][1]], envs[i][2]>>
  OBVIOUS
<1> DEFINE r == Len(removedEnvs)
           e == Len(envs)
           first == [i \in 1..r |-> <<VariableOf[removedEnvs[i]], None>>]
           second == [i \in 1..e |-> <<VariableOf[envs[i][1]], envs[i][2]>>]
           Either == {first[i] : i \in 1..r} \cup {second[i] : i \in 1..e}
<1>1. r \in Nat /\ e \in Nat
  BY DEF EnvInv
<1>2. first \in Seq(Either) /\ Len(first) = r /\ second \in Seq(Either) /\ Len(second) = e
  <2>1. first \in [1..r -> Either] /\ second \in [1..e -> Either]
    OBVIOUS
  <2> HIDE DEF first, second, Either, r, e
  <2> QED
    BY <1>1, <2>1
<1>3. Changes = first \o second
  BY DEF Changes
<1>4. /\ \A i \in 1..r : first[i] = <<VariableOf[removedEnvs[i]], None>>
      /\ \A i \in 1..e : second[i] = <<VariableOf[envs[i][1]], envs[i][2]>>
  OBVIOUS
<1>5. /\ Len(Changes) = r + e
      /\ \A i \in 1..r : Changes[i] = first[i]
      /\ \A i \in 1..e : Changes[r + i] = second[i]
  <2> HIDE DEF first, second, Either, r, e
  <2>1. first \in Seq(Either) /\ second \in Seq(Either)
    BY <1>2
  <2>2. /\ Len(first \o second) = Len(first) + Len(second)
        /\ \A i \in 1..Len(first) : (first \o second)[i] = first[i]
        /\ \A i \in 1..Len(second) : (first \o second)[Len(first) + i] = second[i]
    BY ONLY <2>1, ConcatPlaces
  <2>3. Len(first) = r /\ Len(second) = e
    BY <1>2
  <2> QED
    BY ONLY <1>3, <2>2, <2>3, Zenon
<1> QED
  BY <1>4, <1>5

\* With one entry each, the order in which the entries are replayed does not matter.
LEMMA EnvironmentFollows == EnvInv => EnvironmentIs
<1> SUFFICES ASSUME EnvInv PROVE EnvironmentIs
  OBVIOUS
<1> DEFINE r == Len(removedEnvs)
           e == Len(envs)
           L == Len(Changes)
<1>1. r \in Nat /\ e \in Nat /\ L = r + e
  BY ChangesAre DEF EnvInv
<1>2. /\ \A i \in 1..r : Changes[i] = <<VariableOf[removedEnvs[i]], None>>
      /\ \A i \in 1..e : Changes[r + i] = <<VariableOf[envs[i][1]], envs[i][2]>>
  BY ChangesAre
<1>3. \A i \in 1..L : i \in 1..r \/ (i - r \in 1..e /\ i = r + (i - r))
  BY <1>1
<1>4. \A i, j \in 1..L : Changes[i][1] = Changes[j][1] => i = j
  <2> SUFFICES ASSUME NEW i \in 1..L, NEW j \in 1..L, Changes[i][1] = Changes[j][1]
               PROVE  i = j
    OBVIOUS
  <2>0. OneEntryEach(envs, removedEnvs)
    BY DEF EnvInv
  <2> HIDE DEF L
  <2>1. CASE i \in 1..r /\ j \in 1..r
    BY <1>2, <2>0, <2>1 DEF OneEntryEach
  <2>2. CASE i \in 1..r /\ j \notin 1..r
    <3>1. j - r \in 1..e /\ Changes[j] = <<VariableOf[envs[j - r][1]], envs[j - r][2]>>
      BY <1>2, <1>3, <2>2
    <3>2. VariableOf[removedEnvs[i]] = VariableOf[envs[j - r][1]]
      BY <1>2, <2>2, <3>1
    <3> QED
      BY <2>0, <2>2, <3>1, <3>2 DEF OneEntryEach
  <2>3. CASE i \notin 1..r /\ j \in 1..r
    <3>1. i - r \in 1..e /\ Changes[i] = <<VariableOf[envs[i - r][1]], envs[i - r][2]>>
      BY <1>2, <1>3, <2>3
    <3>2. VariableOf[removedEnvs[j]] = VariableOf[envs[i - r][1]]
      BY <1>2, <2>3, <3>1
    <3> QED
      BY <2>0, <2>3, <3>1, <3>2 DEF OneEntryEach
  <2>4. CASE i \notin 1..r /\ j \notin 1..r
    <3>1. /\ i - r \in 1..e /\ Changes[i] = <<VariableOf[envs[i - r][1]], envs[i - r][2]>>
          /\ j - r \in 1..e /\ Changes[j] = <<VariableOf[envs[j - r][1]], envs[j - r][2]>>
      BY <1>2, <1>3, <2>4
    <3>2. i - r = j - r
      BY <2>0, <3>1 DEF OneEntryEach
    <3> QED
      BY <1>1, <3>2
  <2> QED
    BY <2>1, <2>2, <2>3, <2>4
<1>5. StartEnvironment = [var \in Variables |-> StartEnvironment[var]]
  BY BuilderAssumption DEF StartEnvironment, EnvInv
<1>6. ConfigureEnvironment = Configured(Changes, StartEnvironment, L)
  <2> DEFINE env == CHOOSE g : Configures(g, Changes, StartEnvironment, L)
  <2>1. Configures(env, Changes, StartEnvironment, L)
    <3> HIDE DEF L
    <3>1. L \in Nat
      BY <1>1
    <3> QED
      BY <1>4, <1>5, <3>1, ConfiguresExists DEF L
  <2>2. ConfigureEnvironment = env[L]
    BY DEF ConfigureEnvironment, Configures
  <2> QED
    BY <1>1, <1>4, <1>5, <2>1, <2>2, ConfiguresInOrder
<1> HIDE DEF L
<1>7. ASSUME NEW i \in 1..L, Changes[i][1] \in Variables
      PROVE  ConfigureEnvironment[Changes[i][1]] = Changes[i][2]
  <2>1. (CHOOSE j \in 1..L : Changes[j][1] = Changes[i][1]) = i
    BY <1>4
  <2> QED
    BY <1>6, <1>7, <2>1 DEF Configured
<1>8. ASSUME NEW i \in 1..e
      PROVE  ConfigureEnvironment[VariableOf[envs[i][1]]] = envs[i][2]
  <2>1. envs[i] \in Names \X Values /\ VariableOf[envs[i][1]] \in Variables
    BY BuilderAssumption DEF EnvInv
  <2>2. r + i \in 1..L
    BY <1>1
  <2> QED
    BY <1>2, <1>7, <2>1, <2>2
<1>9. ASSUME NEW i \in 1..r
      PROVE  ConfigureEnvironment[VariableOf[removedEnvs[i]]] = None
  <2>1. VariableOf[removedEnvs[i]] \in Variables
    BY BuilderAssumption DEF EnvInv
  <2>2. i \in 1..L
    BY <1>1
  <2> QED
    BY <1>2, <1>7, <2>1, <2>2
<1>10. ASSUME NEW var \in Variables,
              \A i \in 1..e : VariableOf[envs[i][1]] # var,
              \A i \in 1..r : VariableOf[removedEnvs[i]] # var
       PROVE  ConfigureEnvironment[var] = StartEnvironment[var]
  <2>1. \A i \in 1..L : Changes[i][1] # var
    <3> TAKE i \in 1..L
    <3>1. CASE i \in 1..r
      BY <1>2, <1>10, <3>1
    <3>2. CASE i \notin 1..r
      <4>1. i - r \in 1..e /\ Changes[i] = <<VariableOf[envs[i - r][1]], envs[i - r][2]>>
        BY <1>2, <1>3, <3>2
      <4> QED
        BY <1>10, <4>1
    <3> QED
      BY <3>1, <3>2
  <2> QED
    BY <1>6, <2>1 DEF Configured
<1>11. ConfigureEnvironment = [var \in Variables |-> ConfigureEnvironment[var]]
  BY <1>6 DEF Configured
<1> QED
  BY <1>8, <1>9, <1>10, <1>11 DEF EnvironmentIs

\* What setting or removing a variable leaves of the two lists: all entries but those
\* of this variable.
LEMMA OthersStay ==
    ASSUME EnvInv, NEW key \in Names
    PROVE  LET es == EnvsWithout(key)
               rs == RemovedEnvsWithout(key)
           IN  /\ es \in Seq(Names \X Values) /\ rs \in Seq(Names)
               /\ \A i \in 1..Len(es) :
                    /\ VariableOf[es[i][1]] # VariableOf[key]
                    /\ \E j \in 1..Len(envs) : envs[j] = es[i]
               /\ \A j \in 1..Len(envs) :
                    VariableOf[envs[j][1]] # VariableOf[key]
                        => \E i \in 1..Len(es) : es[i] = envs[j]
               /\ \A i, j \in 1..Len(es) :
                    VariableOf[es[i][1]] = VariableOf[es[j][1]] => i = j
               /\ \A i \in 1..Len(rs) :
                    /\ VariableOf[rs[i]] # VariableOf[key]
                    /\ \E j \in 1..Len(removedEnvs) : removedEnvs[j] = rs[i]
               /\ \A j \in 1..Len(removedEnvs) :
                    VariableOf[removedEnvs[j]] # VariableOf[key]
                        => \E i \in 1..Len(rs) : rs[i] = removedEnvs[j]
               /\ \A i, j \in 1..Len(rs) : VariableOf[rs[i]] = VariableOf[rs[j]] => i = j
<1> DEFINE es == EnvsWithout(key)
           rs == RemovedEnvsWithout(key)
           de == {pair \in Names \X Values : EnvKeyEq(pair[1], key)}
           dr == {removed \in Names : EnvKeyEq(removed, key)}
<1>1. /\ envs \in Seq(Names \X Values) /\ removedEnvs \in Seq(Names)
      /\ OneEntryEach(envs, removedEnvs)
      /\ DOMAIN envs = 1..Len(envs) /\ DOMAIN removedEnvs = 1..Len(removedEnvs)
  BY DEF EnvInv
<1>2. IsInjective(envs) /\ IsInjective(removedEnvs)
  BY <1>1 DEF OneEntryEach, IsInjective
<1>3. /\ \A j \in 1..Len(envs) : envs[j] \in Names \X Values
      /\ \A j \in 1..Len(removedEnvs) : removedEnvs[j] \in Names
  BY <1>1
<1>4. /\ es \in Seq(Names \X Values)
      /\ \A i \in 1..Len(es) :
           es[i] \notin de /\ \E j \in 1..Len(envs) : envs[j] = es[i]
      /\ \A j \in 1..Len(envs) :
           envs[j] \notin de => \E i \in 1..Len(es) : es[i] = envs[j]
      /\ IsInjective(es)
  <2> HIDE DEF de
  <2>1. es = Without(envs, de)
    BY DEF EnvsWithout, de
  <2>2. envs \in Seq(Names \X Values) /\ IsInjective(envs)
    BY <1>1, <1>2
  <2> QED
    BY ONLY <2>1, <2>2, WithoutIsPart
<1>5. /\ rs \in Seq(Names)
      /\ \A i \in 1..Len(rs) :
           rs[i] \notin dr /\ \E j \in 1..Len(removedEnvs) : removedEnvs[j] = rs[i]
      /\ \A j \in 1..Len(removedEnvs) :
           removedEnvs[j] \notin dr => \E i \in 1..Len(rs) : rs[i] = removedEnvs[j]
      /\ IsInjective(rs)
  <2> HIDE DEF dr
  <2>1. rs = Without(removedEnvs, dr)
    BY DEF RemovedEnvsWithout, dr
  <2>2. removedEnvs \in Seq(Names) /\ IsInjective(removedEnvs)
    BY <1>1, <1>2
  <2> QED
    BY ONLY <2>1, <2>2, WithoutIsPart
<1> HIDE DEF es, rs
<1>6. \A i, j \in 1..Len(es) : VariableOf[es[i][1]] = VariableOf[es[j][1]] => i = j
  <2> SUFFICES ASSUME NEW i \in 1..Len(es), NEW j \in 1..Len(es),
                      VariableOf[es[i][1]] = VariableOf[es[j][1]]
               PROVE  i = j
    OBVIOUS
  <2>1. PICK a \in 1..Len(envs), b \in 1..Len(envs) : envs[a] = es[i] /\ envs[b] = es[j]
    BY <1>4
  <2>2. es[i] = es[j]
    BY <1>1, <2>1 DEF OneEntryEach
  <2>3. i \in DOMAIN es /\ j \in DOMAIN es
    BY <1>4
  <2> QED
    BY <1>4, <2>2, <2>3 DEF IsInjective
<1>7. \A i, j \in 1..Len(rs) : VariableOf[rs[i]] = VariableOf[rs[j]] => i = j
  <2> SUFFICES ASSUME NEW i \in 1..Len(rs), NEW j \in 1..Len(rs),
                      VariableOf[rs[i]] = VariableOf[rs[j]]
               PROVE  i = j
    OBVIOUS
  <2>1. PICK a \in 1..Len(removedEnvs), b \in 1..Len(removedEnvs) :
            removedEnvs[a] = rs[i] /\ removedEnvs[b] = rs[j]
    BY <1>5
  <2>2. rs[i] = rs[j]
    BY <1>1, <2>1 DEF OneEntryEach
  <2>3. i \in DOMAIN rs /\ j \in DOMAIN rs
    BY <1>5
  <2> QED
    BY <1>5, <2>2, <2>3 DEF IsInjective
<1>8. /\ \A i \in 1..Len(es) : VariableOf[es[i][1]] # VariableOf[key]
      /\ \A i \in 1..Len(rs) : VariableOf[rs[i]] # VariableOf[key]
  <2>1. ASSUME NEW i \in 1..Len(es) PROVE VariableOf[es[i][1]] # VariableOf[key]
    BY <1>3, <1>4 DEF EnvKeyEq
  <2>2. ASSUME NEW i \in 1..Len(rs) PROVE VariableOf[rs[i]] # VariableOf[key]
    BY <1>3, <1>5 DEF EnvKeyEq
  <2> QED
    BY <2>1, <2>2
<1>9. /\ \A j \in 1..Len(envs) :
           VariableOf[envs[j][1]] # VariableOf[key] => envs[j] \notin de
      /\ \A j \in 1..Len(removedEnvs) :
           VariableOf[removedEnvs[j]] # VariableOf[key] => removedEnvs[j] \notin dr
  BY DEF EnvKeyEq
<1> HIDE DEF de, dr
<1> QED
  BY <1>4, <1>5, <1>6, <1>7, <1>8, <1>9 DEF es, rs

\* Env keeps one entry each: it drops those of its variable before it adds its own.
LEMMA EnvKeepsInv ==
    ASSUME EnvInv, NEW key \in Names, NEW value \in Values, Env(key, value)
    PROVE  EnvInv'
<1> DEFINE es == EnvsWithout(key)
           rs == RemovedEnvsWithout(key)
           k == Len(es)
           last == <<key, value>>
<1>1. /\ envs' = Append(es, last) /\ removedEnvs' = rs
      /\ clearEnvironment' = clearEnvironment
  BY DEF Env
<1>2. /\ es \in Seq(Names \X Values) /\ rs \in Seq(Names)
      /\ \A i \in 1..k : VariableOf[es[i][1]] # VariableOf[key]
                          /\ \E j \in 1..Len(envs) : envs[j] = es[i]
      /\ \A i, j \in 1..k : VariableOf[es[i][1]] = VariableOf[es[j][1]] => i = j
      /\ \A i \in 1..Len(rs) : VariableOf[rs[i]] # VariableOf[key]
                                /\ \E j \in 1..Len(removedEnvs) : removedEnvs[j] = rs[i]
      /\ \A i, j \in 1..Len(rs) : VariableOf[rs[i]] = VariableOf[rs[j]] => i = j
  BY OthersStay
<1>9. k \in Nat
  BY <1>2
<1>3. last \in Names \X Values /\ last[1] = key
  OBVIOUS
<1>4. OneEntryEach(envs, removedEnvs)
  BY DEF EnvInv
<1> HIDE DEF es, rs, last
<1>5. /\ envs' \in Seq(Names \X Values) /\ Len(envs') = k + 1 /\ envs'[k + 1] = last
      /\ \A i \in 1..k : envs'[i] = es[i]
      /\ 1..(k + 1) = 1..k \cup {k + 1}
  BY <1>1, <1>2, <1>3, <1>9
<1> HIDE DEF k
<1>6. \A i, j \in 1..(k + 1) :
        VariableOf[envs'[i][1]] = VariableOf[envs'[j][1]] => i = j
  <2>1. \A i \in 1..k : VariableOf[envs'[i][1]] # VariableOf[envs'[k + 1][1]]
    BY <1>2, <1>3, <1>5
  <2>2. \A i, j \in 1..k : VariableOf[envs'[i][1]] = VariableOf[envs'[j][1]] => i = j
    BY <1>2, <1>5
  <2> QED
    BY <1>5, <2>1, <2>2
<1>7. \A i \in 1..(k + 1), j \in 1..Len(rs) :
        VariableOf[envs'[i][1]] # VariableOf[rs[j]]
  <2> SUFFICES ASSUME NEW i \in 1..(k + 1), NEW j \in 1..Len(rs),
                      VariableOf[envs'[i][1]] = VariableOf[rs[j]]
               PROVE  FALSE
    OBVIOUS
  <2>1. i \in 1..k
    BY <1>2, <1>3, <1>5
  <2>2. PICK a \in 1..Len(envs), b \in 1..Len(removedEnvs) :
            envs[a] = es[i] /\ removedEnvs[b] = rs[j]
    BY <1>2, <2>1
  <2> QED
    BY <1>4, <1>5, <2>1, <2>2 DEF OneEntryEach
<1>8. OneEntryEach(envs', removedEnvs')
  <2>1. Len(envs') = k + 1
    BY <1>5
  <2>2. \A i, j \in 1..Len(rs) : VariableOf[rs[i]] = VariableOf[rs[j]] => i = j
    BY <1>2
  <2> QED
    BY ONLY <1>1, <1>6, <1>7, <2>1, <2>2 DEF OneEntryEach
<1> QED
  BY <1>1, <1>2, <1>5, <1>8 DEF EnvInv

\* So does EnvRemove.
LEMMA EnvRemoveKeepsInv ==
    ASSUME EnvInv, NEW key \in Names, EnvRemove(key)
    PROVE  EnvInv'
<1> DEFINE es == EnvsWithout(key)
           rs == RemovedEnvsWithout(key)
           k == Len(rs)
<1>1. /\ envs' = es /\ removedEnvs' = Append(rs, key)
      /\ clearEnvironment' = clearEnvironment
  BY DEF EnvRemove
<1>2. /\ es \in Seq(Names \X Values) /\ rs \in Seq(Names)
      /\ \A i \in 1..Len(es) : VariableOf[es[i][1]] # VariableOf[key]
                               /\ \E j \in 1..Len(envs) : envs[j] = es[i]
      /\ \A i, j \in 1..Len(es) : VariableOf[es[i][1]] = VariableOf[es[j][1]] => i = j
      /\ \A i \in 1..k : VariableOf[rs[i]] # VariableOf[key]
                          /\ \E j \in 1..Len(removedEnvs) : removedEnvs[j] = rs[i]
      /\ \A i, j \in 1..k : VariableOf[rs[i]] = VariableOf[rs[j]] => i = j
  BY OthersStay
<1>8. k \in Nat
  BY <1>2
<1>3. OneEntryEach(envs, removedEnvs)
  BY DEF EnvInv
<1> HIDE DEF es, rs
<1>4. /\ removedEnvs' \in Seq(Names) /\ Len(removedEnvs') = k + 1
      /\ removedEnvs'[k + 1] = key
      /\ \A i \in 1..k : removedEnvs'[i] = rs[i]
      /\ 1..(k + 1) = 1..k \cup {k + 1}
  BY <1>1, <1>2, <1>8
<1> HIDE DEF k
<1>5. \A i, j \in 1..(k + 1) :
        VariableOf[removedEnvs'[i]] = VariableOf[removedEnvs'[j]] => i = j
  <2>1. \A i \in 1..k : VariableOf[removedEnvs'[i]] # VariableOf[removedEnvs'[k + 1]]
    BY <1>2, <1>4
  <2>2. \A i, j \in 1..k :
            VariableOf[removedEnvs'[i]] = VariableOf[removedEnvs'[j]] => i = j
    BY <1>2, <1>4
  <2> QED
    BY <1>4, <2>1, <2>2
<1>6. \A i \in 1..Len(es), j \in 1..(k + 1) :
        VariableOf[es[i][1]] # VariableOf[removedEnvs'[j]]
  <2> SUFFICES ASSUME NEW i \in 1..Len(es), NEW j \in 1..(k + 1),
                      VariableOf[es[i][1]] = VariableOf[removedEnvs'[j]]
               PROVE  FALSE
    OBVIOUS
  <2>1. j \in 1..k
    BY <1>2, <1>4
  <2>2. PICK a \in 1..Len(envs), b \in 1..Len(removedEnvs) :
            envs[a] = es[i] /\ removedEnvs[b] = rs[j]
    BY <1>2, <2>1
  <2> QED
    BY <1>3, <1>4, <2>1, <2>2 DEF OneEntryEach
<1>7. OneEntryEach(envs', removedEnvs')
  <2>1. Len(removedEnvs') = k + 1
    BY <1>4
  <2>2. \A i, j \in 1..Len(es) : VariableOf[es[i][1]] = VariableOf[es[j][1]] => i = j
    BY <1>2
  <2> QED
    BY ONLY <1>1, <1>5, <1>6, <2>1, <2>2 DEF OneEntryEach
<1> QED
  BY <1>1, <1>2, <1>4, <1>7 DEF EnvInv

\* Two environments are the same when they give each variable the same value.
LEMMA SameEnvironment ==
    ASSUME NEW left, NEW right,
           left = [var \in Variables |-> left[var]],
           right = [var \in Variables |-> right[var]],
           \A var \in Variables : left[var] = right[var]
    PROVE  left = right
  OBVIOUS

\* The environment after Env is the one before with the variable set.
LEMMA EnvAssigns ==
    ASSUME EnvInv, EnvironmentIs, EnvInv', EnvironmentIs',
           NEW key \in Names, NEW value \in Values, Env(key, value)
    PROVE  Contract!SetVariable(VariableOf[key], value)
<1> DEFINE es == EnvsWithout(key)
           rs == RemovedEnvsWithout(key)
           E == ConfigureEnvironment
           changed == [E EXCEPT ![VariableOf[key]] = value]
<1>1. /\ envs' = Append(es, <<key, value>>) /\ removedEnvs' = rs
      /\ StartEnvironment' = StartEnvironment
      /\ call' = <<"set", VariableOf[key], value>>
  BY DEF Env, StartEnvironment
<1>2. /\ es \in Seq(Names \X Values)
      /\ \A i \in 1..Len(es) : \E j \in 1..Len(envs) : envs[j] = es[i]
      /\ \A j \in 1..Len(envs) :
           VariableOf[envs[j][1]] # VariableOf[key]
               => \E i \in 1..Len(es) : es[i] = envs[j]
      /\ \A i \in 1..Len(rs) : \E j \in 1..Len(removedEnvs) : removedEnvs[j] = rs[i]
      /\ \A j \in 1..Len(removedEnvs) :
           VariableOf[removedEnvs[j]] # VariableOf[key]
               => \E i \in 1..Len(rs) : rs[i] = removedEnvs[j]
  BY OthersStay
<1> HIDE DEF es, rs
<1>3. Len(es) \in Nat /\ <<key, value>> \in Names \X Values
  BY <1>2
<1>4. /\ Len(envs') = Len(es) + 1 /\ envs'[Len(es) + 1] = <<key, value>>
      /\ \A i \in 1..Len(es) : envs'[i] = es[i]
      /\ 1..Len(envs') = 1..Len(es) \cup {Len(es) + 1}
  BY <1>1, <1>2, <1>3
<1>5. ASSUME NEW var \in Variables, var # VariableOf[key]
      PROVE  E'[var] = E[var]
  <2>1. CASE \E i \in 1..Len(envs) : VariableOf[envs[i][1]] = var
    <3>1. PICK i \in 1..Len(envs) : VariableOf[envs[i][1]] = var
      BY <2>1
    <3>2. PICK j \in 1..Len(es) : es[j] = envs[i]
      BY <1>2, <1>5, <3>1
    <3>3. E[var] = envs[i][2]
      BY <3>1 DEF EnvironmentIs
    <3>4. j \in 1..Len(envs') /\ envs'[j] = envs[i]
      BY <1>4, <3>2
    <3>5. E'[var] = envs'[j][2]
      BY <3>1, <3>4 DEF EnvironmentIs
    <3> QED
      BY <3>3, <3>4, <3>5
  <2>2. CASE \E i \in 1..Len(removedEnvs) : VariableOf[removedEnvs[i]] = var
    <3>1. PICK i \in 1..Len(removedEnvs) : VariableOf[removedEnvs[i]] = var
      BY <2>2
    <3>2. PICK j \in 1..Len(rs) : rs[j] = removedEnvs[i]
      BY <1>2, <1>5, <3>1
    <3>3. E[var] = None
      BY <3>1 DEF EnvironmentIs
    <3>4. E'[var] = None
      BY <1>1, <3>1, <3>2 DEF EnvironmentIs
    <3> QED
      BY <3>3, <3>4
  <2>3. CASE /\ \A i \in 1..Len(envs) : VariableOf[envs[i][1]] # var
             /\ \A i \in 1..Len(removedEnvs) : VariableOf[removedEnvs[i]] # var
    <3>1. E[var] = StartEnvironment[var]
      BY <2>3 DEF EnvironmentIs
    <3>2. \A i \in 1..Len(envs') : VariableOf[envs'[i][1]] # var
      <4> TAKE i \in 1..Len(envs')
      <4>1. CASE i = Len(es) + 1
        BY <1>4, <1>5, <4>1
      <4>2. CASE i \in 1..Len(es)
        <5>1. PICK j \in 1..Len(envs) : envs[j] = es[i]
          BY <1>2, <4>2
        <5>2. envs'[i] = envs[j]
          BY <1>4, <4>2, <5>1
        <5> QED
          BY ONLY <2>3, <5>2
      <4> QED
        BY <1>4, <4>1, <4>2
    <3>3. \A i \in 1..Len(removedEnvs') : VariableOf[removedEnvs'[i]] # var
      <4> TAKE i \in 1..Len(removedEnvs')
      <4>1. PICK j \in 1..Len(removedEnvs) : removedEnvs[j] = removedEnvs'[i]
        BY <1>1, <1>2
      <4> QED
        BY ONLY <2>3, <4>1
    <3>4. E'[var] = StartEnvironment'[var]
      BY <3>2, <3>3 DEF EnvironmentIs
    <3> QED
      BY <1>1, <3>1, <3>4
  <2> QED
    BY <2>1, <2>2, <2>3
<1>6. E'[VariableOf[key]] = value
  <2>1. Len(es) + 1 \in 1..Len(envs')
    BY <1>4
  <2> QED
    BY <1>4, <2>1 DEF EnvironmentIs
<1>7. VariableOf[key] \in Variables
  BY BuilderAssumption
<1>8. E = [var \in Variables |-> E[var]] /\ E' = [var \in Variables |-> E'[var]]
  BY DEF EnvironmentIs
<1> HIDE DEF E
<1>9. changed = [var \in Variables |-> changed[var]]
      /\ \A var \in Variables :
           changed[var] = IF var = VariableOf[key] THEN value ELSE E[var]
  BY <1>7, <1>8
<1>10. E' = changed
  <2> HIDE DEF changed
  <2>1. \A var \in Variables : E'[var] = changed[var]
    BY <1>5, <1>6, <1>9
  <2> QED
    BY <1>8, <1>9, <2>1, SameEnvironment
<1> QED
  BY <1>1, <1>10 DEF Contract!SetVariable, E

\* The environment after EnvRemove is the one before without the variable.
LEMMA EnvRemoveUnsets ==
    ASSUME EnvInv, EnvironmentIs, EnvInv', EnvironmentIs',
           NEW key \in Names, EnvRemove(key)
    PROVE  Contract!RemoveVariable(VariableOf[key])
<1> DEFINE es == EnvsWithout(key)
           rs == RemovedEnvsWithout(key)
           E == ConfigureEnvironment
           changed == [E EXCEPT ![VariableOf[key]] = None]
<1>1. /\ envs' = es /\ removedEnvs' = Append(rs, key)
      /\ StartEnvironment' = StartEnvironment
      /\ call' = <<"remove", VariableOf[key], None>>
  BY DEF EnvRemove, StartEnvironment
<1>2. /\ rs \in Seq(Names)
      /\ \A i \in 1..Len(es) : \E j \in 1..Len(envs) : envs[j] = es[i]
      /\ \A j \in 1..Len(envs) :
           VariableOf[envs[j][1]] # VariableOf[key]
               => \E i \in 1..Len(es) : es[i] = envs[j]
      /\ \A i \in 1..Len(rs) : \E j \in 1..Len(removedEnvs) : removedEnvs[j] = rs[i]
      /\ \A j \in 1..Len(removedEnvs) :
           VariableOf[removedEnvs[j]] # VariableOf[key]
               => \E i \in 1..Len(rs) : rs[i] = removedEnvs[j]
  BY OthersStay
<1> HIDE DEF es, rs
<1>3. Len(rs) \in Nat
  BY <1>2
<1>4. /\ Len(removedEnvs') = Len(rs) + 1 /\ removedEnvs'[Len(rs) + 1] = key
      /\ \A i \in 1..Len(rs) : removedEnvs'[i] = rs[i]
      /\ 1..Len(removedEnvs') = 1..Len(rs) \cup {Len(rs) + 1}
  BY <1>1, <1>2, <1>3
<1>5. ASSUME NEW var \in Variables, var # VariableOf[key]
      PROVE  E'[var] = E[var]
  <2>1. CASE \E i \in 1..Len(envs) : VariableOf[envs[i][1]] = var
    <3>1. PICK i \in 1..Len(envs) : VariableOf[envs[i][1]] = var
      BY <2>1
    <3>2. PICK j \in 1..Len(es) : es[j] = envs[i]
      BY <1>2, <1>5, <3>1
    <3>3. E[var] = envs[i][2]
      BY <3>1 DEF EnvironmentIs
    <3>4. E'[var] = es[j][2]
      BY <1>1, <3>1, <3>2 DEF EnvironmentIs
    <3> QED
      BY <3>2, <3>3, <3>4
  <2>2. CASE \E i \in 1..Len(removedEnvs) : VariableOf[removedEnvs[i]] = var
    <3>1. PICK i \in 1..Len(removedEnvs) : VariableOf[removedEnvs[i]] = var
      BY <2>2
    <3>2. PICK j \in 1..Len(rs) : rs[j] = removedEnvs[i]
      BY <1>2, <1>5, <3>1
    <3>3. E[var] = None
      BY <3>1 DEF EnvironmentIs
    <3>4. j \in 1..Len(removedEnvs') /\ removedEnvs'[j] = removedEnvs[i]
      BY <1>4, <3>2
    <3>5. E'[var] = None
      BY <3>1, <3>4 DEF EnvironmentIs
    <3> QED
      BY <3>3, <3>5
  <2>3. CASE /\ \A i \in 1..Len(envs) : VariableOf[envs[i][1]] # var
             /\ \A i \in 1..Len(removedEnvs) : VariableOf[removedEnvs[i]] # var
    <3>1. E[var] = StartEnvironment[var]
      BY <2>3 DEF EnvironmentIs
    <3>2. \A i \in 1..Len(removedEnvs') : VariableOf[removedEnvs'[i]] # var
      <4> TAKE i \in 1..Len(removedEnvs')
      <4>1. CASE i = Len(rs) + 1
        BY <1>4, <1>5, <4>1
      <4>2. CASE i \in 1..Len(rs)
        <5>1. PICK j \in 1..Len(removedEnvs) : removedEnvs[j] = rs[i]
          BY <1>2, <4>2
        <5>2. removedEnvs'[i] = removedEnvs[j]
          BY <1>4, <4>2, <5>1
        <5> QED
          BY ONLY <2>3, <5>2
      <4> QED
        BY <1>4, <4>1, <4>2
    <3>3. \A i \in 1..Len(envs') : VariableOf[envs'[i][1]] # var
      <4> TAKE i \in 1..Len(envs')
      <4>1. PICK j \in 1..Len(envs) : envs[j] = envs'[i]
        BY <1>1, <1>2
      <4> QED
        BY ONLY <2>3, <4>1
    <3>4. E'[var] = StartEnvironment'[var]
      BY <3>2, <3>3 DEF EnvironmentIs
    <3> QED
      BY <1>1, <3>1, <3>4
  <2> QED
    BY <2>1, <2>2, <2>3
<1>6. E'[VariableOf[key]] = None
  <2>1. Len(rs) + 1 \in 1..Len(removedEnvs')
    BY <1>4
  <2> QED
    BY <1>4, <2>1 DEF EnvironmentIs
<1>7. VariableOf[key] \in Variables
  BY BuilderAssumption
<1>8. E = [var \in Variables |-> E[var]] /\ E' = [var \in Variables |-> E'[var]]
  BY DEF EnvironmentIs
<1> HIDE DEF E
<1>9. changed = [var \in Variables |-> changed[var]]
      /\ \A var \in Variables :
           changed[var] = IF var = VariableOf[key] THEN None ELSE E[var]
  BY <1>7, <1>8
<1>10. E' = changed
  <2> HIDE DEF changed
  <2>1. \A var \in Variables : E'[var] = changed[var]
    BY <1>5, <1>6, <1>9
  <2> QED
    BY <1>8, <1>9, <2>1, SameEnvironment
<1> QED
  BY <1>1, <1>10 DEF Contract!RemoveVariable, E

\* Without entries the environment is the one it starts from.
LEMMA NothingChanged ==
    ASSUME EnvironmentIs, envs = <<>>, removedEnvs = <<>>,
           StartEnvironment = [var \in Variables |-> StartEnvironment[var]]
    PROVE  ConfigureEnvironment = StartEnvironment
<1>1. \A var \in Variables : ConfigureEnvironment[var] = StartEnvironment[var]
  BY DEF EnvironmentIs
<1>2. ConfigureEnvironment = [var \in Variables |-> ConfigureEnvironment[var]]
  BY DEF EnvironmentIs
<1> QED
  BY <1>1, <1>2, SameEnvironment

\* EnvClear leaves no variable.
LEMMA EnvClearClears ==
    ASSUME EnvironmentIs', EnvClear
    PROVE  Contract!ClearAll
<1> DEFINE E == ConfigureEnvironment
           nothing == [var \in Variables |-> None]
<1>1. /\ envs' = <<>> /\ removedEnvs' = <<>> /\ StartEnvironment' = nothing
      /\ call' = <<"clear", None, None>>
  BY DEF EnvClear, StartEnvironment
<1>2. \A var \in Variables : E'[var] = nothing[var]
  BY <1>1 DEF EnvironmentIs
<1>3. E' = [var \in Variables |-> E'[var]]
  BY DEF EnvironmentIs
<1>4. E' = nothing
  <2>1. nothing = [var \in Variables |-> nothing[var]]
    OBVIOUS
  <2> HIDE DEF E, nothing
  <2> QED
    BY <1>2, <1>3, <2>1, SameEnvironment
<1> QED
  BY <1>1, <1>4 DEF Contract!ClearAll, Variables

\* A new command has no entries.
LEMMA EnvInvInit == BuilderInit => EnvInv
<1> SUFFICES ASSUME BuilderInit PROVE EnvInv
  OBVIOUS
<1>1. envs = <<>> /\ removedEnvs = <<>> /\ clearEnvironment = FALSE
  BY DEF BuilderInit
<1>2. OneEntryEach(envs, removedEnvs)
  BY <1>1 DEF OneEntryEach
<1>3. envs \in Seq(Names \X Values) /\ removedEnvs \in Seq(Names)
  <2>1. \A S : <<>> \in Seq(S)
    OBVIOUS
  <2> QED
    BY ONLY <1>1, <2>1
<1> QED
  BY ONLY <1>1, <1>2, <1>3 DEF EnvInv

\* No call of the builder leaves two entries of one variable.
LEMMA EnvInvStep == EnvInv /\ [BuilderNext]_builderVars => EnvInv'
<1> SUFFICES ASSUME EnvInv, [BuilderNext]_builderVars PROVE EnvInv'
  OBVIOUS
<1>1. ASSUME NEW key \in Names, EnvRemove(key) PROVE EnvInv'
  BY <1>1, EnvRemoveKeepsInv
<1>2. ASSUME NEW key \in Names, NEW value \in Values, Env(key, value) PROVE EnvInv'
  BY <1>2, EnvKeepsInv
<1>3. CASE EnvClear
  BY <1>3 DEF EnvClear, EnvInv, OneEntryEach
<1>4. CASE UNCHANGED environmentVars
  BY <1>4 DEF environmentVars, EnvInv
<1>5. CASE Arg \/ SensitiveArg \/ Args \/ SetStdin
  BY <1>4, <1>5 DEF Arg, SensitiveArg, Args, SetStdin, AppendArg
<1>6. CASE UNCHANGED builderVars
  BY <1>4, <1>6 DEF builderVars
<1> QED
  BY <1>1, <1>2, <1>3, <1>5, <1>6 DEF BuilderNext

\* A process is configured with the environment of the calls executed one after the
\* other: the two lists, replayed by kind, implement the methods that change an
\* environment at once, whatever is called in whatever order.
THEOREM BuilderImplementsContract == BuilderSpec => AppliesCallsInOrder
<1>1. BuilderInit => EnvInv
  BY EnvInvInit
<1>2. EnvInv /\ [BuilderNext]_builderVars => EnvInv'
  BY EnvInvStep
<1>3. EnvInv => EnvironmentIs
  BY EnvironmentFollows
<1>4. BuilderInit /\ EnvironmentIs => Contract!EnvInit
  <2> SUFFICES ASSUME BuilderInit, EnvironmentIs PROVE Contract!EnvInit
    OBVIOUS
  <2>1. StartEnvironment = Inherited /\ envs = <<>> /\ removedEnvs = <<>> /\ call = None
    BY DEF BuilderInit, StartEnvironment
  <2>2. StartEnvironment = [var \in Variables |-> StartEnvironment[var]]
    BY <2>1, BuilderAssumption
  <2> QED
    BY <2>1, <2>2, NothingChanged DEF Contract!EnvInit
<1>5. EnvInv /\ EnvironmentIs /\ EnvInv' /\ EnvironmentIs' /\ [BuilderNext]_builderVars
        => [Contract!EnvNext]_<<ConfigureEnvironment, call>>
  <2> SUFFICES ASSUME EnvInv, EnvironmentIs, EnvInv', EnvironmentIs',
                      [BuilderNext]_builderVars
               PROVE  [Contract!EnvNext]_<<ConfigureEnvironment, call>>
    OBVIOUS
  <2>1. ASSUME NEW key \in Names, NEW value \in Values, Env(key, value)
        PROVE  Contract!EnvNext
    <3>1. VariableOf[key] \in DOMAIN Inherited
      BY BuilderAssumption DEF Variables
    <3> QED
      BY <2>1, <3>1, EnvAssigns DEF Contract!EnvNext
  <2>2. ASSUME NEW key \in Names, EnvRemove(key)
        PROVE  Contract!EnvNext
    <3>1. VariableOf[key] \in DOMAIN Inherited
      BY BuilderAssumption DEF Variables
    <3> QED
      BY <2>2, <3>1, EnvRemoveUnsets DEF Contract!EnvNext
  <2>3. CASE EnvClear
    BY <2>3, EnvClearClears DEF Contract!EnvNext
  <2>4. ASSUME UNCHANGED environmentVars
        PROVE  UNCHANGED <<ConfigureEnvironment, call>>
    BY <2>4 DEF environmentVars, ConfigureEnvironment, Changes, StartEnvironment
  <2>5. CASE Arg \/ SensitiveArg \/ Args \/ SetStdin
    BY <2>4, <2>5 DEF Arg, SensitiveArg, Args, SetStdin, AppendArg
  <2>6. CASE UNCHANGED builderVars
    BY <2>4, <2>6 DEF builderVars
  <2> QED
    BY <2>1, <2>2, <2>3, <2>5, <2>6 DEF BuilderNext
<1> QED
  BY <1>1, <1>2, <1>3, <1>4, <1>5, PTL
  DEF BuilderSpec, AppliesCallsInOrder, Contract!EnvSpec

(***************************************************************************)
(* The verdict.                                                            *)
(***************************************************************************)

Methods == PolicyMethods \cup {"max_bytes", "success_exit_codes", "total_output_limit"}

Arguments ==
    BOOLEAN \cup (SUBSET OutputStream) \cup (SUBSET ExitCodes) \cup Caps \cup {None}

\* There is a last one among the calls of some methods.
HasLast(methods) ==
    CallsOf(methods) # {} =>
        \E i \in CallsOf(methods) : \A j \in CallsOf(methods) : j <= i

\* The settings are those of the caller's last words about them.
VerdictInv ==
    /\ calls \in Seq([method : Methods, argument : Arguments])
    /\ HasLast(PolicyMethods) /\ HasLast({"success_exit_codes"})
    /\ failOnOutputTruncation \in BOOLEAN
    /\ failOnOutputTruncation = FALSE =>
          /\ CallsOf(PolicyMethods) # {}
          /\ \/ LastCall(PolicyMethods).method = "unbounded_output"
             \/ LastCall(PolicyMethods).argument = FALSE
    /\ successExitCodes = IF CallsOf({"success_exit_codes"}) = {} THEN {0}
                          ELSE LastCall({"success_exit_codes"}).argument
    /\ result # None => result.kind = Verdict(result.output)

\* The last of some calls after one more call.
LEMMA LastCallAppended ==
    ASSUME NEW S, calls \in Seq(S), NEW c \in S, calls' = Append(calls, c), NEW methods,
           HasLast(methods)
    PROVE  /\ calls' \in Seq(S)
           /\ HasLast(methods)'
           /\ c.method \in methods =>
                 CallsOf(methods)' # {} /\ LastCall(methods)' = c
           /\ c.method \notin methods =>
                 /\ CallsOf(methods)' = CallsOf(methods)
                 /\ CallsOf(methods) # {} => LastCall(methods)' = LastCall(methods)
<1> DEFINE n == Len(calls)
<1>1. /\ n \in Nat /\ DOMAIN calls = 1..n
      /\ calls' \in Seq(S) /\ DOMAIN calls' = 1..(n + 1)
      /\ \A i \in 1..n : calls'[i] = calls[i]
      /\ calls'[n + 1] = c
  OBVIOUS
<1> HIDE DEF n
<1>2. ASSUME c.method \in methods
      PROVE  HasLast(methods)' /\ CallsOf(methods)' # {} /\ LastCall(methods)' = c
  <2>1. n + 1 \in CallsOf(methods)' /\ CallsOf(methods)' \subseteq 1..(n + 1)
    BY <1>1, <1>2 DEF CallsOf
  <2>2. \A j \in CallsOf(methods)' : j <= n + 1
    BY <1>1, <2>1
  <2>3. ASSUME NEW i \in CallsOf(methods)', \A j \in CallsOf(methods)' : j <= i
        PROVE  i = n + 1
    <3>1. n + 1 <= i /\ i \in 1..(n + 1)
      BY <2>1, <2>3
    <3> QED
      BY <1>1, <3>1
  <2>4. LastCall(methods)' = calls'[n + 1]
    <3>1. (CHOOSE i \in CallsOf(methods)' : \A j \in CallsOf(methods)' : j <= i) = n + 1
      BY <2>1, <2>2, <2>3
    <3> QED
      BY <3>1 DEF LastCall
  <2> QED
    BY <1>1, <2>1, <2>2, <2>4 DEF HasLast
<1>3. ASSUME c.method \notin methods
      PROVE  /\ HasLast(methods)'
             /\ CallsOf(methods)' = CallsOf(methods)
             /\ CallsOf(methods) # {} => LastCall(methods)' = LastCall(methods)
  <2>1. CallsOf(methods)' = CallsOf(methods) /\ CallsOf(methods) \subseteq 1..n
    BY <1>1, <1>3 DEF CallsOf
  <2>2. HasLast(methods)'
    BY <2>1 DEF HasLast
  <2>3. ASSUME CallsOf(methods) # {}
        PROVE  LastCall(methods)' = LastCall(methods)
    <3> DEFINE last == CHOOSE i \in CallsOf(methods) : \A j \in CallsOf(methods) : j <= i
    <3>1. last \in CallsOf(methods)
      BY <2>3 DEF HasLast
    <3>2. LastCall(methods) = calls[last]
      BY DEF LastCall
    <3>3. LastCall(methods)' = calls'[last]
      BY <2>1 DEF LastCall
    <3> HIDE DEF last
    <3> QED
      BY <1>1, <2>1, <3>1, <3>2, <3>3
  <2> QED
    BY <2>1, <2>2, <2>3
<1> QED
  BY <1>1, <1>2, <1>3

\* A new runner has been told nothing.
LEMMA VerdictInit == CommandRunnerInit => VerdictInv
<1> SUFFICES ASSUME CommandRunnerInit PROVE VerdictInv
  OBVIOUS
<1>1. calls \in Seq([method : Methods, argument : Arguments]) /\ DOMAIN calls = {}
  BY DEF CommandRunnerInit
<1>2. \A methods : CallsOf(methods) = {}
  BY <1>1 DEF CallsOf
<1> QED
  BY <1>1, <1>2 DEF CommandRunnerInit, VerdictInv, HasLast

\* A call that sets the policy or the exit codes is the last word on them; any
\* other call leaves the last word as it was.
LEMMA VerdictCall ==
    ASSUME VerdictInv, NEW method \in Methods, NEW argument \in Arguments,
           Call(method, argument), failOnOutputTruncation' \in BOOLEAN,
           IF method \in PolicyMethods
           THEN failOnOutputTruncation' = FALSE =>
                    method = "unbounded_output" \/ argument = FALSE
           ELSE failOnOutputTruncation' = failOnOutputTruncation,
           IF method = "success_exit_codes" THEN successExitCodes' = argument
           ELSE successExitCodes' = successExitCodes
    PROVE  VerdictInv'
<1> DEFINE c == [method |-> method, argument |-> argument]
           S == [method : Methods, argument : Arguments]
<1>0. HasLast(PolicyMethods) /\ HasLast({"success_exit_codes"})
  BY DEF VerdictInv
<1>1. c \in S /\ calls \in Seq(S) /\ calls' = Append(calls, c)
      /\ c.method = method /\ c.argument = argument /\ result = None /\ result' = result
  BY DEF Call, VerdictInv
<1> HIDE DEF c, S
<1>2. calls' \in Seq(S)
  BY <1>0, <1>1, LastCallAppended
<1>3. /\ HasLast(PolicyMethods)'
      /\ method \in PolicyMethods =>
             CallsOf(PolicyMethods)' # {} /\ LastCall(PolicyMethods)' = c
      /\ method \notin PolicyMethods =>
             /\ CallsOf(PolicyMethods)' = CallsOf(PolicyMethods)
             /\ CallsOf(PolicyMethods) # {} =>
                    LastCall(PolicyMethods)' = LastCall(PolicyMethods)
  BY <1>0, <1>1, LastCallAppended
<1>4. /\ HasLast({"success_exit_codes"})'
      /\ method = "success_exit_codes" =>
             /\ CallsOf({"success_exit_codes"})' # {}
             /\ LastCall({"success_exit_codes"})' = c
      /\ method # "success_exit_codes" =>
             /\ CallsOf({"success_exit_codes"})' = CallsOf({"success_exit_codes"})
             /\ CallsOf({"success_exit_codes"}) # {} =>
                    LastCall({"success_exit_codes"})' = LastCall({"success_exit_codes"})
  <2>1. method \in {"success_exit_codes"} <=> method = "success_exit_codes"
    OBVIOUS
  <2> QED
    BY <1>0, <1>1, <2>1, LastCallAppended
<1>5. failOnOutputTruncation' = FALSE =>
          /\ CallsOf(PolicyMethods)' # {}
          /\ \/ LastCall(PolicyMethods)'.method = "unbounded_output"
             \/ LastCall(PolicyMethods)'.argument = FALSE
  BY <1>1, <1>3 DEF VerdictInv
<1>6. successExitCodes' = IF CallsOf({"success_exit_codes"})' = {} THEN {0}
                          ELSE LastCall({"success_exit_codes"})'.argument
  BY <1>1, <1>4 DEF VerdictInv
<1> QED
  BY <1>1, <1>2, <1>3, <1>4, <1>5, <1>6 DEF VerdictInv, S

\* Without a call the settings stay those of the last words.
LEMMA VerdictKept ==
    ASSUME VerdictInv, UNCHANGED <<calls, failOnOutputTruncation, successExitCodes>>,
           \/ result' = result
           \/ \E o : result' = [kind |-> Verdict(o), output |-> o]
    PROVE  VerdictInv'
<1>1. \A o : Verdict(o)' = Verdict(o)
  BY DEF Verdict, Truncated
<1>2. \A m : CallsOf(m)' = CallsOf(m)
  BY DEF CallsOf
<1>3. \A m : LastCall(m)' = LastCall(m)
  BY <1>2 DEF LastCall
<1>4. HasLast(PolicyMethods)' /\ HasLast({"success_exit_codes"})'
  BY <1>2 DEF HasLast, VerdictInv
<1>5. failOnOutputTruncation' = FALSE =>
          /\ CallsOf(PolicyMethods)' # {}
          /\ \/ LastCall(PolicyMethods)'.method = "unbounded_output"
             \/ LastCall(PolicyMethods)'.argument = FALSE
  BY <1>2, <1>3 DEF VerdictInv
<1>6. successExitCodes' = IF CallsOf({"success_exit_codes"})' = {} THEN {0}
                          ELSE LastCall({"success_exit_codes"})'.argument
  BY <1>2, <1>3 DEF VerdictInv
<1>7. (result # None => result.kind = Verdict(result.output))'
  <2>1. CASE result' = result
    <3>1. result # None => result.kind = Verdict(result.output)
      BY DEF VerdictInv
    <3>2. Verdict(result.output)' = Verdict(result.output)
      BY <2>1 DEF Verdict, Truncated
    <3> QED
      BY <2>1, <3>1, <3>2
  <2>2. CASE \E o : result' = [kind |-> Verdict(o), output |-> o]
    <3>1. PICK o : result' = [kind |-> Verdict(o), output |-> o]
      BY <2>2
    <3>2. result'.kind = Verdict(o) /\ result'.output = o
      BY <3>1
    <3>3. Verdict(result.output)' = Verdict(o)
      BY <3>2 DEF Verdict, Truncated
    <3> QED
      BY <3>2, <3>3
  <2> QED
    BY <2>1, <2>2
<1>8. calls' \in Seq([method : Methods, argument : Arguments])
  BY DEF VerdictInv
<1>9. failOnOutputTruncation' \in BOOLEAN
  BY DEF VerdictInv
<1> QED
  BY <1>4, <1>5, <1>6, <1>7, <1>8, <1>9 DEF VerdictInv

\* No setter and no run breaks the invariant.
LEMMA VerdictStep ==
    VerdictInv /\ [CommandRunnerNext]_commandRunnerVars => VerdictInv'
<1> SUFFICES ASSUME VerdictInv, [CommandRunnerNext]_commandRunnerVars PROVE VerdictInv'
  OBVIOUS
<1>0. failOnOutputTruncation \in BOOLEAN
  BY DEF VerdictInv
<1>a. /\ {"bounded_output", "unbounded_output", "fail_on_output_truncation"}
             \subseteq PolicyMethods
      /\ PolicyMethods \subseteq Methods \ {"success_exit_codes"}
      /\ {"max_bytes", "success_exit_codes", "total_output_limit"}
             \subseteq Methods \ PolicyMethods
  BY DEF Methods, PolicyMethods
<1>b. /\ BOOLEAN \subseteq Arguments /\ SUBSET OutputStream \subseteq Arguments
      /\ SUBSET ExitCodes \subseteq Arguments
      /\ Caps \cup {None} \subseteq Arguments
  BY DEF Arguments
<1>1. CASE MaxBytes
  <2>1. PICK streams \in SUBSET OutputStream :
            /\ Call("max_bytes", streams)
            /\ UNCHANGED <<failOnOutputTruncation, successExitCodes>>
    BY <1>1 DEF MaxBytes
  <2>2. /\ "max_bytes" \in Methods /\ "max_bytes" \notin PolicyMethods
        /\ streams \in Arguments
    BY <1>a, <1>b
  <2> QED
    BY <1>0, <2>1, <2>2, VerdictCall
<1>2. CASE BoundedOutput
  <2>1. Call("bounded_output", None) /\ failOnOutputTruncation' = TRUE
        /\ UNCHANGED successExitCodes
    BY <1>2 DEF BoundedOutput, BoundedPolicy
  <2>2. /\ "bounded_output" \in Methods /\ "bounded_output" \in PolicyMethods
        /\ None \in Arguments
    BY <1>a, <1>b
  <2> QED
    BY <2>1, <2>2, VerdictCall
<1>3. CASE UnboundedOutput
  <2>1. Call("unbounded_output", None) /\ failOnOutputTruncation' = FALSE
        /\ UNCHANGED successExitCodes
    BY <1>3 DEF UnboundedOutput
  <2>2. /\ "unbounded_output" \in Methods /\ "unbounded_output" \in PolicyMethods
        /\ None \in Arguments
    BY <1>a, <1>b
  <2> QED
    BY <2>1, <2>2, VerdictCall
<1>4. CASE FailOnOutputTruncation
  <2>1. PICK enabled \in BOOLEAN :
            /\ Call("fail_on_output_truncation", enabled)
            /\ failOnOutputTruncation' = enabled
            /\ UNCHANGED successExitCodes
    BY <1>4 DEF FailOnOutputTruncation
  <2>2. /\ "fail_on_output_truncation" \in Methods
        /\ "fail_on_output_truncation" \in PolicyMethods
        /\ enabled \in Arguments
    BY <1>a, <1>b
  <2>3. failOnOutputTruncation' = FALSE => enabled = FALSE
    BY <2>1
  <2>4. failOnOutputTruncation' \in BOOLEAN
    BY <2>1
  <2> QED
    BY <2>1, <2>2, <2>3, <2>4, VerdictCall
<1>5. CASE SuccessExitCodes
  <2>1. PICK codes \in SUBSET ExitCodes :
            /\ Call("success_exit_codes", codes)
            /\ successExitCodes' = codes
            /\ UNCHANGED failOnOutputTruncation
    BY <1>5 DEF SuccessExitCodes
  <2>2. /\ "success_exit_codes" \in Methods /\ "success_exit_codes" \notin PolicyMethods
        /\ codes \in Arguments
    BY <1>a, <1>b
  <2> QED
    BY <1>0, <2>1, <2>2, VerdictCall
<1>6. CASE TotalOutputLimit
  <2>1. PICK limit \in Caps \cup {None} :
            /\ Call("total_output_limit", limit)
            /\ UNCHANGED <<failOnOutputTruncation, successExitCodes>>
    BY <1>6 DEF TotalOutputLimit
  <2>2. /\ "total_output_limit" \in Methods /\ "total_output_limit" \notin PolicyMethods
        /\ limit \in Arguments
    BY <1>a, <1>b
  <2> QED
    BY <1>0, <2>1, <2>2, VerdictCall
<1>7. CASE RunWith
  <2>1. UNCHANGED <<calls, failOnOutputTruncation, successExitCodes>>
    BY <1>7 DEF RunWith, settings
  <2>2. \E o : result' = [kind |-> Verdict(o), output |-> o]
    BY <1>7 DEF RunWith
  <2> QED
    BY <2>1, <2>2, VerdictKept
<1>8. CASE UNCHANGED commandRunnerVars
  BY <1>8, VerdictKept DEF commandRunnerVars, settings
<1> QED
  BY <1>1, <1>2, <1>3, <1>4, <1>5, <1>6, <1>7, <1>8 DEF CommandRunnerNext

\* A run is a success exactly when it exited with a code the caller expected
\* last, and lost output only as the caller's last word on truncation allows,
\* whatever was called before, after and in between.
THEOREM VerdictIsTheCallers == CommandRunnerSpec => []VerdictIsDue
<1>1. VerdictInv => TruncationNeedsConsent
  BY DEF VerdictInv, TruncationNeedsConsent, Verdict
<1>2. VerdictInv => VerdictFollowsExit
  BY DEF VerdictInv, VerdictFollowsExit, Verdict
<1> QED
  BY <1>1, <1>2, VerdictInit, VerdictStep, PTL DEF CommandRunnerSpec, VerdictIsDue

(***************************************************************************)
(* Polling: the intervals.                                                 *)
(***************************************************************************)

\* The five intervals, and the longest from the fifth poll on.
LEMMA IntervalTable ==
    ASSUME NEW n \in Nat
    PROVE  /\ n = 0 => NextPollInterval(n) = 1
           /\ n = 1 => NextPollInterval(n) = 2
           /\ n = 2 => NextPollInterval(n) = 4
           /\ n = 3 => NextPollInterval(n) = 8
           /\ n >= 4 => NextPollInterval(n) = LongestInterval
<1>1. Len(AdaptivePollIntervals) = 5
  BY DEF AdaptivePollIntervals
<1>2. /\ AdaptivePollIntervals[1] = 1 /\ AdaptivePollIntervals[2] = 2
      /\ AdaptivePollIntervals[3] = 4 /\ AdaptivePollIntervals[4] = 8
      /\ AdaptivePollIntervals[5] = 10
  BY DEF AdaptivePollIntervals
<1> QED
  BY <1>1, <1>2 DEF NextPollInterval, Least, LongestInterval

\* An interval is no longer than the longest, and at most doubles from one poll
\* to the next, also where the count of polls saturates.
LEMMA IntervalsAtMostDouble ==
    ASSUME NEW n \in 0..MaxPollCount
    PROVE  /\ NextPollInterval(n) \in 1..LongestInterval
           /\ SaturatingNext(n) \in 0..MaxPollCount
           /\ NextPollInterval(SaturatingNext(n)) <= 2 * NextPollInterval(n)
<1>1. SaturatingNext(n) \in 0..MaxPollCount /\ SaturatingNext(n) \in {n, n + 1}
  BY PolicyAssumption DEF SaturatingNext, Least
<1>2. NextPollInterval(n) \in 1..LongestInterval
  BY IntervalTable, PolicyAssumption DEF LongestInterval
<1>3. NextPollInterval(n + 1) <= 2 * NextPollInterval(n)
  BY IntervalTable, PolicyAssumption DEF LongestInterval
<1> QED
  BY <1>1, <1>2, <1>3

(***************************************************************************)
(* Polling: the inductive invariant.                                       *)
(***************************************************************************)

PolicyType ==
    /\ timeout \in Timeouts \cup {None}
    /\ now \in Nat /\ began \in Nat /\ wakeAt \in Nat /\ sleeps \in Nat
    /\ happened \in [Event -> Nat \cup {None}]
    /\ phase \in {"child", "io"} /\ at \in {"polling", "sleeping", "done"}
    /\ polls \in 0 .. MaxPollCount
    /\ outcome \in Outcome \cup {None}
    /\ at = "done" => outcome # None
    /\ outcome # None => at = "done"

\* Nothing has happened in the future, and a sleeper wakes in time.
ClockIsMonotone ==
    /\ began <= now
    /\ \A e \in Event : Seen(e) => happened[e] <= now
    /\ at = "sleeping" => now <= wakeAt + MaxLate

\* No sleep reaches past the deadline.
DeadlineIsKept ==
    timeout # None =>
        /\ at = "sleeping" => wakeAt <= timeout
        /\ now <= timeout + MaxLate
        /\ outcome = "TimedOut" => now >= timeout

\* The sleep is one interval at most, and began after every event that is still
\* to be noticed: a poll sees all that it is there to see.
SleepIsShort ==
    /\ at = "sleeping" => wakeAt <= now + LongestInterval
    /\ at = "sleeping" =>
          \A e \in Unnoticed : wakeAt <= Since(e) + LongestInterval
    /\ at = "polling" =>
          \A e \in Unnoticed : now <= Since(e) + LongestInterval + MaxLate

\* With a timeout, a sleep is no longer than the phase was when it began, but
\* for the first millisecond; only the sleep before the deadline is shortened.
SleepGrowsWithPhase ==
    timeout # None =>
        /\ at = "polling" =>
              \/ now >= timeout
              \/ NextPollInterval(polls) <= now - began + 1
        /\ at = "sleeping" =>
              \/ wakeAt >= timeout
              \/ NextPollInterval(polls) <= wakeAt - began + 1
        /\ at = "sleeping" => wakeAt <= now + (now - began) + 1
        /\ at = "sleeping" =>
              \A e \in Unnoticed : wakeAt <= began + 2 * (Since(e) - began) + 1
        /\ at = "polling" =>
              \A e \in Unnoticed : now <= began + 2 * (Since(e) - began) + 1 + MaxLate

\* From the fifth sleep of a phase on a sleep has its full length, unless it is
\* the one before the deadline.
SleepsTakeTime ==
    /\ timeout # None => polls = Least(sleeps, MaxPollCount)
    /\ 10 * sleeps <= 50 + (now - began)
    /\ at = "polling" =>
          \/ timeout # None /\ now >= timeout
          \/ 10 * sleeps <= 40 + (now - began)
    /\ at = "sleeping" =>
          \/ timeout # None /\ wakeAt >= timeout
          \/ 10 * sleeps <= 40 + (wakeAt - began)

PolicyInv ==
    /\ PolicyType
    /\ ClockIsMonotone
    /\ DeadlineIsKept
    /\ SleepIsShort
    /\ SleepGrowsWithPhase
    /\ SleepsTakeTime

(***************************************************************************)
(* It is inductive.                                                        *)
(***************************************************************************)

\* A run begins with a poll at time zero.
LEMMA PolicyInvInit == PolicyInit => PolicyInv
<1> SUFFICES ASSUME PolicyInit PROVE PolicyInv
  OBVIOUS
<1> USE PolicyAssumption DEF PolicyInit
<1>1. PolicyType
  BY DEF PolicyType
<1>2. Unnoticed = {}
  BY DEF Unnoticed, Seen
<1>3. ClockIsMonotone /\ DeadlineIsKept /\ SleepIsShort
  BY <1>2 DEF ClockIsMonotone, DeadlineIsKept, SleepIsShort, Seen
<1>4. SleepGrowsWithPhase
  BY <1>2, IntervalTable DEF SleepGrowsWithPhase
<1>5. SleepsTakeTime
  BY DEF SleepsTakeTime, Least
<1> QED
  BY <1>1, <1>3, <1>4, <1>5 DEF PolicyInv

\* The run ends.
LEMMA FinishInv ==
    ASSUME PolicyInv, at = "polling", NEW how \in Outcome, Finish(how),
           how = "TimedOut" => DeadlineReached
    PROVE  PolicyInv'
<1> USE DEF PolicyInv, Finish
<1>1. PolicyType'
  BY PolicyAssumption DEF PolicyType, Outcome
<1>2. ClockIsMonotone' /\ DeadlineIsKept'
  BY DEF ClockIsMonotone, DeadlineIsKept, DeadlineReached, Elapsed, Seen, PolicyType
<1>3. SleepIsShort' /\ SleepGrowsWithPhase' /\ SleepsTakeTime'
  BY DEF SleepIsShort, SleepGrowsWithPhase, SleepsTakeTime
<1> QED
  BY <1>1, <1>2, <1>3

\* The runner sleeps, with nothing to be noticed and the deadline not reached.
LEMMA SleepInv ==
    ASSUME PolicyInv, at = "polling", Sleep, ~DeadlineReached, Unnoticed = {}
    PROVE  PolicyInv'
<1> USE PolicyAssumption DEF PolicyInv, Sleep, Elapsed
<1>0. /\ timeout \in Nat \cup {None} /\ now \in Nat /\ began \in Nat /\ began <= now
      /\ sleeps \in Nat /\ polls \in 0..MaxPollCount
      /\ timeout # None => now < timeout
  BY DEF PolicyType, ClockIsMonotone, DeadlineReached
<1>1. /\ NextPollInterval(polls) \in 1..LongestInterval
      /\ SaturatingNext(polls) \in 0..MaxPollCount
      /\ NextPollInterval(SaturatingNext(polls)) <= 2 * NextPollInterval(polls)
  BY <1>0, IntervalsAtMostDouble
<1>2. /\ SleepLength \in 1..LongestInterval
      /\ timeout # None => SleepLength = Least(timeout - now, NextPollInterval(polls))
      /\ timeout = None => SleepLength = LongestInterval
  BY <1>0, <1>1
     DEF SleepLength, NextSleep, Least, CancellationPollInterval, LongestInterval
<1>3. /\ wakeAt' \in Nat /\ now < wakeAt' /\ wakeAt' <= now + LongestInterval
      /\ timeout # None => wakeAt' <= timeout
      /\ timeout # None => wakeAt' = timeout \/ wakeAt' = now + NextPollInterval(polls)
      /\ timeout # None => wakeAt' <= now + NextPollInterval(polls)
      /\ timeout = None => wakeAt' = now + LongestInterval
  BY <1>0, <1>1, <1>2 DEF Least, LongestInterval
<1>4. Unnoticed' = {}
  BY DEF Unnoticed, Seen
<1>5. PolicyType'
  BY <1>0, <1>1, <1>3 DEF PolicyType
<1>6. ClockIsMonotone' /\ DeadlineIsKept'
  BY <1>0, <1>3 DEF ClockIsMonotone, DeadlineIsKept, Seen, PolicyType
<1>7. SleepIsShort'
  BY <1>3, <1>4 DEF SleepIsShort
<1>8. SleepGrowsWithPhase'
  <2> SUFFICES ASSUME timeout # None PROVE SleepGrowsWithPhase'
    BY DEF SleepGrowsWithPhase
  <2>1. NextPollInterval(polls) <= now - began + 1
    BY <1>0 DEF SleepGrowsWithPhase
  <2>2. wakeAt' <= now + (now - began) + 1
    BY <1>0, <1>1, <1>3, <2>1 DEF LongestInterval
  <2>3. polls' = SaturatingNext(polls) /\ NextPollInterval(polls') \in Nat
    BY <1>1, IntervalsAtMostDouble DEF LongestInterval
  <2>4. wakeAt' >= timeout \/ NextPollInterval(polls') <= wakeAt' - began + 1
    BY <1>0, <1>1, <1>3, <2>1, <2>3 DEF LongestInterval
  <2> QED
    BY <1>4, <2>2, <2>4 DEF SleepGrowsWithPhase
<1>9. SleepsTakeTime'
  <2>1. timeout # None => polls' = Least(sleeps', MaxPollCount)
    BY <1>0 DEF SleepsTakeTime, SaturatingNext, Least
  <2>2. 10 * sleeps <= 40 + (now - began)
    BY <1>0 DEF SleepsTakeTime
  <2>3. \/ timeout # None /\ wakeAt' >= timeout
        \/ 10 * sleeps' <= 40 + (wakeAt' - began)
    <3>1. CASE timeout # None /\ wakeAt' = timeout
      BY <1>0, <3>1
    <3>2. CASE sleeps <= 3
      BY <1>0, <1>3, <3>2
    <3>3. CASE sleeps >= 4 /\ timeout # None /\ wakeAt' # timeout
      <4>1. polls >= 4
        BY <1>0, <3>3 DEF SleepsTakeTime, Least
      <4>2. wakeAt' = now + 10
        BY <1>0, <1>3, <3>3, <4>1, IntervalTable DEF LongestInterval
      <4> QED
        BY <1>0, <2>2, <4>2
    <3>4. CASE timeout = None
      BY <1>0, <1>3, <2>2, <3>4 DEF LongestInterval
    <3> QED
      BY <1>0, <3>1, <3>2, <3>3, <3>4
  <2> QED
    BY <1>0, <2>1, <2>2, <2>3 DEF SleepsTakeTime
<1> QED
  BY <1>5, <1>6, <1>7, <1>8, <1>9

\* The child's exit was seen: the second loop starts with the finest interval.
LEMMA EnterIoPhaseInv ==
    ASSUME PolicyInv, at = "polling", EnterIoPhase
    PROVE  PolicyInv'
<1> USE PolicyAssumption DEF PolicyInv, EnterIoPhase
<1>1. PolicyType'
  BY DEF PolicyType
<1>2. ClockIsMonotone' /\ DeadlineIsKept'
  BY DEF ClockIsMonotone, DeadlineIsKept, Seen, PolicyType
<1>3. \A e \in Unnoticed' : Since(e)' = now
  BY DEF Unnoticed, Since, Seen, ClockIsMonotone, PolicyType
<1>4. SleepIsShort'
  BY <1>3 DEF SleepIsShort, PolicyType, LongestInterval
<1>5. SleepGrowsWithPhase'
  BY <1>3, IntervalTable DEF SleepGrowsWithPhase, PolicyType
<1>6. SleepsTakeTime'
  BY DEF SleepsTakeTime, PolicyType, Least
<1> QED
  BY <1>1, <1>2, <1>4, <1>5, <1>6

\* One round of either loop.
LEMMA PollInv ==
    ASSUME PolicyInv, PollChild \/ PollHelpers
    PROVE  PolicyInv'
<1>1. ASSUME CheckCancellationAndWait, at = "polling",
             ~Seen("Cancelled") => Unnoticed = {}
      PROVE  PolicyInv'
  BY <1>1, FinishInv, SleepInv DEF CheckCancellationAndWait, Outcome
<1>2. CASE PollChild
  <2>1. CASE Seen("Exceeded") \/ Seen("Exited")
    BY <1>2, <2>1, FinishInv, EnterIoPhaseInv DEF PollChild, Outcome
  <2>2. CASE ~Seen("Exceeded") /\ ~Seen("Exited")
    <3>1. ~Seen("Cancelled") => Unnoticed = {}
      BY <1>2, <2>2 DEF PollChild, Unnoticed, Event
    <3> QED
      BY <1>1, <1>2, <2>2, <3>1 DEF PollChild
  <2> QED
    BY <2>1, <2>2
<1>3. CASE PollHelpers
  <2>1. CASE Seen("Exceeded") \/ Seen("HelpersFinished")
    BY <1>3, <2>1, FinishInv DEF PollHelpers, Outcome
  <2>2. CASE ~Seen("Exceeded") /\ ~Seen("HelpersFinished")
    <3>1. ~Seen("Cancelled") => Unnoticed = {}
      BY <1>3, <2>2 DEF PollHelpers, Unnoticed, Event
    <3> QED
      BY <1>1, <1>3, <2>2, <3>1 DEF PollHelpers
  <2> QED
    BY <2>1, <2>2
<1> QED
  BY <1>2, <1>3

\* The sleeper returns.
LEMMA WakeInv ==
    ASSUME PolicyInv, Wake
    PROVE  PolicyInv'
<1> USE PolicyAssumption DEF PolicyInv, Wake
<1>1. PolicyType' /\ ClockIsMonotone' /\ DeadlineIsKept'
  BY DEF PolicyType, ClockIsMonotone, DeadlineIsKept, Seen
<1>2. /\ Unnoticed' = Unnoticed
      /\ \A e \in Unnoticed : Since(e)' = Since(e) /\ Since(e) \in Nat
  BY DEF Unnoticed, Since, Seen, PolicyType
<1>3. SleepIsShort'
  BY <1>2 DEF SleepIsShort, ClockIsMonotone, PolicyType, LongestInterval
<1>4. SleepGrowsWithPhase'
  <2>1. NextPollInterval(polls) \in Nat
    BY IntervalsAtMostDouble DEF PolicyType, LongestInterval
  <2> QED
    BY <1>2, <2>1 DEF SleepGrowsWithPhase, ClockIsMonotone, PolicyType
<1>5. SleepsTakeTime'
  BY DEF SleepsTakeTime, PolicyType
<1> QED
  BY <1>1, <1>3, <1>4, <1>5

\* Time passes.
LEMMA TickInv ==
    ASSUME PolicyInv, Tick
    PROVE  PolicyInv'
<1> USE PolicyAssumption DEF PolicyInv, Tick
<1>1. PolicyType' /\ ClockIsMonotone' /\ DeadlineIsKept'
  BY DEF PolicyType, ClockIsMonotone, DeadlineIsKept, Seen
<1>2. /\ Unnoticed' = Unnoticed
      /\ \A e \in Unnoticed : Since(e)' = Since(e)
  BY DEF Unnoticed, Since, Seen
<1>3. SleepIsShort'
  BY <1>2 DEF SleepIsShort, PolicyType, LongestInterval
<1>4. SleepGrowsWithPhase'
  BY <1>2 DEF SleepGrowsWithPhase, PolicyType
<1>5. SleepsTakeTime'
  BY DEF SleepsTakeTime, PolicyType
<1> QED
  BY <1>1, <1>3, <1>4, <1>5

\* Something happens.
LEMMA HappenInv ==
    ASSUME PolicyInv, Happen
    PROVE  PolicyInv'
<1> USE PolicyAssumption DEF PolicyInv, Happen
<1>0. PICK e \in Event : ~Seen(e) /\ happened' = [happened EXCEPT ![e] = now]
  OBVIOUS
<1> USE <1>0
<1>1. PolicyType' /\ ClockIsMonotone' /\ DeadlineIsKept'
  BY DEF PolicyType, ClockIsMonotone, DeadlineIsKept, Seen
<1>2. \A x \in Unnoticed' : (x \in Unnoticed /\ Since(x)' = Since(x)) \/ Since(x)' = now
  BY DEF Unnoticed, Since, Seen, PolicyType, ClockIsMonotone
<1>3. SleepIsShort'
  BY <1>2 DEF SleepIsShort, PolicyType, LongestInterval
<1>4. SleepGrowsWithPhase'
  BY <1>2 DEF SleepGrowsWithPhase, PolicyType, ClockIsMonotone
<1>5. SleepsTakeTime'
  BY DEF SleepsTakeTime, PolicyType
<1> QED
  BY <1>1, <1>3, <1>4, <1>5

\* No poll, sleep or event breaks the invariant.
LEMMA PolicyInvStep == PolicyInv /\ [PolicyNext]_policyVars => PolicyInv'
<1> SUFFICES ASSUME PolicyInv, [PolicyNext]_policyVars PROVE PolicyInv'
  OBVIOUS
<1>1. CASE UNCHANGED policyVars
  BY <1>1 DEF policyVars, PolicyInv, PolicyType, ClockIsMonotone, DeadlineIsKept,
       SleepIsShort, SleepGrowsWithPhase, SleepsTakeTime, Unnoticed, Since, Seen
<1> QED
  BY <1>1, PollInv, WakeInv, TickInv, HappenInv DEF PolicyNext

\* The invariant of the polling loops.
LEMMA PolicyInvAlways == PolicySpec => []PolicyInv
  BY PolicyInvInit, PolicyInvStep, PTL DEF PolicySpec

(***************************************************************************)
(* The theorems.                                                           *)
(***************************************************************************)

\* Every variable keeps its type.
THEOREM PolicyTypeCorrect == PolicySpec => []PolicyTypeOK
<1>1. PolicyInv => PolicyTypeOK
  BY DEF PolicyInv, PolicyType, PolicyTypeOK
<1> QED
  BY <1>1, PolicyInvAlways, PTL

\* No run is timed out early or outstays its timeout by more than the sleeper is
\* late: one deadline for both loops, and no sleep across it (next_sleep).
THEOREM TimeoutsArePrompt == PolicySpec => []TimeoutIsPrompt
<1>1. PolicyInv => TimeoutIsPrompt
  BY DEF PolicyInv, DeadlineIsKept, TimeoutIsPrompt
<1> QED
  BY <1>1, PolicyInvAlways, PTL

\* An event is noticed within the longest interval and, early in a phase, within
\* a time of the order of the phase's age; and the runner does not spin
\* (ADAPTIVE_POLL_INTERVALS, next_poll_interval).
THEOREM PollingKeepsPace == PolicySpec => []PollingPace
<1>1. PolicyInv => PollingPace
  <2> SUFFICES ASSUME PolicyInv PROVE PollingPace
    OBVIOUS
  <2> USE PolicyAssumption DEF PolicyInv, PolicyType
  <2>1. \A e \in Unnoticed : Since(e) \in Nat
    BY DEF Unnoticed, Since, Seen
  <2>2. NoticedWithinInterval
    BY <2>1 DEF NoticedWithinInterval, SleepIsShort, ClockIsMonotone, LongestInterval
  <2>3. ShortWaitsStayShort
    BY <2>1 DEF ShortWaitsStayShort, SleepGrowsWithPhase, ClockIsMonotone
  <2>4. WakesAreFew
    <3>1. now - began \in Nat /\ 10 * sleeps <= 50 + (now - began)
      BY DEF SleepsTakeTime, ClockIsMonotone
    <3> QED
      BY <3>1 DEF WakesAreFew, LongestInterval
  <2> QED
    BY <2>2, <2>3, <2>4 DEF PollingPace
<1> QED
  BY <1>1, PolicyInvAlways, PTL
=============================================================================
