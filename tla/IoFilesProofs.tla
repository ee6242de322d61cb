--------------------------- MODULE IoFilesProofs ---------------------------
(***************************************************************************)
(* Theorems about IoFiles, for every set of paths and files, every number  *)
(* of changes that other programs make and every number of failing calls:  *)
(* the input is never truncated, what is handed out is safe to use, a      *)
(* refused run truncates nothing, and aliases are refused early.           *)
(***************************************************************************)
EXTENDS IoFiles, FiniteSetTheorems, TLAPS

(***************************************************************************)
(* The inductive invariant.                                                *)
(***************************************************************************)

\* The steps of commit that open one output after the other.
Opening == {"statOutput", "lstatOutput", "openOutput", "validateOutput"}

\* Both outputs are open, and were checked.
Opened == {"identify", "truncate", "attach", "ready"}

\* The stream whose turn it is is one that the step is about.
StreamInTurn ==
    /\ ipc \in {"entry", "statInput", "openInput", "validateInput"} => stream = "stdin"
    /\ ipc \in {"compare", "lastCheck", "identify"} => stream = "stdout"
    /\ ipc \in {"statTarget", "lstatTarget", "truncate"} \cup Opening => stream \in Output
    /\ ipc \in {"openInput", "validateInput"} => path["stdin"] # None
    /\ ipc \in {"lstatTarget", "lstatOutput", "openOutput", "validateOutput"} =>
          path[stream] # None
    /\ error # None <=> ipc \in {"failed", "cancelled"}

\* Not opened yet, or opened by now as far as it is configured, regular and
\* blocking.
Unopened(s) == handle[s] = None /\ s \notin nonblock

Settled(s) ==
    /\ handle[s] \notin Special
    /\ s \notin nonblock
    /\ path[s] # None => handle[s] # None

\* The first output is not opened yet; the first one is, and not the second.
BeforeOutputs == ipc \in Opening \ {"validateOutput"} /\ stream = "stdout"

BetweenOutputs == ipc \in Opening /\ stream = "stderr"

\* A stream is opened in its turn, and is settled before the next one has its.
OpenedInOrder ==
    /\ \A s \in Stream : handle[s] # None => path[s] # None
    /\ ipc \in {"entry", "statInput", "openInput"} => Unopened("stdin")
    /\ ipc \in (Preparing \ {"entry", "statInput", "openInput", "validateInput"})
               \cup Committing \cup {"ready"} => Settled("stdin")
    /\ ipc = "validateInput" => handle["stdin"] # None
    /\ ipc = "validateOutput" => handle[stream] # None
    /\ ipc \in Preparing \/ BeforeOutputs => Unopened("stdout")
    /\ ipc \in Opened \/ BetweenOutputs => Settled("stdout")
    /\ ipc \in Preparing \cup (Opening \ {"validateOutput"})
       \/ (ipc = "validateOutput" /\ stream = "stdout") => Unopened("stderr")
    /\ ipc \in Opened => Settled("stderr")

\* The open files are different ones, and the outputs regular.
FilesDiffer ==
    /\ \A s \in Output : ~Clash(handle, "stdin", s) /\ handle[s] \notin Special
    /\ ~Clash(handle, "stdout", "stderr")

\* Outputs are truncated in order, after their handles were compared; a failing
\* truncation is the only failure that finds one truncated.
TruncatedInOrder ==
    /\ created \subseteq {handle["stdout"], handle["stderr"]}
    /\ truncated \subseteq {handle["stdout"], handle["stderr"]} \ {None}
    /\ truncated # {} => ipc \in {"truncate", "attach", "ready", "failed"}
    /\ ipc = "truncate" =>
          truncated = IF stream = "stdout" THEN {} ELSE {handle["stdout"]} \ {None}
    /\ ipc \in {"truncate", "attach", "ready"} \/ truncated # {} => FilesDiffer
    /\ ipc = "failed" /\ truncated # {} =>
          /\ error \in {"OpenOutputFailed", "InspectIoFileFailed"}
          /\ truncated = {handle["stdout"]}
          /\ handle["stdout"] # None /\ handle["stderr"] # None

FilesInv ==
    /\ IoTypeOK
    /\ StreamInTurn
    /\ OpenedInOrder
    /\ TruncatedInOrder

(***************************************************************************)
(* Aliases: what holds as long as no other program changes the links.      *)
(***************************************************************************)

\* Two streams whose paths lead to one place.
Aliased ==
    \E s, t \in Stream :
        /\ s # t /\ path[s] # None /\ path[t] # None
        /\ link[path[s]] = link[path[t]]

\* The normalized paths, as far as they are known, are different.
PathsDiffer ==
    \A s, t \in Stream :
        s # t /\ path[s] # None /\ path[t] # None =>
            \/ Canonical(path[s]) # Canonical(path[t])
            \/ Canonical(path[s]) = "indeterminate"

\* An output that prepare let pass exists, or its name is no link.
Accepted(s) ==
    path[s] # None => Lookup(path[s]) \in File \/ link[path[s]] = path[s]

\* The streams that are normalized by now.
NormalizedStreams ==
    IF ipc # "normalize" THEN Stream
    ELSE IF stream = "stdin" THEN {}
    ELSE IF stream = "stdout" THEN {"stdin"} ELSE {"stdin", "stdout"}

\* What was found of the paths is still so, and no alias gets past the opening
\* of stdout.
AliasesStopped ==
    /\ path["stdin"] # None /\ ipc \notin {"entry", "statInput", "openInput"} \cup Ended =>
          Lookup(path["stdin"]) \in File
    /\ ipc \in {"normalize", "compare"} =>
          \A s \in NormalizedStreams :
              path[s] # None => canonical[s] = Canonical(path[s])
    /\ ipc \in {"statTarget", "lstatTarget", "lastCheck"} \/ BeforeOutputs => PathsDiffer
    /\ ipc \in {"statTarget", "lstatTarget"} /\ stream = "stderr" => Accepted("stdout")
    /\ ipc = "lastCheck" \/ BeforeOutputs => Accepted("stdout") /\ Accepted("stderr")
    /\ ipc \in Opened \cup {"validateOutput"} \/ BetweenOutputs => ~Aliased
    /\ created # {} \/ truncated # {} => ~Aliased

AliasInv == relinks = 0 => AliasesStopped

(***************************************************************************)
(* FilesInv is inductive.                                                  *)
(***************************************************************************)

\* Nothing is open and nothing was created.
LEMMA FilesInvInit == IoInit => FilesInv
<1> SUFFICES ASSUME IoInit PROVE FilesInv
  OBVIOUS
<1> USE IoFilesAssumption, ReasonAssumption DEF IoInit, Stream, Output
<1>1. IoTypeOK
  <2>1. handle \in [Stream -> File \cup {None}]
    OBVIOUS
  <2>2. canonical \in [Stream -> Path \cup {None, "indeterminate"}]
    OBVIOUS
  <2>3. requested \in BOOLEAN /\ nonblock \subseteq Stream
    OBVIOUS
  <2>4. inode \in [Path -> File \cup {"absent", "orphan"}]
    BY DEF File
  <2> QED
    BY <2>1, <2>2, <2>3, <2>4 DEF IoTypeOK, Preparing
<1>2. StreamInTurn
  BY DEF StreamInTurn, Opening
<1>3. OpenedInOrder
  BY DEF OpenedInOrder, Unopened, Opening, Opened, BeforeOutputs,
         BetweenOutputs, Preparing, Committing
<1>4. TruncatedInOrder
  BY DEF TruncatedInOrder, FilesDiffer
<1> QED
  BY <1>1, <1>2, <1>3, <1>4 DEF FilesInv

\* A stream without a path needs no opening.
LEMMA NothingToSettle ==
    ASSUME NEW s, Unopened(s), path[s] = None
    PROVE  Settled(s)
  BY IoFilesAssumption DEF Unopened, Settled

\* What does not change a handle, a flag or a path settles and opens nothing.
LEMMA HandlesStay ==
    ASSUME UNCHANGED <<path, handle, nonblock>>, NEW s
    PROVE  (Unopened(s)' <=> Unopened(s)) /\ (Settled(s)' <=> Settled(s))
  BY DEF Unopened, Settled

\* A path is bound to a file or to nothing; None is neither.
LEMMA LookupType ==
    ASSUME IoTypeOK, NEW s \in Stream, path[s] # None
    PROVE  /\ path[s] \in Path
           /\ Lookup(path[s]) \in File \cup {"absent", "orphan"}
           /\ Lookup(path[s]) # None
  BY IoFilesAssumption DEF IoTypeOK, Lookup, File

\* The first look at the cancellation.
LEMMA EnterInv ==
    ASSUME FilesInv, Enter
    PROVE  FilesInv'
<1> USE IoFilesAssumption, ReasonAssumption
    DEF FilesInv, Enter, CheckCancellation, GoTo, Refuse, Fault, NoFault, KeepFiles,
        environment,
        Stream, Output, Preparing, Committing, Ended, Opening, Opened,
        BeforeOutputs, BetweenOutputs, Reasons
<1>1. IoTypeOK'
  BY DEF IoTypeOK
<1>2. StreamInTurn'
  BY DEF StreamInTurn, IoTypeOK
<1>3. OpenedInOrder'
  BY HandlesStay DEF OpenedInOrder, StreamInTurn
<1>4. TruncatedInOrder'
  BY DEF TruncatedInOrder, FilesDiffer, StreamInTurn, OpenedInOrder, Unopened, Settled,
         Clash, IoTypeOK
<1> QED
  BY <1>1, <1>2, <1>3, <1>4

\* The stat of the input.
LEMMA StatInputInv ==
    ASSUME FilesInv, StatInput
    PROVE  FilesInv'
<1> USE IoFilesAssumption, ReasonAssumption
    DEF FilesInv, StatInput, GoTo, Refuse, Fault, NoFault, KeepFiles, environment,
        Stream, Output, Preparing, Committing, Ended, Opening, Opened,
        BeforeOutputs, BetweenOutputs, Reasons
<1>1. IoTypeOK'
  BY DEF IoTypeOK
<1>2. StreamInTurn'
  BY DEF StreamInTurn, IoTypeOK
<1>3. OpenedInOrder'
  <2>1. \A s \in Stream : (Unopened(s)' <=> Unopened(s)) /\ (Settled(s)' <=> Settled(s))
    BY HandlesStay
  <2>2. ipc' = "normalize" => Settled("stdin")'
    <3>1. ipc' = "normalize" => path["stdin"] = None
      BY LookupType, IoFilesAssumption DEF File
    <3> QED
      BY <2>1, <3>1, NothingToSettle DEF OpenedInOrder
  <2>3. ipc' \in {"openInput", "normalize", "failed"}
    OBVIOUS
  <2> QED
    BY <2>1, <2>2, <2>3 DEF OpenedInOrder
<1>4. TruncatedInOrder'
  BY DEF TruncatedInOrder, FilesDiffer, StreamInTurn, OpenedInOrder, Unopened, Settled,
         Clash, IoTypeOK
<1> QED
  BY <1>1, <1>2, <1>3, <1>4

\* The open of the input, which ends in the O_NONBLOCK state.
LEMMA OpenInputInv ==
    ASSUME FilesInv, OpenInput
    PROVE  FilesInv'
<1> USE IoFilesAssumption, ReasonAssumption
    DEF FilesInv, OpenInput, Open, Lookup, GoTo, Refuse, Fault, NoFault, KeepFiles,
        environment,
        Stream, Output, Preparing, Committing, Ended, Opening, Opened,
        BeforeOutputs, BetweenOutputs, Reasons
<1>1. IoTypeOK'
  <2>1. nonblock' \subseteq Stream
    BY DEF IoTypeOK
  <2>2. handle' \in [Stream -> File \cup {None}]
    BY DEF IoTypeOK
  <2> QED
    BY <2>1, <2>2 DEF IoTypeOK
<1>2. StreamInTurn'
  BY DEF StreamInTurn, IoTypeOK
<1>3. OpenedInOrder'
  <2>1. \A s \in Output : (Unopened(s)' <=> Unopened(s)) /\ (Settled(s)' <=> Settled(s))
    BY DEF Unopened, Settled, IoTypeOK
  <2>2. \A s \in Stream : handle'[s] # None => path[s] # None
    BY DEF OpenedInOrder, StreamInTurn, IoTypeOK
  <2>3. ipc' = "validateInput" => handle'["stdin"] # None
    BY DEF IoTypeOK, File
  <2> QED
    BY <2>1, <2>2, <2>3 DEF OpenedInOrder
<1>4. TruncatedInOrder'
  BY DEF TruncatedInOrder, FilesDiffer, StreamInTurn, OpenedInOrder, Unopened, Settled,
         Clash, IoTypeOK
<1> QED
  BY <1>1, <1>2, <1>3, <1>4

\* The handle is checked, and blocks again.
LEMMA ValidateInputInv ==
    ASSUME FilesInv, ValidateInput
    PROVE  FilesInv'
<1> USE IoFilesAssumption, ReasonAssumption
    DEF FilesInv, ValidateInput, ClearNonblocking, IsRegularHandle, GoTo, Refuse, Fault,
        NoFault, KeepFiles, environment,
        Stream, Output, Preparing, Committing, Ended, Opening, Opened,
        BeforeOutputs, BetweenOutputs, Reasons
<1>1. IoTypeOK'
  <2>1. nonblock' \subseteq Stream
    BY DEF IoTypeOK
  <2> QED
    BY <2>1 DEF IoTypeOK
<1>2. StreamInTurn'
  BY DEF StreamInTurn, IoTypeOK
<1>3. OpenedInOrder'
  <2>1. \A s \in Output : (Unopened(s)' <=> Unopened(s)) /\ (Settled(s)' <=> Settled(s))
    BY DEF Unopened, Settled
  <2>2. ipc' = "normalize" => Settled("stdin")'
    BY DEF Settled, OpenedInOrder
  <2> QED
    BY <2>1, <2>2 DEF OpenedInOrder
<1>4. TruncatedInOrder'
  BY DEF TruncatedInOrder, FilesDiffer, StreamInTurn, OpenedInOrder, Unopened, Settled,
         Clash, IoTypeOK
<1> QED
  BY <1>1, <1>2, <1>3, <1>4

\* The paths are normalized one after the other.
LEMMA NormalizeInv ==
    ASSUME FilesInv, Normalize
    PROVE  FilesInv'
<1> USE IoFilesAssumption, ReasonAssumption
    DEF FilesInv, Normalize, Advance, Canonical, Lookup, GoTo, Refuse, Fault, NoFault,
        KeepFiles, environment,
        Stream, Output, Preparing, Committing, Ended, Opening, Opened,
        BeforeOutputs, BetweenOutputs, Reasons
<1>1. IoTypeOK'
  BY DEF IoTypeOK
<1>2. StreamInTurn'
  BY DEF StreamInTurn, IoTypeOK
<1>3. OpenedInOrder'
  BY HandlesStay DEF OpenedInOrder, StreamInTurn
<1>4. TruncatedInOrder'
  BY DEF TruncatedInOrder, FilesDiffer, StreamInTurn, OpenedInOrder, Unopened, Settled,
         Clash, IoTypeOK
<1> QED
  BY <1>1, <1>2, <1>3, <1>4

\* The normalized paths are compared.
LEMMA CompareNormalizedInv ==
    ASSUME FilesInv, CompareNormalized
    PROVE  FilesInv'
<1> USE IoFilesAssumption, ReasonAssumption
    DEF FilesInv, CompareNormalized, RefuseClash, GoTo, Refuse, Fault, NoFault, KeepFiles,
        environment,
        Stream, Output, Preparing, Committing, Ended, Opening, Opened,
        BeforeOutputs, BetweenOutputs, Reasons
<1>1. IoTypeOK'
  BY DEF IoTypeOK
<1>2. StreamInTurn'
  BY DEF StreamInTurn, IoTypeOK
<1>3. OpenedInOrder'
  BY HandlesStay DEF OpenedInOrder, StreamInTurn
<1>4. TruncatedInOrder'
  BY DEF TruncatedInOrder, FilesDiffer, StreamInTurn, OpenedInOrder, Unopened, Settled,
         Clash, IoTypeOK
<1> QED
  BY <1>1, <1>2, <1>3, <1>4

\* The stat of an output, in prepare or in commit.
LEMMA StatOutputInv ==
    ASSUME FilesInv, StatOutput
    PROVE  FilesInv'
<1> USE IoFilesAssumption, ReasonAssumption
    DEF FilesInv, Stream, Output, Preparing, Committing, Ended, Opening, Opened,
        BeforeOutputs, BetweenOutputs, Reasons
<1>1. IoTypeOK'
  BY DEF StatOutput, TargetAccepted, GoTo, Refuse, Fault, NoFault, KeepFiles, environment,
         IoTypeOK
<1>0. /\ UNCHANGED <<path, handle>>
      /\ \A s \in Stream : (Unopened(s)' <=> Unopened(s)) /\ (Settled(s)' <=> Settled(s))
  BY HandlesStay DEF StatOutput
<1>2. stream \in Output /\ ipc \in {"statTarget", "statOutput"}
  BY DEF StatOutput, StreamInTurn
<1>3. ASSUME ipc = "statTarget"
      PROVE  StreamInTurn' /\ OpenedInOrder'
  <2>1. ipc' \in {"statTarget", "lstatTarget", "lastCheck", "failed"}
    BY <1>3 DEF StatOutput, TargetAccepted, GoTo, Refuse, Fault, NoFault, KeepFiles,
                environment
  <2>2. StreamInTurn'
    BY <1>3 DEF StreamInTurn, IoTypeOK,
        StatOutput, TargetAccepted, GoTo, Refuse, Fault, NoFault, KeepFiles, environment
  <2>3. OpenedInOrder'
    BY <1>0, <1>3, <2>1 DEF OpenedInOrder
  <2> QED
    BY <2>2, <2>3
<1>4. ASSUME ipc = "statOutput" /\ path[stream] = None
      PROVE  StreamInTurn' /\ OpenedInOrder'
  <2>1. /\ \/ stream = "stdout" /\ stream' = "stderr" /\ ipc' = "statOutput"
           \/ stream = "stderr" /\ stream' = "stdout" /\ ipc' = "identify"
        /\ error' = error
    BY <1>2, <1>4 DEF File, StatOutput, TargetAccepted, GoTo, Refuse, Fault, NoFault,
                      KeepFiles, environment
  <2>2. \A s \in Stream : s = stream => Settled(s)
    BY <1>4, <2>1, NothingToSettle DEF OpenedInOrder
  <2>3. StreamInTurn'
    BY <1>4, <2>1 DEF StreamInTurn
  <2>4. OpenedInOrder'
    BY <1>0, <1>4, <2>1, <2>2 DEF OpenedInOrder
  <2> QED
    BY <2>3, <2>4
<1>5. ASSUME ipc = "statOutput" /\ path[stream] # None
      PROVE  StreamInTurn' /\ OpenedInOrder'
  <2>1. /\ stream' = stream
        /\ \/ ipc' \in {"lstatOutput", "openOutput"} /\ error' = error
           \/ ipc' = "failed" /\ error' \in Reasons
    BY <1>2, <1>5, LookupType DEF File, StatOutput, TargetAccepted, GoTo, Refuse, Fault,
                                  NoFault, KeepFiles, environment
  <2>2. StreamInTurn'
    BY <1>0, <1>2, <1>5, <2>1 DEF StreamInTurn
  <2>3. OpenedInOrder'
    BY <1>0, <1>5, <2>1 DEF OpenedInOrder
  <2> QED
    BY <2>2, <2>3
<1>6. TruncatedInOrder'
  BY DEF StatOutput, TargetAccepted, GoTo, Refuse, Fault, NoFault, KeepFiles, environment,
         TruncatedInOrder, FilesDiffer, StreamInTurn, OpenedInOrder, Unopened, Settled,
         Clash, IoTypeOK
<1> QED
  BY <1>1, <1>2, <1>3, <1>4, <1>5, <1>6

\* The lstat that follows it.
LEMMA LstatOutputInv ==
    ASSUME FilesInv, LstatOutput
    PROVE  FilesInv'
<1> USE IoFilesAssumption, ReasonAssumption
    DEF FilesInv, LstatOutput, TargetAccepted, GoTo, Refuse, Fault, NoFault, KeepFiles,
        environment,
        Stream, Output, Preparing, Committing, Ended, Opening, Opened,
        BeforeOutputs, BetweenOutputs, Reasons
<1>1. IoTypeOK'
  BY DEF IoTypeOK
<1>2. StreamInTurn'
  BY DEF StreamInTurn, IoTypeOK
<1>3. OpenedInOrder'
  BY HandlesStay DEF OpenedInOrder, StreamInTurn
<1>4. TruncatedInOrder'
  BY DEF TruncatedInOrder, FilesDiffer, StreamInTurn, OpenedInOrder, Unopened, Settled,
         Clash, IoTypeOK
<1> QED
  BY <1>1, <1>2, <1>3, <1>4

\* The last look at the cancellation.
LEMMA LastCheckInv ==
    ASSUME FilesInv, LastCheck
    PROVE  FilesInv'
<1> USE IoFilesAssumption, ReasonAssumption
    DEF FilesInv, LastCheck, CheckAgain, CheckCancellation, GoTo, Refuse, Fault, NoFault,
        KeepFiles, environment,
        Stream, Output, Preparing, Committing, Ended, Opening, Opened,
        BeforeOutputs, BetweenOutputs, Reasons
<1>1. IoTypeOK'
  BY DEF IoTypeOK
<1>2. StreamInTurn'
  BY DEF StreamInTurn, IoTypeOK
<1>3. OpenedInOrder'
  BY HandlesStay DEF OpenedInOrder, StreamInTurn
<1>4. TruncatedInOrder'
  BY DEF TruncatedInOrder, FilesDiffer, StreamInTurn, OpenedInOrder, Unopened, Settled,
         Clash, IoTypeOK
<1> QED
  BY <1>1, <1>2, <1>3, <1>4

\* The handle of an output is checked, and blocks again.
LEMMA ValidateOutputInv ==
    ASSUME FilesInv, ValidateOutput
    PROVE  FilesInv'
<1> USE IoFilesAssumption, ReasonAssumption
    DEF FilesInv, ValidateOutput, ClearNonblocking, IsRegularHandle, GoTo, Refuse, Fault,
        NoFault, KeepFiles, environment,
        Stream, Output, Preparing, Committing, Ended, Opening, Opened,
        BeforeOutputs, BetweenOutputs, Reasons
<1>1. IoTypeOK'
  <2>1. nonblock' \subseteq Stream
    BY DEF IoTypeOK
  <2> QED
    BY <2>1 DEF IoTypeOK
<1>2. StreamInTurn'
  BY DEF StreamInTurn, IoTypeOK
<1>3. OpenedInOrder'
  <2>1. \A s \in Stream \ {stream} :
            (Unopened(s)' <=> Unopened(s)) /\ (Settled(s)' <=> Settled(s))
    BY DEF Unopened, Settled
  <2>2. \A s \in Stream : s = stream /\ ipc' # "failed" => Settled(s)'
    BY DEF Settled, OpenedInOrder
  <2> QED
    BY <2>1, <2>2 DEF OpenedInOrder, StreamInTurn
<1>4. TruncatedInOrder'
  BY DEF TruncatedInOrder, FilesDiffer, StreamInTurn, OpenedInOrder, Unopened, Settled,
         Clash, IoTypeOK
<1> QED
  BY <1>1, <1>2, <1>3, <1>4

\* The open handles are compared.
LEMMA IdentifyInv ==
    ASSUME FilesInv, Identify
    PROVE  FilesInv'
<1> USE IoFilesAssumption, ReasonAssumption
    DEF FilesInv, Identify, RefuseClash, GoTo, Refuse, Fault, NoFault, KeepFiles,
        environment,
        Stream, Output, Preparing, Committing, Ended, Opening, Opened,
        BeforeOutputs, BetweenOutputs, Reasons
<1>1. IoTypeOK'
  BY DEF IoTypeOK
<1>2. StreamInTurn'
  BY DEF StreamInTurn, IoTypeOK
<1>3. OpenedInOrder'
  BY HandlesStay DEF OpenedInOrder, StreamInTurn
<1>4. TruncatedInOrder'
  BY DEF TruncatedInOrder, FilesDiffer, StreamInTurn, OpenedInOrder, Unopened, Settled,
         Clash, IoTypeOK
<1> QED
  BY <1>1, <1>2, <1>3, <1>4

\* An output is truncated.
LEMMA TruncateInv ==
    ASSUME FilesInv, TruncateOutput
    PROVE  FilesInv'
<1> USE IoFilesAssumption, ReasonAssumption
    DEF FilesInv, TruncateOutput, Advance, GoTo, Refuse, Fault, NoFault, KeepFiles,
        environment,
        Stream, Output, Preparing, Committing, Ended, Opening, Opened,
        BeforeOutputs, BetweenOutputs, Reasons
<1>1. IoTypeOK'
  BY DEF IoTypeOK
<1>2. StreamInTurn'
  BY DEF StreamInTurn, IoTypeOK
<1>3. OpenedInOrder'
  BY HandlesStay DEF OpenedInOrder, StreamInTurn
<1>4. TruncatedInOrder'
  BY DEF TruncatedInOrder, FilesDiffer, StreamInTurn, OpenedInOrder, Unopened, Settled,
         Clash, IoTypeOK
<1> QED
  BY <1>1, <1>2, <1>3, <1>4

\* The handles are given away.
LEMMA AttachInv ==
    ASSUME FilesInv, Attach
    PROVE  FilesInv'
<1> USE IoFilesAssumption, ReasonAssumption
    DEF FilesInv, Attach, GoTo, Refuse, Fault, NoFault, KeepFiles, environment,
        Stream, Output, Preparing, Committing, Ended, Opening, Opened,
        BeforeOutputs, BetweenOutputs, Reasons
<1>1. IoTypeOK'
  BY DEF IoTypeOK
<1>2. StreamInTurn'
  BY DEF StreamInTurn, IoTypeOK
<1>3. OpenedInOrder'
  BY HandlesStay DEF OpenedInOrder, StreamInTurn
<1>4. TruncatedInOrder'
  BY DEF TruncatedInOrder, FilesDiffer, StreamInTurn, OpenedInOrder, Unopened, Settled,
         Clash, IoTypeOK
<1> QED
  BY <1>1, <1>2, <1>3, <1>4

\* The caller cancels.
LEMMA RequestInv ==
    ASSUME FilesInv, RequestCancellation
    PROVE  FilesInv'
<1> USE IoFilesAssumption, ReasonAssumption
    DEF FilesInv, RequestCancellation, GoTo, Refuse, Fault, NoFault, KeepFiles, environment,
        Stream, Output, Preparing, Committing, Ended, Opening, Opened,
        BeforeOutputs, BetweenOutputs, Reasons
<1>1. IoTypeOK'
  BY DEF IoTypeOK
<1>2. StreamInTurn'
  BY DEF StreamInTurn, IoTypeOK
<1>3. OpenedInOrder'
  BY HandlesStay DEF OpenedInOrder, StreamInTurn
<1>4. TruncatedInOrder'
  BY DEF TruncatedInOrder, FilesDiffer, StreamInTurn, OpenedInOrder, Unopened, Settled,
         Clash, IoTypeOK
<1> QED
  BY <1>1, <1>2, <1>3, <1>4


\* There is a file left to create: at most one output was opened before.
LEMMA NewFileIsFresh ==
    ASSUME FilesInv, ipc = "openOutput"
    PROVE  NewFile \in Fresh \ created
<1>1. created \subseteq {handle["stdout"]} /\ created \subseteq Fresh
  <2>1. handle["stderr"] = None /\ None \notin Fresh
    BY IoFilesAssumption DEF FilesInv, OpenedInOrder, Unopened, Opening
  <2> QED
    BY <2>1 DEF FilesInv, TruncatedInOrder, IoTypeOK
<1>2. ~(Fresh \subseteq {handle["stdout"]})
  <2> SUFFICES ASSUME Fresh \subseteq {handle["stdout"]} PROVE FALSE
    OBVIOUS
  <2>1. IsFiniteSet({handle["stdout"]}) /\ Cardinality({handle["stdout"]}) = 1
    BY FS_Singleton
  <2>2. Cardinality(Fresh) <= 1 /\ Cardinality(Fresh) \in Nat
    BY <2>1, FS_Subset, FS_CardinalityType, IoFilesAssumption
  <2> QED
    BY <2>2, IoFilesAssumption
<1>3. \E f \in Fresh : f \notin created
  BY <1>1, <1>2
<1> QED
  BY <1>3 DEF NewFile

\* What the open of an output does, as far as FilesInv is concerned.
LEMMA OpenOutputEffect ==
    ASSUME FilesInv, OpenOutput
    PROVE  /\ stream \in Output /\ path[stream] # None /\ ipc = "openOutput"
           /\ UNCHANGED <<path, stream, link, truncated>>
           /\ \/ /\ ipc' = "validateOutput" /\ UNCHANGED error
                 /\ \E f \in File :
                       /\ handle' = [handle EXCEPT ![stream] = f]
                       /\ nonblock' = nonblock \cup {stream}
                       /\ \/ UNCHANGED <<created, inode>>
                          \/ /\ f \in Fresh /\ created' = created \cup {f}
                             /\ Lookup(path[stream]) = "absent"
                             /\ inode' = [inode EXCEPT ![link[path[stream]]] = f]
              \/ /\ ipc' = "failed" /\ error' \in Reasons
                 /\ UNCHANGED <<created, inode, handle, nonblock>>
<1> USE DEF OpenOutput, Open, LeaveContent, GoTo, Refuse, Fault, NoFault
<1>1. stream \in Output /\ path[stream] # None /\ ipc = "openOutput"
  BY DEF FilesInv, StreamInTurn, Opening
<1>2. NewFile \in Fresh /\ NewFile \in File
  BY <1>1, NewFileIsFresh DEF File
<1> QED
  BY <1>1, <1>2 DEF Reasons

\* An output is opened or created; truncating it waits.
LEMMA OpenOutputInv ==
    ASSUME FilesInv, OpenOutput
    PROVE  FilesInv'
<1>0. /\ stream \in Output /\ path[stream] # None /\ ipc = "openOutput"
      /\ UNCHANGED <<path, stream, link, truncated>>
  BY OpenOutputEffect
<1>1. ASSUME ipc' = "failed", error' \in Reasons,
             UNCHANGED <<created, inode, handle, nonblock>>
      PROVE  FilesInv'
  <2> USE <1>0, <1>1, ReasonAssumption DEF FilesInv
  <2>1. IoTypeOK'
    BY IoFilesAssumption DEF IoTypeOK, OpenOutput, Fault, NoFault, Ended
  <2>2. StreamInTurn'
    BY DEF StreamInTurn, Opening
  <2>3. OpenedInOrder'
    BY DEF OpenedInOrder, Preparing, Committing, Opening, Opened, BeforeOutputs,
           BetweenOutputs
  <2>4. TruncatedInOrder'
    BY DEF TruncatedInOrder
  <2> QED
    BY <2>1, <2>2, <2>3, <2>4
<1>2. ASSUME ipc' = "validateOutput", UNCHANGED error, NEW f \in File,
             handle' = [handle EXCEPT ![stream] = f], nonblock' = nonblock \cup {stream},
             \/ UNCHANGED <<created, inode>>
             \/ /\ f \in Fresh /\ created' = created \cup {f}
                /\ inode' = [inode EXCEPT ![link[path[stream]]] = f]
      PROVE  FilesInv'
  <2> USE <1>0, <1>2, IoFilesAssumption DEF FilesInv, Stream, Output
  <2>1. IoTypeOK'
    <3>1. nonblock' \subseteq Stream /\ created' \subseteq Fresh
      BY DEF IoTypeOK
    <3>2. handle' \in [Stream -> File \cup {None}]
      BY DEF IoTypeOK
    <3>3. inode' \in [Path -> File \cup {"absent", "orphan"}]
      BY DEF IoTypeOK
    <3> QED
      BY <3>1, <3>2, <3>3 DEF IoTypeOK, OpenOutput, Fault, NoFault, Committing
  <2>2. StreamInTurn'
    BY DEF StreamInTurn, Opening
  <2>3. OpenedInOrder'
    <3>1. \A s \in Stream \ {stream} :
              (Unopened(s)' <=> Unopened(s)) /\ (Settled(s)' <=> Settled(s))
      BY DEF Unopened, Settled, IoTypeOK
    <3>2. handle'[stream] = f /\ f # None
      BY DEF IoTypeOK, File
    <3>3. \A s \in Stream : handle'[s] # None => path'[s] # None
      BY DEF OpenedInOrder, IoTypeOK
    <3> QED
      BY <3>1, <3>2, <3>3 DEF OpenedInOrder, Preparing, Committing, Opening, Opened,
           BeforeOutputs, BetweenOutputs
  <2>4. TruncatedInOrder'
    <3>1. truncated' = {}
      BY DEF TruncatedInOrder
    <3>2. handle[stream] = None
      BY DEF OpenedInOrder, Unopened, Opening, BeforeOutputs, BetweenOutputs
    <3>3. created' \subseteq {handle'["stdout"], handle'["stderr"]}
      BY <3>2 DEF TruncatedInOrder, IoTypeOK
    <3> QED
      BY <3>1, <3>3 DEF TruncatedInOrder
  <2> QED
    BY <2>1, <2>2, <2>3, <2>4
<1> QED
  BY <1>1, <1>2, OpenOutputEffect

\* What other programs do to the names.
LEMMA RelinkInv ==
    ASSUME FilesInv, Relink
    PROVE  FilesInv'
<1> USE DEF FilesInv, Relink
<1>1. IoTypeOK'
  <2>1. PICK p \in Path :
            \/ \E f \in Ordinary \cup Special \cup created \cup {"absent", "orphan"} :
                  Rebind(p, f)
            \/ \E q \in Path : Redirect(p, q)
    OBVIOUS
  <2>2. link' \in [Path -> Path] /\ inode' \in [Path -> File \cup {"absent", "orphan"}]
    BY <2>1 DEF IoTypeOK, Rebind, Redirect, File
  <2>3. \A r \in Path : link'[link'[r]] = link'[r]
    BY <2>1 DEF IoTypeOK, Rebind, Redirect
  <2> QED
    BY <2>2, <2>3, IoFilesAssumption DEF IoTypeOK
<1>2. StreamInTurn'
  BY DEF StreamInTurn
<1>3. OpenedInOrder' /\ TruncatedInOrder'
  BY DEF OpenedInOrder, Unopened, Settled, BeforeOutputs, BetweenOutputs,
         TruncatedInOrder, FilesDiffer, Clash
<1> QED
  BY <1>1, <1>2, <1>3

\* No system call and no change by another program breaks the invariant.
LEMMA FilesInvStep == FilesInv /\ [IoNext]_ioVars => FilesInv'
<1> SUFFICES ASSUME FilesInv, [IoNext]_ioVars PROVE FilesInv'
  OBVIOUS
<1>1. CASE UNCHANGED ioVars
  BY <1>1 DEF ioVars, environment, FilesInv, IoTypeOK, StreamInTurn, OpenedInOrder,
       Unopened, Settled, BeforeOutputs, BetweenOutputs, TruncatedInOrder, FilesDiffer, Clash
<1>2. CASE PrepareStep
  BY <1>2, EnterInv, StatInputInv, OpenInputInv, ValidateInputInv, NormalizeInv,
     CompareNormalizedInv, LastCheckInv DEF PrepareStep
<1>3. CASE CommitStep
  BY <1>3, OpenOutputInv, ValidateOutputInv, IdentifyInv, TruncateInv, AttachInv
     DEF CommitStep
<1> QED
  BY <1>1, <1>2, <1>3, StatOutputInv, LstatOutputInv, RelinkInv, RequestInv
     DEF IoNext, RunStep

\* The invariant of the preparation of files.
LEMMA FilesInvAlways == IoSpec => []FilesInv
  BY FilesInvInit, FilesInvStep, PTL DEF IoSpec

(***************************************************************************)
(* The theorems that need no assumption on what other programs do.         *)
(***************************************************************************)

\* Every variable keeps its type.
THEOREM IoTypeCorrect == IoSpec => []IoTypeOK
<1>1. FilesInv => IoTypeOK
  BY DEF FilesInv
<1> QED
  BY <1>1, FilesInvAlways, PTL

\* The file the child reads is never emptied, whatever leads to it and however
\* other programs relink the paths in between (validate_file_identities before
\* truncate_outputs).
THEOREM InputIsKept == IoSpec => []InputNeverTruncated
<1>1. FilesInv => InputNeverTruncated
  <2> SUFFICES ASSUME FilesInv, handle["stdin"] \in truncated PROVE FALSE
    BY DEF InputNeverTruncated
  <2> USE IoFilesAssumption DEF FilesInv, Stream, Output
  <2>1. FilesDiffer /\ handle["stdin"] # None
    BY DEF TruncatedInOrder
  <2>2. handle["stdin"] # "indeterminate"
    BY <2>1 DEF IoTypeOK, File
  <2> QED
    BY <2>1, <2>2 DEF TruncatedInOrder, FilesDiffer, Clash
<1> QED
  BY <1>1, FilesInvAlways, PTL

\* What is truncated or handed out is a regular file and blocks, every configured
\* stream is open, and the two outputs are different files.
THEOREM HandedOutSafely == IoSpec => []HandedOutFilesAreSafe
<1>1. FilesInv => HandedOutFilesAreSafe
  <2> SUFFICES ASSUME FilesInv PROVE HandedOutFilesAreSafe
    OBVIOUS
  <2> USE DEF FilesInv, Stream, Output
  <2>1. truncated \cap Special = {}
    BY DEF TruncatedInOrder, FilesDiffer
  <2>2. ASSUME ipc = "ready"
        PROVE  /\ ~Clash(handle, "stdout", "stderr")
               /\ \A s \in Stream : Settled(s)
    BY <2>2 DEF TruncatedInOrder, FilesDiffer, OpenedInOrder, Opened
  <2> QED
    BY <2>1, <2>2 DEF HandedOutFilesAreSafe, Settled, IoTypeOK
<1> QED
  BY <1>1, FilesInvAlways, PTL

\* A refused run has emptied nothing; only a truncation that fails after another
\* succeeded leaves an output empty.
THEOREM RefusalKeepsFiles == IoSpec => []RefusalEmptiesNothing
<1>1. FilesInv => RefusalEmptiesNothing
  BY ReasonAssumption
     DEF FilesInv, RefusalEmptiesNothing, TruncatedInOrder, StreamInTurn, OpenedInOrder,
         Stream, Output, Reasons
<1> QED
  BY <1>1, FilesInvAlways, PTL

(***************************************************************************)
(* AliasInv is inductive.                                                  *)
(***************************************************************************)

\* What is known of the paths stays so while the file system does.
LEMMA NamesStay ==
    ASSUME UNCHANGED <<path, link, inode>>
    PROVE  /\ Aliased' <=> Aliased
           /\ PathsDiffer' <=> PathsDiffer
           /\ \A s \in Stream : /\ Accepted(s)' <=> Accepted(s)
                                /\ Lookup(path[s])' = Lookup(path[s])
                                /\ Canonical(path[s])' = Canonical(path[s])
  BY DEF Aliased, PathsDiffer, Accepted, Lookup, Canonical

\* Before an output is opened an alias can only be one name of both outputs in a
\* directory that does not exist.
LEMMA AliasedIsOrphan ==
    ASSUME IoTypeOK, AliasesStopped, BeforeOutputs, Aliased
    PROVE  path["stdout"] # None /\ Lookup(path["stdout"]) = "orphan"
<1> USE IoFilesAssumption
<1>1. /\ PathsDiffer /\ Accepted("stdout") /\ Accepted("stderr")
      /\ path["stdin"] # None => Lookup(path["stdin"]) \in File
  BY DEF AliasesStopped, BeforeOutputs, Opening, Ended
<1>2. PICK s \in Stream, t \in Stream :
          s # t /\ path[s] # None /\ path[t] # None /\ link[path[s]] = link[path[t]]
  BY DEF Aliased
<1>3. /\ path[s] \in Path /\ path[t] \in Path
      /\ Lookup(path[s]) = Lookup(path[t])
      /\ Lookup(path[s]) \in File \cup {"absent", "orphan"}
  BY <1>2, LookupType DEF Lookup
<1>4. Lookup(path[s]) \notin File
  <2> SUFFICES ASSUME Lookup(path[s]) \in File PROVE FALSE
    OBVIOUS
  <2>1. Canonical(path[s]) = link[path[s]] /\ Canonical(path[t]) = link[path[t]]
    BY <1>3 DEF Canonical
  <2>2. link[path[s]] # "indeterminate"
    BY <1>3 DEF IoTypeOK
  <2> QED
    BY <1>1, <1>2, <2>1, <2>2 DEF PathsDiffer
<1>5. s \in Output /\ t \in Output
  BY <1>1, <1>2, <1>3, <1>4 DEF Stream
<1>6. link[path[s]] = path[s] /\ link[path[t]] = path[t] /\ path[s] = path[t]
  BY <1>1, <1>2, <1>3, <1>4, <1>5 DEF Accepted, Output
<1>7. Canonical(path[s]) = "indeterminate"
  BY <1>1, <1>2, <1>6 DEF PathsDiffer
<1>8. Lookup(path[s]) = "orphan"
  BY <1>3, <1>4, <1>6, <1>7 DEF Canonical, Lookup
<1> QED
  BY <1>2, <1>5, <1>6, <1>8 DEF Output

\* Nothing has been compared yet.
LEMMA AliasInvInit == IoInit => AliasInv
  BY DEF IoInit, AliasInv, AliasesStopped, BeforeOutputs, BetweenOutputs, Opening, Opened

\* The first steps of prepare: the input exists.
LEMMA InputAlias ==
    ASSUME FilesInv, AliasesStopped,
           Enter \/ StatInput \/ OpenInput \/ ValidateInput
    PROVE  AliasesStopped'
<1>1. UNCHANGED <<path, link, inode, created, truncated, stream>> /\ stream = "stdin"
  BY DEF Enter, StatInput, OpenInput, ValidateInput, KeepFiles, environment, FilesInv,
         StreamInTurn
<1>2. ipc' \in {"statInput", "openInput", "validateInput", "normalize", "failed", "cancelled"}
  BY DEF Enter, StatInput, OpenInput, ValidateInput, CheckCancellation, GoTo, Refuse, Fault
<1>3. path["stdin"] # None /\ ipc' \in {"validateInput", "normalize"} =>
          Lookup(path["stdin"]) \in File
  <2>1. CASE Enter
    BY <2>1 DEF Enter, CheckCancellation, GoTo
  <2>2. CASE StatInput
    BY <2>2, LookupType, IoFilesAssumption
       DEF StatInput, GoTo, Refuse, Fault, FilesInv, File, Stream
  <2>3. CASE OpenInput
    BY <2>3 DEF OpenInput, GoTo, Refuse, Fault
  <2>4. CASE ValidateInput
    BY <2>4 DEF ValidateInput, AliasesStopped, Ended
  <2> QED
    BY <2>1, <2>2, <2>3, <2>4
<1>4. ipc' \in {"normalize", "compare"} => NormalizedStreams' = {}
  BY <1>1, <1>2 DEF NormalizedStreams
<1>5. Aliased' <=> Aliased
  BY <1>1, NamesStay
<1> QED
  BY <1>1, <1>2, <1>3, <1>4, <1>5
     DEF AliasesStopped, BeforeOutputs, BetweenOutputs, Opening, Opened, Ended, Lookup

\* The normalization of a path records where it leads.
LEMMA NormalizeAlias ==
    ASSUME FilesInv, AliasesStopped, Normalize
    PROVE  AliasesStopped'
<1>1. UNCHANGED <<path, link, inode, created, truncated>>
  BY DEF Normalize, KeepFiles, environment
<1>2. ipc = "normalize" /\ ipc' \in {"normalize", "compare", "failed"}
  BY DEF Normalize, Advance, GoTo, Fault, Refuse
<1>3. ipc' \in {"normalize", "compare"} =>
          \A s \in NormalizedStreams' : path[s] # None => canonical'[s] = Canonical(path[s])
  BY <1>2 DEF Normalize, Advance, GoTo, Fault, Refuse, NormalizedStreams, AliasesStopped,
          FilesInv, IoTypeOK, Stream, Output
<1> QED
  BY <1>1, <1>2, <1>3, NamesStay
     DEF AliasesStopped, BeforeOutputs, BetweenOutputs, Opening, Opened, Ended, Stream,
         Output, NormalizedStreams

\* The comparison leaves no two paths that are known to lead to one place.
LEMMA CompareAlias ==
    ASSUME FilesInv, AliasesStopped, CompareNormalized
    PROVE  AliasesStopped'
<1>1. UNCHANGED <<path, link, inode, created, truncated, stream, canonical>>
  BY DEF CompareNormalized, KeepFiles, environment
<1>2. ipc = "compare" /\ stream = "stdout" /\ ipc' \in {"statTarget", "failed"}
  BY DEF CompareNormalized, RefuseClash, GoTo, Refuse, FilesInv, StreamInTurn
<1>3. ipc' = "statTarget" => PathsDiffer
  <2> SUFFICES ASSUME ipc' = "statTarget" PROVE PathsDiffer
    OBVIOUS
  <2>1. /\ \A s \in Output : ~Clash(canonical, "stdin", s)
        /\ ~Clash(canonical, "stdout", "stderr")
    BY DEF CompareNormalized, RefuseClash, GoTo, Refuse
  <2>2. \A s \in Stream : path[s] # None =>
            canonical[s] = Canonical(path[s]) /\ Canonical(path[s]) # None
    BY <1>2, IoFilesAssumption
       DEF AliasesStopped, NormalizedStreams, FilesInv, IoTypeOK, Canonical
  <2> QED
    BY <2>1, <2>2 DEF PathsDiffer, Clash, Stream, Output
<1> QED
  BY <1>1, <1>2, <1>3, NamesStay
     DEF AliasesStopped, BeforeOutputs, BetweenOutputs, Opening, Opened, Ended, Stream,
         Output

\* An output passes prepare if it exists or its name is no link.
LEMMA TargetAlias ==
    ASSUME FilesInv, AliasesStopped, StatOutput \/ LstatOutput, ipc \in Preparing
    PROVE  AliasesStopped'
<1> USE DEF TargetAccepted, GoTo, Refuse, Fault
<1>1. UNCHANGED <<path, link, inode, created, truncated>>
  BY DEF StatOutput, LstatOutput, KeepFiles, environment
<1>2. ipc \in {"statTarget", "lstatTarget"} /\ stream \in Output
  BY DEF StatOutput, LstatOutput, FilesInv, StreamInTurn, Preparing
<1>3. \/ ipc' \in {"lstatTarget", "failed"} /\ stream' = stream
      \/ stream = "stdout" /\ stream' = "stderr" /\ ipc' = "statTarget"
      \/ stream = "stderr" /\ stream' = "stdout" /\ ipc' = "lastCheck"
  BY <1>2 DEF StatOutput, LstatOutput, Preparing, Output
<1>4. \A s \in Stream : s = stream /\ ipc' \in {"statTarget", "lastCheck"} => Accepted(s)
  <2>1. CASE StatOutput
    BY <1>2, <2>1, LookupType DEF StatOutput, Accepted, Preparing, File, FilesInv
  <2>2. CASE LstatOutput
    BY <1>2, <2>2 DEF LstatOutput, Accepted, Preparing
  <2> QED
    BY <2>1, <2>2
<1> QED
  BY <1>1, <1>2, <1>3, <1>4, NamesStay
     DEF AliasesStopped, BeforeOutputs, BetweenOutputs, Opening, Opened, Ended, Stream,
         Output

\* In commit, an alias does not get past an output without a path.
LEMMA SkipAlias ==
    ASSUME FilesInv, AliasesStopped, StatOutput \/ LstatOutput, ipc \in Opening
    PROVE  AliasesStopped'
<1> USE DEF TargetAccepted, GoTo, Refuse, Fault
<1>1. UNCHANGED <<path, link, inode, created, truncated>>
  BY DEF StatOutput, LstatOutput, KeepFiles, environment
<1>2. ipc \in {"statOutput", "lstatOutput"} /\ stream \in Output
  BY DEF StatOutput, LstatOutput, FilesInv, StreamInTurn, Opening
<1>3. \/ ipc' \in {"lstatOutput", "openOutput"} /\ stream' = stream
      \/ ipc' = "failed"
      \/ /\ ipc = "statOutput" /\ path[stream] = None
         /\ \/ stream = "stdout" /\ stream' = "stderr" /\ ipc' = "statOutput"
            \/ stream = "stderr" /\ stream' = "stdout" /\ ipc' = "identify"
  <2>1. CASE StatOutput
    BY <1>2, <2>1, LookupType DEF StatOutput, FilesInv, Output, Stream, Preparing
  <2>2. CASE LstatOutput
    BY <1>2, <2>2 DEF LstatOutput, Preparing
  <2> QED
    BY <2>1, <2>2
<1>4. BeforeOutputs /\ path["stdout"] = None => ~Aliased
  BY AliasedIsOrphan DEF FilesInv
<1> QED
  BY <1>1, <1>2, <1>3, <1>4, NamesStay
     DEF AliasesStopped, BeforeOutputs, BetweenOutputs, Opening, Opened, Ended, Stream,
         Output

\* An alias does not get past the opening of stdout, and a file that is opened
\* or created takes nothing away from what is known.
LEMMA OpenAlias ==
    ASSUME FilesInv, AliasesStopped, OpenOutput
    PROVE  AliasesStopped'
<1>1. stream \in Output /\ ipc = "openOutput" /\ UNCHANGED <<path, link, stream, truncated>>
  BY OpenOutputEffect
<1>2. Aliased' <=> Aliased
  BY <1>1 DEF Aliased
<1>3. CASE ipc' = "failed"
  <2>1. UNCHANGED created
    BY <1>3, OpenOutputEffect
  <2> QED
    BY <1>1, <1>2, <1>3, <2>1
       DEF AliasesStopped, BeforeOutputs, BetweenOutputs, Opening, Opened, Ended
<1>4. CASE ipc' = "validateOutput"
  <2>1. ~Aliased
    <3>1. CASE stream = "stdout"
      <4>1. Lookup(path["stdout"]) # "orphan"
        BY <1>4, <3>1, IoFilesAssumption DEF OpenOutput, Refuse, Fault, File
      <4> QED
        BY <1>1, <3>1, <4>1, AliasedIsOrphan DEF BeforeOutputs, Opening, FilesInv
    <3>2. CASE stream = "stderr"
      BY <1>1, <3>2 DEF AliasesStopped, BetweenOutputs, Opening
    <3> QED
      BY <1>1, <3>1, <3>2 DEF Output
  <2>2. path["stdin"] # None => Lookup(path["stdin"])' \in File
    <3> SUFFICES ASSUME path["stdin"] # None PROVE Lookup(path["stdin"])' \in File
      OBVIOUS
    <3>1. Lookup(path["stdin"]) \in File
      BY <1>1 DEF AliasesStopped, Ended
    <3>2. \/ UNCHANGED inode
          \/ \E f \in File : inode' = [inode EXCEPT ![link[path[stream]]] = f]
      BY <1>4, OpenOutputEffect
    <3> QED
      BY <1>1, <3>1, <3>2 DEF Lookup, FilesInv, IoTypeOK, Stream
  <2> QED
    BY <1>1, <1>2, <1>4, <2>1, <2>2
       DEF AliasesStopped, BeforeOutputs, BetweenOutputs, Opening, Opened, Ended
<1> QED
  BY <1>3, <1>4, OpenOutputEffect

\* The other steps learn nothing new of the paths.
LEMMA OtherAlias ==
    ASSUME FilesInv, AliasesStopped,
           \/ LastCheck \/ ValidateOutput \/ Identify \/ TruncateOutput \/ Attach
           \/ RequestCancellation
    PROVE  AliasesStopped'
<1>1. UNCHANGED <<path, link, inode, created, canonical>>
  BY DEF LastCheck, ValidateOutput, Identify, TruncateOutput, Attach, RequestCancellation,
         KeepFiles, environment
<1>2. \/ UNCHANGED <<ipc, stream>>
      \/ ipc' \in {"failed", "cancelled"}
      \/ ipc = "lastCheck" /\ ipc' = "statOutput" /\ stream' = "stdout"
      \/ ipc \in {"validateOutput", "identify", "truncate", "attach"} /\ ipc' \in Opened
      \/ ipc = "validateOutput" /\ ipc' = "statOutput" /\ stream' = "stderr"
  BY DEF LastCheck, ValidateOutput, Identify, TruncateOutput, Attach, RequestCancellation,
         CheckAgain, CheckCancellation, GoTo, Refuse, Fault, RefuseClash, Advance, Opened,
         FilesInv, StreamInTurn, Output
<1>3. UNCHANGED truncated \/ ipc = "truncate"
  BY DEF LastCheck, ValidateOutput, Identify, TruncateOutput, Attach, RequestCancellation,
         KeepFiles
<1> QED
  BY <1>1, <1>2, <1>3, NamesStay
     DEF AliasesStopped, BeforeOutputs, BetweenOutputs, Opening, Opened, Ended, Stream,
         Output,
         NormalizedStreams

\* No step breaks the invariant about aliases.
LEMMA AliasInvStep == FilesInv /\ AliasInv /\ [IoNext]_ioVars => AliasInv'
<1> SUFFICES ASSUME FilesInv, AliasInv, [IoNext]_ioVars PROVE AliasInv'
  OBVIOUS
<1>1. CASE UNCHANGED ioVars
  BY <1>1, NamesStay
     DEF ioVars, environment, AliasInv, AliasesStopped, BeforeOutputs, BetweenOutputs,
         NormalizedStreams, Stream, Output
<1>2. CASE Relink
  <2>1. relinks' # 0
    BY <1>2 DEF Relink, FilesInv, IoTypeOK
  <2> QED
    BY <2>1 DEF AliasInv
<1>3. CASE RunStep \/ RequestCancellation
  <2>1. UNCHANGED relinks
    BY <1>3 DEF RunStep, PrepareStep, CommitStep, RequestCancellation, Enter, StatInput,
         OpenInput, ValidateInput, Normalize, CompareNormalized, LastCheck, OpenOutput,
         ValidateOutput, Identify, TruncateOutput, Attach, StatOutput, LstatOutput, KeepFiles,
         environment
  <2> SUFFICES ASSUME AliasesStopped PROVE AliasesStopped'
    BY <2>1 DEF AliasInv
  <2>2. CASE StatOutput \/ LstatOutput
    <3>1. ipc \in Preparing \cup Opening
      BY <2>2 DEF StatOutput, LstatOutput, Preparing, Opening
    <3> QED
      BY <2>2, <3>1, TargetAlias, SkipAlias
  <2> QED
    BY <1>3, <2>2, InputAlias, NormalizeAlias, CompareAlias, OpenAlias, OtherAlias
       DEF RunStep, PrepareStep, CommitStep
<1> QED
  BY <1>1, <1>2, <1>3 DEF IoNext

\* Paths that lead to one place are refused before anything is created or
\* emptied, as long as no other program relinks them (validate_normalized_paths,
\* ensure_regular_output).
THEOREM AliasesAreRefused == IoSpec => []AliasesRefusedEarly
<1>1. IoSpec => []AliasInv
  BY FilesInvAlways, AliasInvInit, AliasInvStep, PTL DEF IoSpec
<1>2. AliasInv => AliasesRefusedEarly
  BY DEF AliasInv, AliasesStopped, AliasesRefusedEarly, Aliased, Opened
<1> QED
  BY <1>1, <1>2, PTL

(***************************************************************************)
(* How long the preparation takes.                                         *)
(***************************************************************************)

\* The outputs that follow the one whose turn it is.
OutputsAhead == IF stream = "stdout" THEN 1 ELSE 0

\* The calls that prepare and commit have still to make, at most.
IoStepsLeft ==
    CASE ipc = "entry"          -> 25
      [] ipc = "statInput"      -> 24
      [] ipc = "openInput"      -> 23
      [] ipc = "validateInput"  -> 22
      [] ipc = "normalize"      -> IF stream = "stdin" THEN 21 ELSE 19 + OutputsAhead
      [] ipc = "compare"        -> 18
      [] ipc = "statTarget"     -> 15 + 2 * OutputsAhead
      [] ipc = "lstatTarget"    -> 14 + 2 * OutputsAhead
      [] ipc = "lastCheck"      -> 13
      [] ipc = "statOutput"     -> 8 + 4 * OutputsAhead
      [] ipc = "lstatOutput"    -> 7 + 4 * OutputsAhead
      [] ipc = "openOutput"     -> 6 + 4 * OutputsAhead
      [] ipc = "validateOutput" -> 5 + 4 * OutputsAhead
      [] ipc = "identify"       -> 4
      [] ipc = "truncate"       -> 2 + OutputsAhead
      [] ipc = "attach"         -> 1
      [] ipc \in Ended          -> 0

\* The run uses them up, and neither other programs nor the caller give one back.
PreparationRunsOut ==
    /\ RunStep => IoStepsLeft' < IoStepsLeft
    /\ IoStepsLeft' <= IoStepsLeft

\* The order of the calls: each leads to a later one or to the end.
LEMMA PreparationGoesOn ==
    ASSUME FilesInv, RunStep
    PROVE  IoStepsLeft' < IoStepsLeft
<1> USE DEF GoTo, Refuse, Fault, CheckCancellation, IoStepsLeft, OutputsAhead, Ended
<1>0. stream \in Stream /\ StreamInTurn
  BY DEF FilesInv, IoTypeOK
<1>1. CASE Enter \/ StatInput \/ OpenInput \/ ValidateInput
  BY <1>1 DEF Enter, StatInput, OpenInput, ValidateInput
<1>2. CASE Normalize \/ CompareNormalized \/ LastCheck
  BY <1>0, <1>2
     DEF Normalize, CompareNormalized, LastCheck, CheckAgain, Advance, RefuseClash, Stream,
         StreamInTurn, Output
<1>3. CASE StatOutput \/ LstatOutput
  BY <1>0, <1>3
     DEF StatOutput, LstatOutput, TargetAccepted, StreamInTurn, Opening, Output, Preparing
<1>4. CASE CommitStep
  BY <1>0, <1>4
     DEF CommitStep, OpenOutput, ValidateOutput, Identify, TruncateOutput, Attach, Advance,
         RefuseClash, StreamInTurn, Opening, Output
<1> QED
  BY <1>1, <1>2, <1>3, <1>4 DEF RunStep, PrepareStep

\* The preparation of the files ends after at most 25 of its calls, whatever
\* they find and however often other programs change it meanwhile: nothing is
\* looked at again because it has changed (prepare, commit).
THEOREM PreparationIsBounded ==
    IoSpec => /\ [](IoStepsLeft \in 0..25)
              /\ [][PreparationRunsOut]_ioVars
<1>1. FilesInv => IoStepsLeft \in 0..25
  BY DEF FilesInv, IoTypeOK, IoStepsLeft, OutputsAhead, Preparing, Committing, Ended
<1>2. FilesInv /\ [IoNext]_ioVars => [PreparationRunsOut]_ioVars
  <2> SUFFICES ASSUME FilesInv, IoNext PROVE PreparationRunsOut
    OBVIOUS
  <2>1. IoStepsLeft \in 0..25
    BY <1>1
  <2>2. CASE RunStep
    <3>1. IoStepsLeft' < IoStepsLeft
      BY <2>2, PreparationGoesOn
    <3>2. IoStepsLeft' \in 0..25
      <4>1. FilesInv'
        BY FilesInvStep
      <4> QED
        BY <4>1
           DEF FilesInv, IoTypeOK, IoStepsLeft, OutputsAhead, Preparing, Committing, Ended
    <3> QED
      BY ONLY <2>1, <3>1, <3>2 DEF PreparationRunsOut
  <2>3. CASE ~RunStep
    <3>1. UNCHANGED <<ipc, stream>>
      BY <2>3 DEF IoNext, Relink, RequestCancellation
    <3>2. IoStepsLeft' = IoStepsLeft
      BY ONLY <3>1 DEF IoStepsLeft, OutputsAhead
    <3> QED
      BY ONLY <2>1, <2>3, <3>2 DEF PreparationRunsOut
  <2> QED
    BY <2>2, <2>3
<1> QED
  BY <1>1, <1>2, FilesInvAlways, PTL DEF IoSpec
=============================================================================
