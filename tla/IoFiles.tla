------------------------------ MODULE IoFiles ------------------------------
(***************************************************************************)
(* The files of a run (io_files.rs), from the first look at the configured *)
(* paths to the handles given to the child and to the output readers, with *)
(* the two cancellation checks of the caller around the first half         *)
(* (command_runner.rs: prepare_command_for_run and run_with).              *)
(*                                                                         *)
(* The first half, prepare, must leave the file system as it found it; the *)
(* second half, commit, opens both outputs, compares the open handles and  *)
(* only then truncates.  Other programs create, remove and relink files    *)
(* between any two system calls.                                           *)
(*                                                                         *)
(* A path is a name in a directory.  It is a symbolic link to another path *)
(* or a name of its own; a name of its own is bound to a file, bound to    *)
(* nothing, or lies in a directory that does not exist.  A file is an      *)
(* inode: two paths bound to one file are hard links.  The handles follow  *)
(* Unix, where special files are opened with O_NONBLOCK.                   *)
(***************************************************************************)
EXTENDS Optional, Naturals, FiniteSets

CONSTANTS
    Path,       \* names of files
    Ordinary,   \* regular files that exist when the run starts
    Special,    \* FIFOs, devices and directories
    Fresh,      \* regular files the run may create
    MaxRelinks, \* changes other programs make to the file system
    MaxFaults   \* system calls that fail for a reason of their own

ASSUME IoFilesAssumption ==
    /\ Ordinary \cap Special = {}
    /\ Fresh \cap (Ordinary \cup Special) = {}
    /\ IsFiniteSet(Fresh) /\ Cardinality(Fresh) >= 2
    /\ MaxRelinks \in Nat /\ MaxFaults \in Nat
    /\ {None, "absent", "orphan", "indeterminate"} \cap
       (Path \cup Ordinary \cup Special \cup Fresh) = {}
    /\ None \notin {"absent", "orphan", "indeterminate"}

Output == {"stdout", "stderr"}
Stream == {"stdin"} \cup Output

VARIABLES
    path,      \* the configured path of each stream
    link,      \* where each path leads: itself, or the target of the link
    inode,     \* what a path that is no link is bound to
    created,   \* files the run created
    truncated, \* files the run truncated
    relinks,   \* changes made by other programs so far
    faults,    \* system calls that failed so far
    ipc,       \* where the run is
    stream,    \* the stream it is working on
    canonical, \* the normalized path of each stream
    handle,    \* the open file of each stream
    nonblock,  \* streams whose handle still has O_NONBLOCK
    error,     \* the reason the run is refused
    requested  \* cancellation was requested

environment == <<link, inode, relinks>>
ioVars == <<path, environment, created, truncated, faults, ipc, stream,
            canonical, handle, nonblock, error, requested>>

File == Ordinary \cup Special \cup Fresh

Ended == {"ready", "failed", "cancelled"}

\* The steps of prepare, which end with the second cancellation check.
Preparing == {"entry", "statInput", "openInput", "validateInput",
              "normalize", "compare", "statTarget", "lstatTarget", "lastCheck"}

Committing == {"statOutput", "lstatOutput", "openOutput", "validateOutput",
               "identify", "truncate", "attach"}

Reasons == {"NonRegularInputFile", "NonRegularOutputFile", "OpenInputFailed",
            "OpenOutputFailed", "InspectIoFileFailed", "InputOutputConflict",
            "OutputFilesConflict", "CancelledBeforeStart"}

ASSUME ReasonAssumption == None \notin Reasons

IoTypeOK ==
    /\ path \in [Stream -> Path \cup {None}]
    /\ link \in [Path -> Path]
    /\ \A p \in Path : link[link[p]] = link[p]
    /\ inode \in [Path -> File \cup {"absent", "orphan"}]
    /\ created \subseteq Fresh
    /\ truncated \subseteq File
    /\ relinks \in 0..MaxRelinks
    /\ faults \in 0..MaxFaults
    /\ ipc \in Preparing \cup Committing \cup Ended
    /\ stream \in Stream
    /\ canonical \in [Stream -> Path \cup {None, "indeterminate"}]
    /\ handle \in [Stream -> File \cup {None}]
    /\ nonblock \subseteq Stream
    /\ error \in Reasons \cup {None}
    /\ requested \in BOOLEAN

\* Links lead to names that are no links; a link is bound to nothing itself.
IoInit ==
    /\ path \in [Stream -> Path \cup {None}]
    /\ link \in {l \in [Path -> Path] : \A p \in Path : l[l[p]] = l[p]}
    /\ inode \in {i \in [Path -> Ordinary \cup Special \cup {"absent", "orphan"}] :
                     \A p \in Path : link[p] # p => i[p] = "absent"}
    /\ created = {} /\ truncated = {}
    /\ relinks = 0 /\ faults = 0
    /\ ipc = "entry"
    /\ stream = "stdin"
    /\ canonical = [s \in Stream |-> None]
    /\ handle = [s \in Stream |-> None]
    /\ nonblock = {}
    /\ error = None
    /\ requested = FALSE

(***************************************************************************)
(* The file system.                                                        *)
(***************************************************************************)

\* What stat finds: a file, "absent" or "orphan".
Lookup(p) == inode[link[p]]

\* Another program removes p, binds it to a file or to nothing.
Rebind(p, f) ==
    /\ link' = [link EXCEPT ![p] = p]
    /\ inode' = [inode EXCEPT ![p] = f]

\* Another program makes p a symbolic link.
Redirect(p, q) ==
    /\ p # q /\ link[q] = q
    /\ \A r \in Path \ {p} : link[r] # p
    /\ link' = [link EXCEPT ![p] = q]
    /\ inode' = [inode EXCEPT ![p] = "absent"]

Relink ==
    /\ ipc \notin Ended
    /\ relinks < MaxRelinks
    /\ relinks' = relinks + 1
    /\ \E p \in Path :
          \/ \E f \in Ordinary \cup Special \cup created \cup {"absent", "orphan"} :
                Rebind(p, f)
          \/ \E q \in Path : Redirect(p, q)
    /\ UNCHANGED <<path, created, truncated, faults, ipc, stream, canonical,
                   handle, nonblock, error, requested>>

RequestCancellation ==
    /\ ~requested
    /\ ipc \notin Ended
    /\ requested' = TRUE
    /\ UNCHANGED <<path, environment, created, truncated, faults, ipc, stream,
                   canonical, handle, nonblock, error>>

(***************************************************************************)
(* Steps of the run.                                                       *)
(***************************************************************************)

GoTo(label) == ipc' = label /\ UNCHANGED error

Refuse(reason) == ipc' = "failed" /\ error' = reason

\* A system call that fails although the file system gives it no reason to:
\* permissions, limits, devices.
Fault(reason) ==
    /\ faults < MaxFaults
    /\ faults' = faults + 1
    /\ Refuse(reason)

NoFault == UNCHANGED faults

KeepFiles == UNCHANGED <<environment, created, truncated>>

\* Cancellation is looked at on entry and again at the end of prepare.
CheckCancellation(next) ==
    IF requested
    THEN ipc' = "cancelled" /\ error' = "CancelledBeforeStart"
    ELSE GoTo(next)

Enter ==
    /\ ipc = "entry"
    /\ CheckCancellation("statInput")
    /\ NoFault /\ KeepFiles
    /\ UNCHANGED <<path, stream, canonical, handle, nonblock, requested>>

\* ensure_regular_input; a run without a stdin file has nothing to look at.
StatInput ==
    /\ ipc = "statInput"
    /\ LET found == IF path["stdin"] = None THEN None ELSE Lookup(path["stdin"]) IN
       \/ /\ found = None /\ GoTo("normalize") /\ NoFault
       \/ /\ found \in Ordinary \cup Fresh /\ GoTo("openInput") /\ NoFault
       \/ /\ found \in Special /\ Refuse("NonRegularInputFile") /\ NoFault
       \/ /\ found \in {"absent", "orphan"} /\ Refuse("OpenInputFailed") /\ NoFault
       \/ /\ found # None /\ Fault("OpenInputFailed")
    /\ KeepFiles
    /\ UNCHANGED <<path, stream, canonical, handle, nonblock, requested>>

\* Mutant: the candidate is opened without O_NONBLOCK.
OpenBlocking(s, f) ==
    /\ f \notin Special
    /\ handle' = [handle EXCEPT ![s] = f]
    /\ UNCHANGED nonblock

\* open with O_NONBLOCK, which returns at once for a FIFO without a peer too.
Open(s, f) ==
    /\ handle' = [handle EXCEPT ![s] = f]
    /\ nonblock' = nonblock \cup {s}

\* open_input_candidate
OpenInput ==
    /\ ipc = "openInput"
    /\ LET found == Lookup(path["stdin"]) IN
       \/ /\ found \in File
          /\ Open("stdin", found)
          /\ GoTo("validateInput") /\ NoFault
       \/ /\ found \notin File
          /\ Refuse("OpenInputFailed") /\ NoFault
          /\ UNCHANGED <<handle, nonblock>>
       \/ /\ Fault("OpenInputFailed")
          /\ UNCHANGED <<handle, nonblock>>
    /\ KeepFiles
    /\ UNCHANGED <<path, stream, canonical, requested>>

\* Mutant: the handle is trusted because its path was a regular file.
TrustPath(s) == TRUE

\* ensure_regular_input_handle, ensure_regular_output_handle: fstat
IsRegularHandle(s) == handle[s] \notin Special

\* clear_nonblocking: fcntl
ClearNonblocking(s) == nonblock' = nonblock \ {s}

ValidateInput ==
    /\ ipc = "validateInput"
    /\ \/ /\ IsRegularHandle("stdin")
          /\ ClearNonblocking("stdin")
          /\ GoTo("normalize") /\ NoFault
       \/ /\ ~IsRegularHandle("stdin")
          /\ Refuse("NonRegularInputFile") /\ NoFault
          /\ UNCHANGED nonblock
       \/ /\ Fault("OpenInputFailed")
          /\ UNCHANGED nonblock
    /\ KeepFiles
    /\ UNCHANGED <<path, stream, canonical, handle, requested>>

CanonicalIfFound(p) == IF Lookup(p) \in File THEN link[p] ELSE "indeterminate"

\* normalized_path: the place p leads to when it exists; otherwise p in its
\* directory, or nothing to compare when there is no directory either.
Canonical(p) ==
    IF Lookup(p) \in File THEN link[p]
    ELSE IF link[p] = p /\ inode[p] = "orphan" THEN "indeterminate" ELSE p

\* The next stream in the order stdin, stdout, stderr, or else label.
Advance(label) ==
    IF stream = "stderr"
    THEN stream' = "stdout" /\ GoTo(label)
    ELSE stream' = (IF stream = "stdin" THEN "stdout" ELSE "stderr") /\ GoTo(ipc)

Normalize ==
    /\ ipc = "normalize"
    /\ \/ /\ path[stream] = None
          /\ UNCHANGED canonical
          /\ Advance("compare") /\ NoFault
       \/ /\ path[stream] # None
          /\ canonical' = [canonical EXCEPT ![stream] = Canonical(path[stream])]
          /\ Advance("compare") /\ NoFault
       \/ /\ path[stream] # None
          /\ Fault("InspectIoFileFailed")
          /\ UNCHANGED <<canonical, stream>>
    /\ KeepFiles
    /\ UNCHANGED <<path, handle, nonblock, requested>>

\* Two streams whose keys are the same and known.
Clash(key, s, t) ==
    /\ key[s] \notin {None, "indeterminate"}
    /\ key[s] = key[t]

\* Mutant: stdin is compared with stdout only.
RefuseFirstClash(key, next) ==
    IF Clash(key, "stdin", "stdout")
    THEN Refuse("InputOutputConflict")
    ELSE IF Clash(key, "stdout", "stderr")
         THEN Refuse("OutputFilesConflict")
         ELSE GoTo(next)

RefuseClash(key, next) ==
    IF \E s \in Output : Clash(key, "stdin", s)
    THEN Refuse("InputOutputConflict")
    ELSE IF Clash(key, "stdout", "stderr")
         THEN Refuse("OutputFilesConflict")
         ELSE GoTo(next)

\* The comparison at the end of validate_normalized_paths.
CompareNormalized ==
    /\ ipc = "compare"
    /\ RefuseClash(canonical, "statTarget")
    /\ NoFault /\ KeepFiles
    /\ UNCHANGED <<path, stream, canonical, handle, nonblock, requested>>

\* Where an accepted target leads: prepare looks at the next output, commit
\* opens this one.
TargetAccepted ==
    IF ipc \in Preparing
    THEN IF stream = "stdout"
         THEN stream' = "stderr" /\ GoTo("statTarget")
         ELSE stream' = "stdout" /\ GoTo("lastCheck")
    ELSE UNCHANGED stream /\ GoTo("openOutput")

\* ensure_regular_output, first call: stat.
StatOutput ==
    /\ ipc \in {"statTarget", "statOutput"}
    /\ LET found == IF path[stream] = None THEN None ELSE Lookup(path[stream]) IN
       \/ /\ found = None
          /\ NoFault
          /\ IF ipc = "statTarget" THEN TargetAccepted
             ELSE IF stream = "stdout"
                  THEN stream' = "stderr" /\ GoTo("statOutput")
                  ELSE stream' = "stdout" /\ GoTo("identify")
       \/ /\ found \in File \ Special
          /\ TargetAccepted /\ NoFault
       \/ /\ found \in Special
          /\ Refuse("NonRegularOutputFile") /\ NoFault /\ UNCHANGED stream
       \/ /\ found \in {"absent", "orphan"}
          /\ GoTo(IF ipc = "statTarget" THEN "lstatTarget" ELSE "lstatOutput")
          /\ NoFault /\ UNCHANGED stream
       \/ /\ found # None
          /\ Fault("InspectIoFileFailed") /\ UNCHANGED stream
    /\ KeepFiles
    /\ UNCHANGED <<path, canonical, handle, nonblock, requested>>

\* ensure_regular_output, second call: a name that does exist after stat found
\* nothing is a dangling link, or was created in between.
LstatOutput ==
    /\ ipc \in {"lstatTarget", "lstatOutput"}
    /\ LET p == path[stream]
           exists == link[p] # p \/ inode[p] \in File IN
       \/ /\ exists
          /\ Refuse("NonRegularOutputFile") /\ NoFault /\ UNCHANGED stream
       \/ /\ ~exists
          /\ TargetAccepted /\ NoFault
       \/ /\ Fault("InspectIoFileFailed") /\ UNCHANGED stream
    /\ KeepFiles
    /\ UNCHANGED <<path, canonical, handle, nonblock, requested>>

CheckAgain == CheckCancellation("statOutput")

\* run_with: the last point where a cancellation prevents the run.
LastCheck ==
    /\ ipc = "lastCheck"
    /\ CheckAgain
    /\ NoFault /\ KeepFiles
    /\ UNCHANGED <<path, stream, canonical, handle, nonblock, requested>>

\* Mutant: the file is truncated as it is opened.
TruncateOnOpen(f) == truncated' = truncated \cup {f}

LeaveContent(f) == UNCHANGED truncated

\* The file a missing name is bound to when it is opened with O_CREAT.
NewFile == CHOOSE f \in Fresh : f \notin created

\* open_output_candidate: create, write, do not truncate.  It follows a link
\* that dangles by now, and may fail on a special file.
OpenOutput ==
    /\ ipc = "openOutput"
    /\ LET found == Lookup(path[stream]) IN
       \/ /\ found \in File
          /\ Open(stream, found)
          /\ LeaveContent(found)
          /\ GoTo("validateOutput") /\ NoFault
          /\ UNCHANGED <<link, inode, created>>
       \/ /\ found = "absent"
          /\ Open(stream, NewFile)
          /\ LeaveContent(NewFile)
          /\ created' = created \cup {NewFile}
          /\ inode' = [inode EXCEPT ![link[path[stream]]] = NewFile]
          /\ GoTo("validateOutput") /\ NoFault
          /\ UNCHANGED link
       \/ /\ found \in Special \cup {"orphan"}
          /\ Refuse("OpenOutputFailed") /\ NoFault
          /\ UNCHANGED <<link, inode, created, truncated, handle, nonblock>>
       \/ /\ Fault("OpenOutputFailed")
          /\ UNCHANGED <<link, inode, created, truncated, handle, nonblock>>
    /\ UNCHANGED <<path, relinks, stream, canonical, requested>>

ValidateOutput ==
    /\ ipc = "validateOutput"
    /\ \/ /\ IsRegularHandle(stream)
          /\ ClearNonblocking(stream)
          /\ NoFault
          /\ IF stream = "stdout"
             THEN stream' = "stderr" /\ GoTo("statOutput")
             ELSE stream' = "stdout" /\ GoTo("identify")
       \/ /\ ~IsRegularHandle(stream)
          /\ Refuse("NonRegularOutputFile") /\ NoFault
          /\ UNCHANGED <<nonblock, stream>>
       \/ /\ Fault("OpenOutputFailed")
          /\ UNCHANGED <<nonblock, stream>>
    /\ KeepFiles
    /\ UNCHANGED <<path, canonical, handle, requested>>

\* validate_file_identities compares the open files, whatever their paths.
Identify ==
    /\ ipc = "identify"
    /\ \/ RefuseClash(handle, "truncate") /\ NoFault
       \/ Fault("InspectIoFileFailed")
    /\ KeepFiles
    /\ UNCHANGED <<path, stream, canonical, handle, nonblock, requested>>

\* truncate_outputs: stdout, then stderr; what was truncated stays so.
TruncateOutput ==
    /\ ipc = "truncate"
    /\ \/ /\ truncated' = truncated \cup ({handle[stream]} \ {None})
          /\ Advance("attach") /\ NoFault
       \/ /\ handle[stream] # None
          /\ \E reason \in {"InspectIoFileFailed", "OpenOutputFailed"} : Fault(reason)
          /\ UNCHANGED <<truncated, stream>>
    /\ UNCHANGED <<path, environment, created, canonical, handle, nonblock, requested>>

\* The end of commit: stdin goes to the child, the outputs to their readers.
Attach ==
    /\ ipc = "attach"
    /\ GoTo("ready")
    /\ NoFault /\ KeepFiles
    /\ UNCHANGED <<path, stream, canonical, handle, nonblock, requested>>

PrepareStep ==
    \/ Enter \/ StatInput \/ OpenInput \/ ValidateInput
    \/ Normalize \/ CompareNormalized \/ LastCheck

CommitStep == OpenOutput \/ ValidateOutput \/ Identify \/ TruncateOutput \/ Attach

RunStep == PrepareStep \/ CommitStep \/ StatOutput \/ LstatOutput

IoNext == RunStep \/ Relink \/ RequestCancellation

IoSpec == IoInit /\ [][IoNext]_ioVars

(***************************************************************************)
(* Properties.                                                             *)
(***************************************************************************)

\* The file the child reads is never emptied by the run, whatever names, hard
\* links and symbolic links lead to it and whenever they were made.
InputNeverTruncated == handle["stdin"] \notin truncated

\* Everything the run empties or hands out is a regular file, what it hands out
\* blocks as the child and the readers expect, and the two tees of a run that
\* may start are different files.
HandedOutFilesAreSafe ==
    /\ truncated \cap Special = {}
    /\ ipc = "ready" => /\ ~Clash(handle, "stdout", "stderr")
                        /\ \A s \in Stream : handle[s] \notin Special
                        /\ nonblock = {}
                        /\ \A s \in Stream : path[s] # None => handle[s] # None

\* A run refused because of what its files are, or because they cannot be
\* opened, empties none of them: only a failing truncation finds one emptied.
RefusalEmptiesNothing ==
    /\ error \in Reasons \ {"OpenOutputFailed", "InspectIoFileFailed"} => truncated = {}
    /\ error # None /\ truncated # {} =>
          /\ path["stdout"] # None /\ path["stderr"] # None
          /\ truncated = {handle["stdout"]}

\* Paths that lead to one place are refused before anything is created, as
\* long as no other program changes where they lead.
AliasesRefusedEarly ==
    /\ relinks = 0
    /\ \E s, t \in Stream :
          /\ s # t /\ path[s] # None /\ path[t] # None
          /\ link[path[s]] = link[path[t]]
    => ipc # "ready" /\ created = {} /\ truncated = {}

\* The run never waits for another process to get at its files, FIFOs without a
\* peer included: each of its calls can return without failing.
NeverBlocked == ipc \notin Ended => ENABLED (RunStep /\ NoFault)
=============================================================================
