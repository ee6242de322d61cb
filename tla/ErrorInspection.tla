-------------------------- MODULE ErrorInspection --------------------------
(***************************************************************************)
(* What a caller can read from the outcome of a run: its kind, the source  *)
(* of its reason, exit code, the sources of a failed termination, what its *)
(* message mentions, and what the debug texts of a reason and of a cleanup *)
(* failure mention (command_error.rs, command_error_reason.rs,             *)
(* command_cleanup_failure.rs).                                            *)
(*                                                                         *)
(* FailureReport builds the result of the monitor; run_with classifies it. *)
(* A text is the set of fields it mentions: wording, the summary of a      *)
(* source and the placeholder of a path are left out.                      *)
(***************************************************************************)
EXTENDS FailureReport

CONSTANTS
    Statuses,   \* exit statuses of the child
    Expected    \* exit codes that are a success

ASSUME InspectionAssumption ==
    \* An exit status has a code or a signal.
    /\ \A s \in Statuses : (s.code = None) # (s.signal = None)
    /\ None \notin Expected

VARIABLES
    status,     \* the exit status, if the child terminated
    truncated,  \* a stream lost output and this is a failure
    outcome     \* what run_with returned

inspectionVars == <<reportVars, status, truncated, outcome>>

\* Reasons of errors before the child is spawned, and of those that abort a
\* start.
PreparationKinds ==
    {"SpawnFailed", "CancelledBeforeStart", "OpenInputFailed", "NonRegularInputFile",
     "OpenOutputFailed", "NonRegularOutputFile", "InputOutputConflict",
     "OutputFilesConflict", "InspectIoFileFailed"}

AbortKinds ==
    {"TimeFailed", "StartInputThreadFailed", "StartOutputThreadFailed", "ReadOutputFailed"}

InspectionInit ==
    /\ ReportInit
    /\ status \in Statuses
    /\ truncated \in BOOLEAN
    /\ outcome = None

Returns(value) ==
    /\ outcome = None
    /\ outcome' = value
    /\ UNCHANGED <<historyVars, status, truncated>>

\* Nothing was started.
Refuse ==
    /\ path = "abort" /\ result = None
    /\ process = <<>> /\ cancelFail = {} /\ writer = "ok"
    /\ \A s \in OutputStream : reader[s] = None
    /\ \E kind \in PreparationKinds :
         Returns(FromReason(Failure("start", kind), None))
    /\ UNCHANGED result

ReturnError ==
    /\ result \notin {None, Ok}
    /\ IF path = "abort"
       THEN \E kind \in AbortKinds :
              Returns([result EXCEPT !.reason = Failure("start", kind)])
       ELSE Returns(result)
    /\ UNCHANGED result

UnexpectedExit == [at |-> "run", what |-> "UnexpectedExit", code |-> status.code]

\* Mutant: the error does not carry the output.
UnexpectedExitAlone == FromReason(UnexpectedExit, None)

\* The error of an unexpected exit has the exit code in its reason, too.
UnexpectedExitError == FromReason(UnexpectedExit, HelperOutput)

\* Every helper returned well: the exit code decides, then truncation.
Classify ==
    /\ result = Ok
    /\ Returns(IF status.code \notin Expected THEN UnexpectedExitError
               ELSE IF truncated THEN FromReason(Failure("run", "OutputTruncated"),
                                                 HelperOutput)
               ELSE Ok)
    /\ UNCHANGED result

InspectionNext ==
    \/ ReportNext /\ UNCHANGED <<status, truncated, outcome>>
    \/ Refuse \/ ReturnError \/ Classify

InspectionSpec == InspectionInit /\ [][InspectionNext]_inspectionVars

(***************************************************************************)
(* Reading an error.                                                       *)
(***************************************************************************)

\* kind(), for the reasons of this model.
KindOf(why) ==
    CASE why.at = "wait" -> "WaitFailed"
      [] why.at = "time" -> "TimeFailed"
      [] why.at = "stdin" -> "WriteInputFailed"
      [] why.at \in OutputStream /\ why.what = "read" -> "ReadOutputFailed"
      [] why.at \in OutputStream /\ why.what = "write" -> "WriteOutputFailed"
      [] OTHER -> why.what

\* Mutant: stdin is forgotten.
HasSourceButStdin(kind) ==
    kind \in {"SpawnFailed", "WaitFailed", "ReadOutputFailed", "OpenInputFailed",
              "OpenOutputFailed", "InspectIoFileFailed", "StartInputThreadFailed",
              "StartOutputThreadFailed", "WriteOutputFailed", "TimeFailed"}

\* The kinds for which Error::source returns what the reason stores.
HasSource(kind) ==
    kind \in {"SpawnFailed", "WaitFailed", "ReadOutputFailed", "OpenInputFailed",
              "OpenOutputFailed", "InspectIoFileFailed", "StartInputThreadFailed",
              "StartOutputThreadFailed", "WriteInputFailed", "WriteOutputFailed",
              "TimeFailed"}

Source(error) == IF HasSource(KindOf(error.reason)) THEN error.reason ELSE None

\* Mutant: only the first cleanup failure is looked at.
HeadAt(error, stage) ==
    IF error.cleanup # <<>> /\ Head(error.cleanup).at = stage THEN Head(error.cleanup) ELSE None

\* The first cleanup failure of a stage, or None.
FirstAt(error, stage) ==
    LET found == {i \in DOMAIN error.cleanup : error.cleanup[i].at = stage}
    IN  IF found = {} THEN None
        ELSE error.cleanup[CHOOSE i \in found : \A j \in found : i <= j]

ProcessTreeSource(error) == FirstAt(error, "tree")

ChildSource(error) == FirstAt(error, "child")

\* exit_code()
ExitCode(error) ==
    IF KindOf(error.reason) = "UnexpectedExit" THEN error.reason.code
    ELSE IF error.output # None THEN status.code ELSE None

\* unexpected_exit_detail on unix; on windows there are no signals.
UnexpectedExitDetail(error) ==
    IF error.output # None /\ status.signal # None THEN <<"signal", status.signal>>
    ELSE <<"code", error.reason.code>>

\* What Debug of CommandErrorReason shows besides the name.
DebugFields(kind) ==
    CASE kind \in {"SpawnFailed", "WaitFailed", "StartInputThreadFailed", "TimeFailed",
                   "WriteInputFailed"} -> {"source"}
      [] kind \in {"ReadOutputFailed", "StartOutputThreadFailed"} -> {"stream", "source"}
      [] kind \in {"OpenInputFailed", "InspectIoFileFailed"} -> {"path", "source"}
      [] kind = "NonRegularInputFile" -> {"path"}
      [] kind \in {"OpenOutputFailed", "WriteOutputFailed"} -> {"stream", "path", "source"}
      [] kind = "NonRegularOutputFile" -> {"stream", "path"}
      [] kind = "InputOutputConflict" -> {"path", "stream"}
      [] kind = "OutputFilesConflict" -> {"path"}
      [] kind = "TimedOut" -> {"timeout"}
      [] kind = "OutputLimitExceeded" -> {"limit", "observed"}
      [] kind = "UnexpectedExit" -> {"exit", "expected"}
      [] OTHER -> {}

\* Mutant: the stream is left out where the path is named.
MessageWithoutStream(kind) == DebugFields(kind) \ {"stream"}

\* What the message of an error says of its reason.
MessageFields(kind) ==
    CASE kind \in {"SpawnFailed", "WaitFailed", "StartInputThreadFailed", "TimeFailed",
                   "WriteInputFailed"} -> {"source"}
      [] kind \in {"ReadOutputFailed", "StartOutputThreadFailed"} -> {"stream", "source"}
      [] kind \in {"OpenInputFailed", "InspectIoFileFailed"} -> {"path", "source"}
      [] kind \in {"NonRegularInputFile", "OutputFilesConflict"} -> {"path"}
      [] kind \in {"NonRegularOutputFile", "InputOutputConflict"} -> {"stream", "path"}
      [] kind \in {"OpenOutputFailed", "WriteOutputFailed"} -> {"stream", "path", "source"}
      [] kind = "TimedOut" -> {"timeout"}
      [] kind = "OutputLimitExceeded" -> {"limit", "observed"}
      [] kind = "UnexpectedExit" -> {"exit", "expected"}
      [] OTHER -> {}

\* Mutant: cleanup failures of processes are not counted.
HelperFailuresOnly(error) ==
    Len(SelectSeq(error.cleanup, LAMBDA f : f.at \notin {"tree", "child"}))

\* The number of cleanup failures at the end of the message, if any.
MessageCount(error) == Len(error.cleanup)

\* What Debug of CommandCleanupFailure shows besides the name, which tells
\* the stage.
CleanupFields(failure) ==
    IF failure.at \in OutputStream /\ failure.what = "write" THEN {"path", "source"}
    ELSE {"source"}

(***************************************************************************)
(* Properties.                                                             *)
(***************************************************************************)

Failed == outcome \notin {None, Ok}

Kinds == PreparationKinds \cup AbortKinds \cup StopCondition
            \cup {"WaitFailed", "WriteInputFailed", "WriteOutputFailed",
                  "OutputTruncated", "UnexpectedExit"}

\* Types of an error and of what is read from it.
InspectionTypeOK ==
    Failed => /\ KindOf(outcome.reason) \in Kinds
              /\ outcome.output \in OutputValue /\ outcome.captured \in OutputValue
              /\ ExitCode(outcome) \in {s.code : s \in Statuses} \cup {None}

\* Wherever a system call, a helper or the clock failed, the caller can get at
\* its error: it is the source of the reason or one of the cleanup failures,
\* even after it was demoted from being the reason.
EverySourceReachable ==
    Failed => \A f \in Happened : f \in {Source(outcome)} \cup ToSet(outcome.cleanup)

\* The number of cleanup failures that a message announces is that of the
\* failures which are not its reason.
MessageCountsFailures ==
    Failed => MessageCount(outcome) = Cardinality(Happened \ {outcome.reason})

\* An error after which the child may still run has no exit code, and
\* child_source() or a failed wait tells why; process_tree_source() tells of a
\* tree that was not killed, whatever else was collected before or after it.
SurvivorIsTold ==
    Failed =>
        /\ ~terminated => /\ ExitCode(outcome) = None
                          /\ ChildSource(outcome) # None \/ FirstAt(outcome, "wait") # None
        /\ ProcessTreeSource(outcome) # None
               <=> \E i \in DOMAIN process : process[i].at = "tree"

\* The message of an unexpected exit gives the code or the signal the child
\* ended with, never neither, although the code is stored in the reason and
\* the signal is found in the output only.
UnexpectedExitIsExplained ==
    Failed /\ KindOf(outcome.reason) = "UnexpectedExit" =>
        UnexpectedExitDetail(outcome) =
            IF status.code # None THEN <<"code", status.code>>
            ELSE <<"signal", status.signal>>

\* An error has one carrier of output at most, so that captured_output(), which
\* prefers one of them, hides nothing, and into_output(), which drops the
\* other, loses nothing.
OneCarrier == Failed => outcome.output = None \/ outcome.captured = None

\* The message of an error and the debug text of its reason, written apart for
\* every kind, mention the same; a failure that was demoted still mentions what
\* it did as the reason, the stream being part of its name.
TextsAgree ==
    Failed =>
        /\ MessageFields(KindOf(outcome.reason)) = DebugFields(KindOf(outcome.reason))
        /\ \A i \in DOMAIN outcome.cleanup :
             Demoted(outcome.cleanup[i]) # <<>> /\ outcome.cleanup[i].what # "cancel" =>
                 CleanupFields(outcome.cleanup[i]) =
                     DebugFields(KindOf(outcome.cleanup[i])) \ {"stream"}

\* The error a caller gets tells of everything that failed once, in order, under
\* the reason the run ended for.
ErrorIsTrue ==
    EveryFailureReportedOnce /\ CleanupFailuresInOrder /\ ReasonIsWhyRunEnded

\* Output that was collected can be taken out of the error, in one place.
OutputSurvives == CollectedOutputSurvives /\ OneCarrier

\* Sources, message and debug texts leave out nothing of an error.
NothingIsHidden == EverySourceReachable /\ MessageCountsFailures /\ TextsAgree

\* How the child ended, or that it may not have ended, can be read off an error.
FateOfChildIsTold == SurvivorIsTold /\ UnexpectedExitIsExplained
=============================================================================
