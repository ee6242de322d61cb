--------------------------- MODULE FailureReport ---------------------------
(***************************************************************************)
(* How what went wrong becomes one CommandError: the primary reason, the   *)
(* output that comes with it and the cleanup failures, collected from the  *)
(* terminator, the helpers and the clock (stop_and_finalize, complete and  *)
(* abort; collect_output_results, the methods of command_error.rs and      *)
(* stop_reason.rs).                                                        *)
(*                                                                         *)
(* An initial state is one history of a run that is about to report: what  *)
(* each stage ended with.  The one step of the run builds its result.      *)
(* A failure is the part of the run it happened at and what failed there;  *)
(* an output is, for each stream, where its bytes were taken from.         *)
(***************************************************************************)
EXTENDS Optional, SequencesExt

CONSTANTS
    ProcessFailures, \* what the terminator may report, in the order it does
    ReaderEnds,      \* how a reader may end
    Reasons          \* the reasons a run may be stopped for

StopCondition == {"TimedOut", "Cancelled", "OutputLimitExceeded"}

OutputStream == {"stdout", "stderr"}

\* The stages of a run in the order in which their failures are reported.
Stages == <<"tree", "child", "wait", "time", "stdout", "stderr", "stdin">>

Failure(at, what) == [at |-> at, what |-> what]

\* What may fail at a stage, and where a run may fail otherwise.
What == {"kill", "check", "last", "elapsed", "read", "write", "cancel"}

Failures == [at : ToSet(Stages) \cup {"run"},
             what : What \cup Reasons \cup {"stop", "StartFailed"}]

\* terminate fails to kill, in an exit check or in the last check or wait.
ProcessFailure == [at : {"tree", "child", "wait"}, what : {"kill", "check", "last"}]

\* Output is taken from a joined reader, or from a snapshot of the budget.
Output == [OutputStream -> {"joined", "snapshot", "early"}]

ReaderEnd == {"ok", "read", "write", "readAfterWrite", "detached"}

\* Each step of terminate fails once.
ASSUME ReportAssumption ==
    /\ ProcessFailures \subseteq Seq(ProcessFailure)
    /\ \A failures \in ProcessFailures : IsInjective(failures)
    /\ ReaderEnds \subseteq ReaderEnd
    /\ Reasons \subseteq StopCondition \cup {"WaitFailed", "TimeFailed"}
    /\ None \notin ReaderEnd \cup StopCondition /\ None \notin Output /\ None \notin Failures

VARIABLES
    path,       \* "complete", "abort" or "stop"
    reason,     \* the StopReason, or the error that aborted the start
    statusSeen, \* the stop reason carries an exit status
    terminated, \* terminate returned a status
    process,    \* the terminator's cleanup failures
    reader,     \* how each reader ended: a member of ReaderEnds, or None
    cancelFail, \* helpers whose cancellation failure is retained
    writer,     \* how the stdin writer ended: "ok", "failed", "detached"
    clockFails, \* reading the elapsed time fails
    result      \* what the run returned

historyVars == <<path, reason, statusSeen, terminated, process, reader, cancelFail,
                 writer, clockFails>>
reportVars == <<historyVars, result>>

\* A helper that was let go has its cancellation failure retained.
HelpersAreConsistent ==
    /\ \A s \in OutputStream : reader[s] = "detached" => s \in cancelFail
    /\ \A s \in OutputStream : reader[s] = None => s \notin cancelFail
    /\ writer = "detached" => "stdin" \in cancelFail

\* terminate fails when the last exit check or the wait fails, or when neither
\* kill was accepted; a status seen before leaves only the tree to be killed.
TerminatorIsConsistent ==
    LET last == IF process = <<>> THEN Failure("tree", "none")
                ELSE process[Len(process)]
    IN  /\ ~terminated => last.at = "child" \/ last = Failure("wait", "last")
        /\ terminated => last # Failure("wait", "last")
        /\ statusSeen => terminated /\ Len(process) <= 1 /\ last.at = "tree"

\* A run with a stop condition has a managed tree.
TreeIsKilledFirst ==
    \A i \in DOMAIN process : process[i].at = "child" => process[1].at = "tree"

ReportInit ==
    /\ path \in {"complete", "abort", "stop"}
    /\ process \in ProcessFailures
    /\ reader \in [OutputStream -> ReaderEnds \cup {None}]
    /\ cancelFail \in SUBSET (OutputStream \cup {"stdin"})
    /\ writer \in {"ok", "failed", "detached"}
    /\ clockFails \in BOOLEAN
    /\ statusSeen \in BOOLEAN
    /\ terminated \in BOOLEAN
    /\ HelpersAreConsistent /\ TerminatorIsConsistent
    /\ \/ /\ path = "complete"
          /\ reason = None /\ statusSeen /\ terminated /\ process = <<>>
          /\ cancelFail = {}
          /\ \A s \in OutputStream : reader[s] # None
       \/ /\ path = "abort"
          /\ reason = "StartFailed" /\ ~statusSeen /\ ~clockFails
          /\ reader["stderr"] # None => reader["stdout"] # None
       \/ /\ path = "stop"
          /\ reason \in Reasons
          /\ reason = "WaitFailed" => ~statusSeen
          /\ reason \in StopCondition => TreeIsKilledFirst
          /\ \A s \in OutputStream : reader[s] # None
    /\ result = None

(***************************************************************************)
(* Outputs and errors as values (command_error.rs).                        *)
(***************************************************************************)

\* An output taken from the joined readers, or snapshots of the others.
HelperOutput ==
    [s \in OutputStream |-> IF reader[s] = "detached" THEN "snapshot" ELSE "joined"]

\* A snapshot of the budget taken while the readers run.
EarlySnapshot == [s \in OutputStream |-> "early"]

FromReason(why, output) ==
    [reason |-> why, output |-> output, captured |-> None, cleanup |-> <<>>]

ASSUME SuccessAssumption == \A output \in Output : None # FromReason(None, output)

\* Mutant: each stage is appended as it comes.
AppendUnsorted(error, failures) == [error EXCEPT !.cleanup = @ \o failures]

CleanupFailureRank(f) == CHOOSE rank \in DOMAIN Stages : Stages[rank] = f.at

\* sort_by_key(cleanup_failure_rank), which is stable: the place of a failure is
\* the number of those of lower rank and of its own rank up to itself.
SortByRank(failures) ==
    LET Rank(i) == CleanupFailureRank(failures[i])
        UpTo(i) == {j \in DOMAIN failures :
                        Rank(j) < Rank(i) \/ (Rank(j) = Rank(i) /\ j <= i)}
    IN  [place \in DOMAIN failures |->
            failures[CHOOSE i \in DOMAIN failures : Cardinality(UpTo(i)) = place]]

WithCleanupFailures(error, failures) ==
    [error EXCEPT !.cleanup = SortByRank(@ \o failures)]

WithCapturedOutput(error, output) == [error EXCEPT !.captured = output]

TakeCapturedOutput(error) ==
    IF error.output # None THEN error.output ELSE error.captured

\* primary_cleanup_failure: the reasons that exist as cleanup failures too.
Demoted(why) ==
    IF why = None THEN <<>>
    ELSE IF why.at \in {"time", "stdout", "stderr", "stdin"} THEN <<why>> ELSE <<>>

DemotedAlone(error) == Demoted(error.reason)

IntoCleanupFailures(error) == Demoted(error.reason) \o error.cleanup

\* Mutant: only the output of an error with a CommandOutput is taken over.
TakeOverOutputOnly(error, final) ==
    WithCleanupFailures([error EXCEPT !.output = final.output],
                        IntoCleanupFailures(final))

WithFinalizationError(error, final) ==
    WithCleanupFailures(
        IF error.output = None /\ error.captured = None
        THEN WithCapturedOutput([error EXCEPT !.output = final.output], final.captured)
        ELSE error,
        IntoCleanupFailures(final))

(***************************************************************************)
(* Failures of the helpers.                                                *)
(***************************************************************************)

\* split_output_result: a tee fails before the read that ends the stream.
ReaderFailures(s) ==
    CASE reader[s] = "read"           -> <<Failure(s, "read")>>
      [] reader[s] = "write"          -> <<Failure(s, "write")>>
      [] reader[s] = "readAfterWrite" -> <<Failure(s, "write"), Failure(s, "read")>>
      [] OTHER                        -> <<>>

WriterFailures == IF writer = "failed" THEN <<Failure("stdin", "write")>> ELSE <<>>

CancellationFailures(h) ==
    IF h \in cancelFail THEN <<Failure(h, "cancel")>> ELSE <<>>

HelperFailures ==
    ReaderFailures("stdout") \o ReaderFailures("stderr") \o WriterFailures

AllCancellationFailures ==
    CancellationFailures("stdout") \o CancellationFailures("stderr")
        \o CancellationFailures("stdin")

\* push_stdout_failures, push_stderr_failures, push_stdin_failures
PushedFailures ==
    ((ReaderFailures("stdout") \o CancellationFailures("stdout"))
        \o (ReaderFailures("stderr") \o CancellationFailures("stderr")))
        \o (WriterFailures \o CancellationFailures("stdin"))

ClockFailure == Failure("time", "elapsed")

\* A result without a reason: the CommandOutput of a successful run.
Ok == FromReason(None, HelperOutput)

\* collect_output_results: the first of a clock, stdout, stderr or stdin failure
\* is the reason, the others come with it.  Without an elapsed time there is no
\* CommandOutput, only what was captured.
CollectOutputResults ==
    IF clockFails
    THEN WithCleanupFailures(
             WithCapturedOutput(FromReason(ClockFailure, None), HelperOutput),
             HelperFailures)
    ELSE IF HelperFailures = <<>> THEN Ok
         ELSE WithCleanupFailures(FromReason(Head(HelperFailures), HelperOutput),
                                  Tail(HelperFailures))

(***************************************************************************)
(* The ends of a run.                                                      *)
(***************************************************************************)

\* The reason of a stop as the primary error has it.
PrimaryReason ==
    CASE reason = "WaitFailed" -> Failure("wait", "stop")
      [] reason = "TimeFailed" -> Failure("time", "stop")
      [] OTHER -> Failure("run", reason)

RetainsOutput ==
    reason \in StopCondition \/ (reason = "TimeFailed" /\ statusSeen)

\* complete, after the child's exit and with every helper joined.
Complete ==
    /\ path = "complete"
    /\ result' = CollectOutputResults

\* StartingCommand::abort
Abort ==
    /\ path = "abort"
    /\ result' = WithCleanupFailures(FromReason(PrimaryReason, None),
                                     process \o PushedFailures)

\* terminate failed: the child may be running.
StopUnterminated ==
    /\ path = "stop" /\ ~terminated
    /\ LET primary == WithCleanupFailures(FromReason(PrimaryReason, None), process)
           error == IF reason = "OutputLimitExceeded"
                    THEN WithCapturedOutput(primary, EarlySnapshot)
                    ELSE primary
       IN result' = WithCleanupFailures(error, PushedFailures)

\* The child is dead, but the run has no output to report: finish_without_status.
StopWithoutOutput ==
    /\ path = "stop" /\ terminated /\ ~RetainsOutput
    /\ result' = WithCleanupFailures(
                     WithCleanupFailures(FromReason(PrimaryReason, None), process),
                     PushedFailures)

\* Mutant: the limit's error keeps the CommandOutput, too.
LimitErrorWithOutput(final) ==
    WithCapturedOutput(FromReason(PrimaryReason, final.output), TakeCapturedOutput(final))

\* The limit's error carries what was captured and never a CommandOutput.
LimitError(final) ==
    WithCapturedOutput(FromReason(PrimaryReason, None), TakeCapturedOutput(final))

\* Mutant: an error while finalizing replaces the reason for stopping.
FinalErrorWins(final) ==
    IF final = Ok THEN FromReason(PrimaryReason, HelperOutput) ELSE final

\* into_primary_error, or into_error_after_finalize
StopError(final) ==
    IF final = Ok THEN FromReason(PrimaryReason, HelperOutput)
    ELSE WithFinalizationError(FromReason(PrimaryReason, None), final)

\* The child is dead and the helpers were cancelled and collected.
StopWithOutput ==
    /\ path = "stop" /\ terminated /\ RetainsOutput
    /\ LET final == CollectOutputResults
           WithCleanup(error) ==
               WithCleanupFailures(WithCleanupFailures(error, process),
                                   AllCancellationFailures)
       IN result' = IF reason = "OutputLimitExceeded"
                    THEN WithCleanupFailures(WithCleanup(LimitError(final)),
                                             IntoCleanupFailures(final))
                    ELSE WithCleanup(StopError(final))

ReportNext ==
    /\ result = None
    /\ \/ Complete \/ Abort
       \/ StopUnterminated \/ StopWithoutOutput \/ StopWithOutput
    /\ UNCHANGED historyVars

ReportSpec == ReportInit /\ [][ReportNext]_reportVars

(***************************************************************************)
(* Properties.                                                             *)
(***************************************************************************)

IsError == result # None /\ result # Ok

OutputValue == {None} \cup Output

ReportTypeOK ==
    IsError => /\ result.output \in OutputValue /\ result.captured \in OutputValue
               /\ \A i \in DOMAIN result.cleanup : result.cleanup[i] \in Failures

\* The clock is read only when an output is assembled.
ClockIsRead == path = "complete" \/ (path = "stop" /\ terminated /\ RetainsOutput)

\* What happened, read off the history without any of the operators above.
Happened ==
    ToSet(process)
        \cup {Failure(h, "cancel") : h \in cancelFail}
        \cup {Failure(s, "read") : s \in
                 {t \in OutputStream : reader[t] \in {"read", "readAfterWrite"}}}
        \cup {Failure(s, "write") : s \in
                 {t \in OutputStream : reader[t] \in {"write", "readAfterWrite"}}}
        \cup (IF writer = "failed" THEN {Failure("stdin", "write")} ELSE {})
        \cup (IF clockFails /\ ClockIsRead THEN {Failure("time", "elapsed")} ELSE {})

Occurrences(f) ==
    Cardinality({i \in DOMAIN result.cleanup : result.cleanup[i] = f})
        + (IF result.reason = f THEN 1 ELSE 0)

\* Whatever combination of terminator, helpers and clock fails, each failure
\* is in the error exactly once, as its reason or as a cleanup failure, and
\* nothing else is; a run in which something failed is never a success.
EveryFailureReportedOnce ==
    /\ result = Ok => Happened = {}
    /\ IsError => /\ \A f \in Happened : Occurrences(f) = 1
                  /\ ToSet(result.cleanup) \subseteq Happened

\* Cleanup failures are listed by stage although they are gathered in another
\* order, and a tee that failed before its stream did is listed before it.
CleanupFailuresInOrder ==
    IsError =>
        \A i, j \in DOMAIN result.cleanup : i < j =>
            /\ CleanupFailureRank(result.cleanup[i]) <= CleanupFailureRank(result.cleanup[j])
            /\ ~ \E s \in OutputStream : /\ result.cleanup[i] = Failure(s, "read")
                                         /\ result.cleanup[j] = Failure(s, "write")

\* Whatever fails while the run is being stopped, the caller is told why it was
\* stopped; without a stop, the earliest stage that failed is the reason.
ReasonIsWhyRunEnded ==
    IsError =>
        IF path # "complete" THEN result.reason = PrimaryReason
        ELSE \A i \in DOMAIN result.cleanup :
                CleanupFailureRank(result.reason) <= CleanupFailureRank(result.cleanup[i])

\* Output that was collected is handed out, also when an error met on the way
\* is demoted; an exceeded limit hands out captured output only.
CollectedOutputSurvives ==
    IsError =>
        /\ ClockIsRead => TakeCapturedOutput(result) = HelperOutput
        /\ reason = "OutputLimitExceeded" => /\ result.output = None
                                             /\ result.captured # None

\* "A normal join returns the reader's output as the authority for that stream.
\* A budget snapshot is used only for streams whose helper result could not be
\* joined" (doc/design.md, Error Precedence).
SnapshotOnlyIfNotJoined ==
    IsError /\ TakeCapturedOutput(result) # None =>
        \A s \in OutputStream :
            reader[s] # "detached" => TakeCapturedOutput(result)[s] = "joined"
=============================================================================
