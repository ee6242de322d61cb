# A TLA+ model of `qubit-command`

This directory models what happens when the library runs an external command:
how the command is described, how files and helper threads are set up, the threads
that feed and drain the child and the budget they share, the way they are
cancelled, the termination of the process tree, the monitor that decides how a run
ends, and the result the caller gets to see. It is written against the code in
`src/src`; paths below are relative to that directory, and `internal/` stands for
`command_runner/internal/`.

## The system

`CommandRunner::run_with` prepares files, spawns the child, starts up to three
helper threads and then polls, from the calling thread, until the run ends.

| Component | State | Operations | Talks to |
|---|---|---|---|
| Combined output budget (`internal/total_output_budget.rs`) | bytes used, `exceeded`, `halted`, per stream: retained bytes, `truncated`, `complete`, `transferred`; one mutex | `read_ready`, `exceeded`, `is_halted`, `mark_complete`, `captured_*`, `take_captured_stream` | both readers, the monitor, the owner of the run |
| Output readers (`internal/output_collector.rs`, `output_reader.rs`) | one thread per stream: buffer, local bytes, tee, pending tee error | read loop, tee, flush; owner: `cancel`, `join`, `detached_output` | pipe, tee file, budget, cancellation |
| I/O cancellation (`internal/io_cancellation*.rs`, `cancel.rs`) | a flag; on unix a socket pair, on windows the thread handle | `cancel`, `is_cancelled`, `wait_for_fd`, `CancelSynchronousIo` | helper threads, owner |
| Stdin writer (`internal/stdin_pipe.rs`, `stdin_writer.rs`) | a thread and the bytes left to write | chunked write, cancel, join | pipe, cancellation |
| Process terminator (`internal/process_terminator.rs`) | the child, failures so far | kill tree, kill child, bounded exit checks, wait | operating system |
| Helper finalization (`internal/command_io.rs`) | the helpers, one deadline | cancel all, join or let go each, report | helpers |
| Monitor and stop pipeline (`internal/running_command.rs`, `run_event.rs`, `stop_reason.rs`) | child, helpers, start time, options | poll the child, poll the helpers, stop and finalize, complete | all of the above, the clock, the caller's cancellation handle |
| Start-up (`command_runner.rs`, `internal/starting_command.rs`, `prepared_command.rs`) | what has been started so far | prepare, commit, spawn, start helpers, abort | files, terminator, finalization |
| File preparation (`internal/io_files.rs`) | open files and their identities | open, compare, truncate | file system |
| Result assembly (`internal/output_collector.rs`, `command_error.rs`) | none | choose the primary error, demote and order the others | monitor |
| Polling intervals (`internal/wait_policy.rs`) | none | next interval, capped by the remaining timeout | monitor, windows readers |
| Command builder (`command.rs`, `internal/process_setup.rs`) | program, arguments, assignments and removals of variables | builder calls, configuration of the process, what diagnostics show | the caller, start-up |
| Runner settings and verdict (`command_runner.rs`) | caps, truncation policy, expected exit codes, limits | setters, classification of a finished run | the caller, result assembly |
| Outputs and errors as values (`command_error.rs`, `command_error_reason.rs`, `command_cleanup_failure.rs`, `command_output.rs`) | plain values | accessors, `Display`, `Debug`, decoding, redaction | the caller |
| Run options, cancellation handle (`command_run_options.rs`, `command_cancellation*.rs`) | tee paths, a shared flag | `cancel`, `is_cancelled` | the caller, start-up, monitor |

What makes the run hard to get right: two readers compete for one budget and must
stop within one byte of the limit; a read of zero bytes has two meanings; a
cancellation may arrive between any two steps of a thread that blocks in system
calls; a descendant can hold a pipe open for ever; the child can exit while it is
being killed; every step of the cleanup may fail while an error is already being
reported; and the result must still be true.

## Modules

| Module | Models | How |
|---|---|---|
| `Optional` | `Option::None` | one constant |
| `OutputBudget` | the budget | every operator is one critical section of the mutex, from a state record to a state record; no variables |
| `OutputReaders` | both reader threads, their cancellation, the owner's calls | `pc[s]` is the place in `read_output_inner`; an action is one system call or one critical section and the branching after it; `wakeup` is the unix socket, `aborted` the windows abort of the pending call; `setup`, which no step changes, says whether the platform is unix or windows and whether there is a budget |
| `StdinWriter` | the thread that writes configured bytes, its owner, the pipe and the child's end of it | `wpc` is the place in `write_stdin_until_cancelled`; a write takes some of what it was offered; on windows it may be aborted, after moving bytes that nobody counts |
| `ProcessTerminator` | `terminate`, `finish_wait` | `tpc` is the place in the function, one action per system call; the processes are the environment |
| `HelperFinalization` | `finish_helpers_with_wait` | `turn` is the helper being treated, first to cancel, then to finish; `left` is what remains of the shared deadline |
| `RunningCommand` | `wait_for_completion` and everything it calls | extends the last two; `rpc` is the place in the monitor, `loop` whether it polls the child or the helpers; the actions of the terminator and of the finalization are embedded as the steps of `stop_and_finalize` |
| `HelperContract` | what a run may take a helper thread for | each returns once, with an error or without; the limit is passed by a reader that has not returned, once; no order between them |
| `RunContract` | what a run promises | an abstract specification of five variables that `RunningCommand` implements |
| `IoFiles` | `prepare`, `commit` and the cancellation checks around `prepare` | `ipc` is the system call that comes next; `link` and `inode` are the file system, which other programs change between any two calls; `handle` and `nonblock` are what the run has open |
| `StartingCommand` | `run_with` up to the hand-over, the guard's `abort` | extends terminator and finalization; `spc` is the step that comes next, each of which may fail; a failure runs their actions as the cleanup |
| `WaitPolicy` | the interval table and the two polling loops | a clock of milliseconds; a sleep has its length, polling takes no time |
| `FailureReport` | `stop_and_finalize`, `complete`, `abort` as builders of a result; `collect_output_results` and the demotion of errors | an initial state is what each stage of a run ended with, one step builds the result from it |
| `ErrorInspection` | the rest of `run_with`, and what the accessors and texts of an error give | extends `FailureReport`; a text is the set of fields it mentions |
| `EnvironmentContract` | what the environment methods promise | every call acts at once on the inherited environment |
| `CommandBuilder` | the builder, `configure_environment`, which arguments are marked secret | keeps the lists the code keeps; the environment is computed from them as the process is configured; implements `EnvironmentContract` |
| `CommandRunner` | the settings and the verdict on a finished run | any calls of the setters in any order, then one run |
| `MC...` | | constants for the runs |
| `OutputReadersProofs`, `StdinWriterProofs`, `IoFilesProofs`, `StartingCommandProofs`, `RunningCommandProofs`, `ErrorInspectionProofs` | | theorems about the module they are named after |
| `StoppingProofs` | | theorems about `ProcessTerminator` and `HelperFinalization`, which the proofs about `StartingCommand` and `RunningCommand` extend |
| `CallerProofs` | | theorems about `CommandBuilder`, `CommandRunner` and `WaitPolicy` |

How they fit together. `StartingCommand` ends where `RunningCommand` begins: `RunInit`
is everything that a start may hand over (helpers that have returned already, a limit
that is passed already), and that what a start hands over is such a state is a theorem
(`HandOverStartsRun`). `IoFiles` gives the detail of the steps "prepare" and "commit" of
`StartingCommand`, which only knows that they succeed, fail, or fail after touching a
file. `OutputReaders` and `StdinWriter` are the helpers of `RunningCommand`,
`StartingCommand` and `HelperFinalization`, where a helper is known by whether it has
returned and whether with an error. `HelperContract` says what that view of a helper is.
`FailureReport` takes what those stages may end with (any terminator report, any end of
a reader or of the writer) and shows that it reaches the caller; `ErrorInspection` goes
on to what the caller can read from it. `WaitPolicy` has the loops of `RunningCommand`
again, with lengths of time in place of ticks.

Bytes are positions in their stream, so that a lost, repeated or reordered byte shows.
In `RunningCommand` bytes are gone: what is left of the budget is whether it is
exceeded, of a helper whether it has returned and whether with an error. The link
between the two levels is `HelperContract`, from both sides: `OutputReaders` implements
it (`ReadersActAsHelpers`) and so does `StdinWriter`; and to the helpers of a run it is
the same thing as what `RunningCommand` reckons with, no more and no less
(`RunRestsOnHelpers`, `HelpersCompose`, `RunAllowsHelpers`). That a helper whose
cancellation was delivered returns is a matter of fairness, and of runs
(`DeliveredCancelStops`, of readers and writer).

Two checks the code makes one after the other are one action when nothing another
thread does in between can be told apart from its doing it before or after. The
flag of a reader is set and its wakeup sent in two actions, and a reader's own
steps are split at every point where a cancellation could fall. Two more are not
told apart by any property: `IoFiles` normalizes both the path and its parent directory
in one step, and `Detach` is only taken for a reader that has not returned.

`EnvironmentContract` and `CommandBuilder` keep the last `call` as a history
variable. Without it, a recorded call that wrongly has no effect would be a
stuttering step of the contract, and the refinement would not notice.

In `IoFiles` a file is an inode and a path a name or a symbolic link, so that
"the same file" can come about through equal names, links and hard links; a name
may also be unbound, or lie in a directory that is missing. Opening a FIFO as
input blocks unless `O_NONBLOCK` is given, and opening one as output without it
blocks or fails; both is why the code opens, checks and only then clears the flag.

Definitions whose comment begins with "Mutant" are alternatives that none of the
specifications use. Each is the neighbouring definition with a plausible mistake in
it, and stands for the question "would the property notice?".

## What is checked

`tlc -config <cfg> <module>`. The expected result is that no error is found, of
every config but `ReportSnapshot`. Where deadlock checking is off, a run, a call or
a thread that has returned is over. Most properties are conjunctions, whose named
parts are stated and commented one by one in the modules.

| Config | Module | Shows |
|---|---|---|
| `Readers` | `MCOutputReaders` | The budget is never overdrawn (`BudgetAccounting`), nothing is read once it is exceeded, what is kept is the prefix the caps allow and the owner gets it unharmed (`KeptIsPrefix`), a stream is called complete only if it was drained (`CompleteIffDrained`), the tee file has no gaps and its failure is never hidden by a later one (`TeeIsTrue`), and a cancelled reader finishes at most the call it is in (`AtMostOneLateIo`). To the run, `OutputReaders` implements `HelperContract` |
| `ReadersLive` | `MCOutputReaders` | A reader returns after a delivered cancellation, at the end of its pipe and, on unix, after it was let go |
| `Stdin` | `MCStdinWriter` | Through partial writes, retries, cancellations and a child that goes away, the child is given a prefix of the input; a join without failure means all of it is in the pipe, unless the writer was cancelled or nobody reads; only a failed system call is a failure (`JoinResultIsTrue`); a delivered cancellation ends the writer although the child neither reads nor exits, the hangup ends one that was let go (`WriterStops`); a child that keeps reading gets the whole input and its end |
| `Files` | `MCIoFiles` | The child's input is never truncated; all files handed out are regular, block as expected and the tees differ; a refused run empties nothing but by a failing truncation; aliases are refused before anything is created while nobody else interferes; no call waits for a peer of a FIFO |
| `Start` | `MCStartingCommand` | Whichever step of the start fails, no process and no helper survives unreported; a start that succeeds hands over a whole command; one cancelled in time does nothing; every start ends. Of the cleanup itself: survivors are reported, no exit status is invented and termination is given up only when every kill failed (`TerminationIsTrue`); every helper left running is reported and none that returned in time for want of a call to cancel (`HelpersReportedExactly`); all are asked before any is waited for, and the waits share one window (`OneSharedWait`) |
| `Run` | `MCRunningCommand` | `RunningCommand` implements `RunContract`; an exceeded limit wins over every other event of the same poll and a run that had come to its end is not turned into a cancelled one (`EventPrecedence`); every helper left running is in the result |
| `RunLive` | `MCRunningCommand` | A cancellation, a timeout or an exceeded limit ends the run, while the child stays in its process group and `wait` does not fail, whichever kills and cancellations do; the blocking wait is entered only for a child that a kill reached |
| `Polling` | `MCWaitPolicy` | A timeout is neither early nor late whenever the child exits in between; every event is noticed within the longest interval, and early ones sooner; the runner does not spin |
| `Inspection` | `MCErrorInspection` | Each failure is in the result exactly once, in the order of the stages, and the reason is why the run ended (`ErrorIsTrue`); output that was collected is handed out, in one place (`OutputSurvives`); the caller can reach the source of every failure, also of demoted ones, and the texts leave none out (`NothingIsHidden`); survivors and the end of an unexpected exit are told (`FateOfChildIsTold`) |
| `ReportSnapshot` | `MCFailureReport` | Expected to fail: see below |
| `Builder` | `MCCommandBuilder` | `CommandBuilder` implements `EnvironmentContract` with two spellings of one variable; the arguments given as sensitive and a shell's command line are handed to the redaction library marked secret, whatever is appended (`SecretArgumentsAreMarked`) |
| `Runner` | `MCCommandRunner` | Lost output is a success only by the caller's last word on truncation; a success has an expected exit code |

The type invariants of the modules are parts of the inductive invariants of the
proofs; no config lists them.

The expected violation. `doc/design.md:235` says that a snapshot of the budget is
used "only for streams whose helper result could not be joined". When terminating
a run that exceeded its limit fails, `stop_and_finalize` (`running_command.rs:272`)
takes the snapshot of both streams first and joins the readers afterwards, and
`cancel_and_join` drops what they return. `SnapshotOnlyIfNotJoined` is violated by
a run with both readers joined normally. No byte is lost by it: an exceeded budget
is halted (`ObservedCountIsFinal`), so the snapshot has every byte the readers
have; whether a stream was complete may be known better after the join.

Bounds, and why they are enough. *Readers*: a buffer of two and up to two bytes per
stream give chunks of one and of two; a limit of one lets either reader take the
last allowed byte and the one after it, on both platforms and with no budget at all;
caps of one and of none cover truncation and its absence; any two system calls fail,
so that one failure can come before and after another. `ReadersLive` has no allowed
byte, one byte on stdout, and one fault that may delay or swallow a wakeup. *Writer*:
four bytes through a pipe of three need a second write whatever the child does; two
faults of any kind. *Start*: every step may fail; a cancellation token, which makes
the child lead a process tree, or else bytes for stdin, which make three helpers; one
child and one descendant that may leave its group; one exit check instead of eight,
two in `RunLive` (the checks differ only in whether another one follows); every call of the
terminator may fail, every cancellation is delivered or finds no call, and the window
is one sleep. *Run*: a timeout of one tick, so that it passes before, between and after
any two steps; one helper may return an error (`MayFail`); cancellations are delivered
or fail; a window without sleeps, and the option sets "all" and "none"; in `RunLive`
a window of one sleep and one option at a time, so that a timeout does not end the
run that a cancellation should have ended. *Files*: three paths (one per stream), two
regular files, one FIFO, and two files the run may create; two changes by other
programs and one failing call at any point. Paths and regular files are symmetric.
*Polling*: timeouts of 0, 1, 6 and 30 ms end in each part of the interval table; the
poll count saturates at 5 instead of `usize::MAX`, beyond the last entry of the table;
sleeps are up to 1 ms late; two events; the clock ends at 50, past timeout and longest
interval. *Inspection*: every sequence of failures the terminator can return, every end
of a helper, and a success, another code and a signal as statuses; `ReportSnapshot`
needs only three sequences: a budget means a managed tree, so its kill fails before the
child's. *Builder*: two spellings of one variable and one other;
three arguments, one more than shell invocations look at. *Runner*: any three calls.

Fairness. Helper threads and the calling thread are scheduled (weak fairness of their
steps), and a process that received a kill dies. A helper whose cancellation was
delivered returns, which the runs of readers and writer show. Nothing is assumed of a
child that was not killed, of descendants, or of the holders of a pipe end. No fault is
ever forced: in `FairSpec`, `FairWriterSpec` and `FairStartSpec` fairness is that of the
step without one wherever the step could block. That the child reads is assumed by
`ReaderGetsInput` only, as its hypothesis. The code waits for the child after a
successful kill of its process group, and a child that has left the group is not reached
by it. So `RunLive` assumes that the child stays (`MayLeaveGroup = FALSE`), and
`StartEnds` promises nothing for a child that has escaped; the safety properties of
`Start` hold for it, too. `RunLive` lets kills fail but not `wait`; `Run` and `Start`
let both fail. `Files` states no fairness: that some step is always possible
(`NeverBlocked`, checked), and that there are at most 25 of them
(`PreparationIsBounded`, proved), is the whole of its liveness.

## What is proved

Every safety property that a run checks is a theorem for all values of the constants,
the refinements of `RunContract`, `HelperContract` and `EnvironmentContract` included,
but for `NeverBlocked` (below). `tlapm <module>` checks a
module. Each proof has the same shape: an inductive invariant, one lemma for the
initial states, one per action or group of actions, and one for each property that
follows. The named parts of each invariant are commented where they are defined. What
follows says why they are needed.

*Stopping* (`StoppingProofs`), for any tree of processes, set of faults, number of
exit checks and any answers of the helpers. `TerminatorInv` remembers what the record
of failures means at each place in `terminate`: the direct kill is reached with a
managed tree only when the kill of the tree is on record, the last check only when the
direct kill is, too (`ProgressOnRecord`); a tree whose kill is not on record has no
process left that no kill reached (`TreeIsAccountedFor`), although processes fork and
exit between any two calls. From these follow `TerminationIsTrue` and
`WaitsOnlyForKilledChild` (`TerminatorSafety`). The latter also needs that the child
was spawned and, unless it may leave it, is in its group (`ChildSpawned`).
`FinalizationInv` orders the two passes over the helpers: all up to `turn` were asked,
all up to `turn` were finished, what is retained has a reason, and what was slept and
what is left make up at most one window. From it follow `HelpersReportedExactly` and
`OneSharedWait` (`FinalizationSafety`).

*Start* (`StartingCommandProofs`). `StartInv` adds to those two how far the start has
come: no process before the spawn, no helper before its launch, the cleanup in its
order, and the report being what the cleanup recorded. Its step lemmas cite those of
`StoppingProofs` for the embedded actions. From it follow the four properties of a
start and, again, those of stopping (`FailedStartStopsTruly`): a start may be aborted
with some of the helpers missing.

*The hand-over.* `HandOverStartsRun` says that the state in which a start ends well is,
with the variables of a run filled in, one that satisfies `RunInit`; so whatever is
proved of runs is proved of started commands. It needs one invariant more
(`HandOverInv`): up to then nothing was killed, cancelled or waited for, a helper that
failed has returned, and a cancellation is that of a token the options have.

*Run* (`RunningCommandProofs`). `RunInv` adds which places of the monitor belong to
which loop, that a command is stopped once and for a reason that has arisen, that a
collected status is that of the child, and that from the last look at the budget
on no helper is left that could exceed it (`LimitIsLookedAtLast`).

* `RunImplementsContract`: initial states and steps map to those of `RunContract`,
  one lemma per action. `LimitIsLookedAtLast` is what the step that returns a success
  needs: the contract allows one only while the limit is kept, and the last byte may
  be read after the child has exited.
* `RunRestsOnHelpers`: a run sees nothing of its helpers but steps of `HelperContract`.
  `ReadersAreHelpers` and `WriterIsHelper` say that the threads take such steps, each on
  their own, and `HelpersCompose` that they do so side by side, one at a time: the
  theorems about runs assume nothing of helpers but what readers and writer do.
  `RunAllowsHelpers` is the converse: each step that contract allows is a step of a run,
  so none that a reader or the writer may take is missing there.
* `PollsDecideInOrder`: `EventPrecedence` says of a state what later states must
  be. So the proof has two more invariants that, once entered, are not left
  (`LimitDecides`, `ExitDecides`).

*Readers* (`OutputReadersProofs`), for every limit, cap, buffer length, platform,
number of bytes and number of faults. `TypeInv` adds to `TypeOK` that a thread that is
done has a result, which `join` relies on. `BudgetAccounting` is inductive once types
are known: a read asks for at most `Limit + 1 - used` bytes and is charged in the same
critical section, a refused read finds the budget halted. `NothingReadOnceExceeded`
follows, since an exceeded budget is halted. The other properties are about one stream
at a time and rest on `StreamInv`: a step of one stream does nothing to the other but
to halt the budget (`OtherStreamKept`), which is the lemma that makes the interleaving
of the readers harmless. Its parts say that only a cancellation sends a wakeup,
why the loop was left (`EndInv`: a zero read is the end of the pipe or comes from a
halted budget), that the chunk in the buffer is the last that was read, and that a tee
in use lacks that chunk at most.

`ReadersAreHelpers` needs of all this only the types and that the budget, once exceeded,
stays so, also when the owner takes a stream out of it.

*Writer* (`StdinWriterProofs`). While somebody reads and the thread runs, the bytes in
the pipe and those already read are together as many as the thread's offset says
(`BytesInOrder`). On windows a write may be aborted after moving bytes that nobody
counts. The invariant holds because the thread makes no write after that.

*Files* (`IoFilesProofs`), for any set of paths, links and files. `FilesInv` says at
each step which streams are open and settled, and that from the comparison of the
handles on no two of them are one file (`FilesDiffer`); it speaks of handles only, so
that other programs may relink names between any two steps. `AliasesRefusedEarly`
holds only while they do not (`relinks = 0`), and needs `AliasInv`: what was found of a
path is still so. Two paths to one existing file have one normalized path. A name
that is not there yet can only be reached through itself or through a dangling link,
which is refused; and a path that cannot be normalized lies in a missing directory,
where opening it creates nothing.

*The caller's side* (`CallerProofs`). `SecretsInv`: a secret among the arguments is
marked, or it is the second one and the program and its flag are still those of a
shell. So it is handed to the redaction library as secret, and what is handed over of an
argument never changes after it was given (`SecretArgumentsStayMarked`). This is about
arguments only: values of variables go to the library, whose policy is not modelled.
`VerdictInv`: the settings are what the caller's last calls said, where "the
last call" exists because every call extends the list. `PolicyInv` is about time: a
sleeper wakes by its deadline, a sleep began after every event still to be noticed and
is at most one interval, with a timeout no longer than the phase was old (an interval
at most doubles), and each sleep from the fifth on has its full length
(`SleepsTakeTime`), so that wakes are few.

*The environment* (`BuilderImplementsContract`, also in `CallerProofs`). The code keeps a
flag, a list of assignments and a list of removals, replays them by kind and has lost the
order of the calls by then. It gives what the calls give one by one because a name is
in at most one of the two lists, and there once (`EnvInv`), whatever its spelling.
Lists and environment are computed by recursive functions. That functions with these
equations exist is proved first (`KeepingExists` and what follows it), then what they
yield for a list of any length, by looking at a shortest prefix for which it would be
wrong (`UpTo`): that takes the place of an induction.

*How long it takes.* Liveness is out of the prover's reach, but its safety half is
not: a count of the steps a thread has still to make, which each of its own steps
lowers and no step of anybody else raises. With that, only a wait that never ends could
keep the thread from its end. There is one such count for `stop_and_finalize`
(`StoppingIsBounded`: at most `ExitChecks + Window + 12` steps, although processes fork
and helpers return in between), for a start with its cleanup (`StartIsBounded`), for a
reader and the writer once cancelled (`CancelledReaderIsBounded`: four steps,
`CancelledWriterIsBounded`: two; no interrupted call leads around the loop again) and
for the files (`PreparationIsBounded`).

*Errors* (`ErrorInspectionProofs`), for every list of failures the terminator may
report and every end of the helpers. `Lists(list, S)`: the list has each
failure of the set once and nothing else. The lemmas show that each of the lists
that are put together lists one part of what happened, that different parts
are apart, that concatenation and `SortByRank` preserve this (sorting is a
permutation, `SortPermutes`), keep a failed tee before its failed read, and put stages
in order. So each of the five ends of a run builds a result that is due
(`ResultDue`), from which the four properties follow.

What proving changed in the models:

* The contract did not allow a timeout of zero, which has passed when the run begins:
  `ContractInit` was false of such an initial state. It allows it now.
* `RunInit` described a run whose helpers had all just begun. A helper may return, and
  the limit be passed, while the start is still launching the others; the initial states
  of the run, the terminator, the finalization and the contract allow for it now. The
  run reaches the same states, since those steps were its first ones before.
* Constants got the assumptions the proofs need. `None` is none of the named values.
  `MaxPollCount` is beyond the interval table. The flag of a shell is a word.
  Each step of `terminate` fails once (`ReportAssumption`): without it "each failure
  exactly once" is false.
* The invariant of the readers was not inductive at first: a wakeup without a cancelled
  thread, and a thread that waits with an empty request, had to be excluded.
* The environment was computed with folds, which the prover cannot reason about; the
  definitions are recursive functions now.
* `LastCall`, `SortByRank` and `FirstAt` were stated with recursive operators of the
  community modules. They now say which place an element comes from.

Assumptions. The theorems assume the named `ASSUME`s of the modules and nothing else;
the runs evaluate all of them.

What stays with TLC:

* Liveness (`ReaderStopsUnasked`, `DeliveredCancelStops`, `WriterStops`,
  `ReaderGetsInput`, `StopConditionEndsRun`, `StartEnds`) and `NeverBlocked`, which is
  about `ENABLED`: out of the prover's reach.
* `SnapshotOnlyIfNotJoined`, which is false of the code.

## Not modelled

* The redaction of texts, done by a library, and the wording of messages. The models
  say which fields a text mentions and which arguments are marked secret; that a text
  shows no secret, and which values of environment variables it hides
  (`redact_env_pairs`), is up to the policy of the library, and nothing is claimed of it.
* Decoding captured output as text (strict, lossy): sequential code of the standard
  library over plain bytes.
* The working directory, logging, the names of helper threads, and the timers, whose only
  behaviour here is to sleep.
* The syntax of paths, and how other platforms than unix identify open files.
* A panic of a helper thread: it is joined as a failed read or write, one of the
  faults. The caller's clock and timer may panic during a start; that is the step "clock"
  or "elapsed" of `StartingCommand`.
* The poisoned mutex of the budget, which the code ignores.
* Unix helpers without a cancellation or file descriptor: only tests use them.

About half of the lines in the mapped files are unit tests and documentation
comments, which no definition translates.

## Plan

1. Done: `OutputBudget`, `OutputReaders` and the first proofs; `ProcessTerminator`;
   `HelperFinalization`; `RunningCommand` with `RunContract`.
2. Done: `IoFiles`; `StartingCommand`; `StdinWriter`; `FailureReport` and
   `ErrorInspection`; `WaitPolicy`; `CommandBuilder` with `EnvironmentContract`;
   `CommandRunner`.
3. Done: the proofs above, of every invariant and action property that a run checks
   but for `NeverBlocked`, of the three refinements, of the hand-over from a start to a
   run, of the view a run has of its helpers, and of the bounds on the steps of each thread.
4. Open, for a prover that can do it: `NeverBlocked`, and liveness. The counts of steps
   are the ranking functions its proofs would need; what is missing is that a step is
   possible, which is about `ENABLED`, and the rule for weak fairness.
