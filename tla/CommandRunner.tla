--------------------------- MODULE CommandRunner ---------------------------
(***************************************************************************)
(* The settings of a CommandRunner that decide what a finished run is      *)
(* called, and the end of run_with, which calls it a success or a failure  *)
(* (command_runner.rs).  The settings interact: some calls set both the    *)
(* retention caps and whether truncated output is a failure.               *)
(*                                                                         *)
(* A run that did not finish normally is RunningCommand's; a stream is the *)
(* number of bytes the child wrote to it.                                  *)
(***************************************************************************)
EXTENDS Optional, Integers, SequencesExt

CONSTANTS
    Caps,         \* numbers of bytes given to the methods
    DefaultCap,   \* DEFAULT_MAX_OUTPUT_BYTES_PER_STREAM
    Sizes,        \* what a child may write to a stream
    ExitCodes,    \* exit codes of the child, and given to the methods
    MaxCalls      \* calls made on a runner before it runs (bounds the model)

OutputStream == {"stdout", "stderr"}

ASSUME RunnerAssumption ==
    /\ Caps \subseteq Nat /\ Sizes \subseteq Nat /\ DefaultCap \in Nat
    /\ 0 \in ExitCodes /\ MaxCalls \in Nat

VARIABLES
    maxBytes,               \* max_stdout_bytes, max_stderr_bytes
    failOnOutputTruncation,
    successExitCodes,
    maxTotalOutputBytes,
    calls,                  \* the methods called so far
    result                  \* what run_with returned, or None

settings == <<maxBytes, failOnOutputTruncation, successExitCodes, maxTotalOutputBytes>>
commandRunnerVars == <<settings, calls, result>>

Output == [written : [OutputStream -> Sizes], retained : [OutputStream -> Nat],
           exitCode : ExitCodes \cup {None}]

CommandRunnerTypeOK ==
    /\ maxBytes \in [OutputStream -> Nat \cup {None}]
    /\ failOnOutputTruncation \in BOOLEAN
    /\ successExitCodes \subseteq ExitCodes
    /\ maxTotalOutputBytes \in Nat \cup {None}
    /\ result # None => /\ result.kind \in {"Ok", "OutputTruncated", "UnexpectedExit"}
                        /\ result.output \in Output

CommandRunnerInit ==
    /\ maxBytes = [s \in OutputStream |-> DefaultCap]
    /\ failOnOutputTruncation = TRUE
    /\ successExitCodes = {0}
    /\ maxTotalOutputBytes = None
    /\ calls = <<>> /\ result = None

(***************************************************************************)
(* The builder methods.                                                    *)
(***************************************************************************)

\* A call of method with its argument, which sets the settings named.
Call(method, argument) ==
    /\ result = None /\ Len(calls) < MaxCalls
    /\ calls' = Append(calls, [method |-> method, argument |-> argument])
    /\ UNCHANGED result

SetCaps(streams, cap) ==
    maxBytes' = [s \in OutputStream |-> IF s \in streams THEN cap ELSE maxBytes[s]]

\* max_stdout_bytes, max_stderr_bytes and max_output_bytes
MaxBytes ==
    \E streams \in SUBSET OutputStream \ {{}}, cap \in Caps :
        /\ Call("max_bytes", streams)
        /\ SetCaps(streams, cap)
        /\ UNCHANGED <<failOnOutputTruncation, successExitCodes, maxTotalOutputBytes>>

\* Mutant: bounded_output only sets the caps.
BoundedPolicyKept == failOnOutputTruncation

BoundedPolicy == TRUE

BoundedOutput ==
    \E cap \in Caps :
        /\ Call("bounded_output", None)
        /\ SetCaps(OutputStream, cap)
        /\ failOnOutputTruncation' = BoundedPolicy
        /\ UNCHANGED <<successExitCodes, maxTotalOutputBytes>>

Uncapped == None

UnboundedOutput ==
    /\ Call("unbounded_output", None)
    /\ SetCaps(OutputStream, Uncapped)
    /\ failOnOutputTruncation' = FALSE
    /\ UNCHANGED <<successExitCodes, maxTotalOutputBytes>>

FailOnOutputTruncation ==
    \E enabled \in BOOLEAN :
        /\ Call("fail_on_output_truncation", enabled)
        /\ failOnOutputTruncation' = enabled
        /\ UNCHANGED <<maxBytes, successExitCodes, maxTotalOutputBytes>>

\* success_exit_code and success_exit_codes
SuccessExitCodes ==
    \E codes \in SUBSET ExitCodes :
        /\ Call("success_exit_codes", codes)
        /\ successExitCodes' = codes
        /\ UNCHANGED <<maxBytes, failOnOutputTruncation, maxTotalOutputBytes>>

\* max_total_output_bytes and without_total_output_limit
TotalOutputLimit ==
    \E limit \in Caps \cup {None} :
        /\ Call("total_output_limit", limit)
        /\ maxTotalOutputBytes' = limit
        /\ UNCHANGED <<maxBytes, failOnOutputTruncation, successExitCodes>>

(***************************************************************************)
(* The end of run_with.                                                    *)
(***************************************************************************)

Retained(size, cap) == IF cap = None \/ size <= cap THEN size ELSE cap

Truncated(output) ==
    \E s \in OutputStream : output.retained[s] < output.written[s]

\* Mutant: truncation is looked at first.
TruncatedFirst(output) ==
    IF failOnOutputTruncation /\ Truncated(output) THEN "OutputTruncated"
    ELSE IF output.exitCode \in successExitCodes THEN "Ok"
    ELSE "UnexpectedExit"

Verdict(output) ==
    IF output.exitCode \notin successExitCodes THEN "UnexpectedExit"
    ELSE IF failOnOutputTruncation /\ Truncated(output) THEN "OutputTruncated"
    ELSE "Ok"

WithinTotal(written) ==
    maxTotalOutputBytes # None =>
        written["stdout"] + written["stderr"] <= maxTotalOutputBytes

\* The child exits or is ended by a signal, within the output budget, and
\* every helper is joined.
RunWith ==
    /\ result = None
    /\ \E written \in [OutputStream -> Sizes], code \in ExitCodes \cup {None} :
        LET output == [ written  |-> written,
                        retained |-> [s \in OutputStream |->
                                         Retained(written[s], maxBytes[s])],
                        exitCode |-> code ]
        IN  /\ WithinTotal(written)
            /\ result' = [kind |-> Verdict(output), output |-> output]
    /\ UNCHANGED <<settings, calls>>

CommandRunnerNext ==
    \/ MaxBytes \/ BoundedOutput \/ UnboundedOutput
    \/ FailOnOutputTruncation \/ SuccessExitCodes \/ TotalOutputLimit
    \/ RunWith

CommandRunnerSpec == CommandRunnerInit /\ [][CommandRunnerNext]_commandRunnerVars

(***************************************************************************)
(* Properties.                                                             *)
(***************************************************************************)

\* The calls of the methods named, and the last of them.
CallsOf(methods) == {i \in DOMAIN calls : calls[i].method \in methods}

LastCall(methods) ==
    calls[CHOOSE i \in CallsOf(methods) : \A j \in CallsOf(methods) : j <= i]

\* The methods that set whether lost output is a failure.
PolicyMethods == {"bounded_output", "unbounded_output", "fail_on_output_truncation"}

\* "so call order matters.  The max_*_bytes methods change retention limits
\* only" (doc/user_guide.md): a success that lost output was allowed to by the
\* caller's last word on truncation, whatever caps were set after it.
TruncationNeedsConsent ==
    LET said == LastCall(PolicyMethods)
    IN  result # None /\ result.kind = "Ok" /\ Truncated(result.output) =>
            /\ CallsOf(PolicyMethods) # {}
            /\ said.method = "unbounded_output" \/ said.argument = FALSE

\* A success is an exit with a code the caller expected last, zero if it never
\* said, and an end by a signal is none; any other end is an unexpected exit,
\* also if output was lost.
VerdictFollowsExit ==
    LET expected == IF CallsOf({"success_exit_codes"}) = {} THEN {0}
                    ELSE LastCall({"success_exit_codes"}).argument
    IN  result # None =>
            (result.kind = "UnexpectedExit" <=> result.output.exitCode \notin expected)

\* A run is a success exactly when the caller's settings, in their order, make
\* it one.
VerdictIsDue == TruncationNeedsConsent /\ VerdictFollowsExit
=============================================================================
