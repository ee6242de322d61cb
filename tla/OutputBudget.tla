---------------------------- MODULE OutputBudget ----------------------------
(***************************************************************************)
(* The combined output budget that the stdout and stderr readers of one    *)
(* run share (total_output_budget.rs): a record guarded by one mutex and   *)
(* the operations performed while that mutex is held.  Every operator here *)
(* is one critical section; the module has no variables of its own.        *)
(*                                                                         *)
(* A byte is represented by its position in its stream, so a retained      *)
(* prefix is the sequence <<1, 2, ..., n>> and a lost, repeated or         *)
(* reordered byte is visible.                                              *)
(***************************************************************************)
EXTENDS Optional, Integers, Sequences

CONSTANTS
    Limit,      \* max_total_output_bytes
    Cap         \* max_stdout_bytes and max_stderr_bytes, per stream

OutputStream == {"stdout", "stderr"}

ASSUME LimitAssumption == Limit \in Nat

ASSUME CapAssumption ==
    /\ None \notin Nat
    /\ Cap \in [OutputStream -> Nat \cup {None}]

MinOf(m, n) == IF m <= n THEN m ELSE n

SaturatingSub(m, n) == IF n <= m THEN m - n ELSE 0

\* The bytes of a stream at positions m+1 .. m+n.
Bytes(m, n) == [i \in 1..n |-> m + i]

(***************************************************************************)
(* Values.                                                                 *)
(***************************************************************************)

TotalOutputBudgetState ==
    [ used        : Nat,
      exceeded    : BOOLEAN,
      halted      : BOOLEAN,
      bytes       : [OutputStream -> Seq(Nat)],
      truncated   : [OutputStream -> BOOLEAN],
      complete    : [OutputStream -> BOOLEAN],
      transferred : [OutputStream -> BOOLEAN] ]

\* CapturedOutput: what a reader hands to its owner.
CapturedOutput == [bytes : Seq(Nat), truncated : BOOLEAN, complete : BOOLEAN]

NewBudget ==
    [ used        |-> 0,
      exceeded    |-> FALSE,
      halted      |-> FALSE,
      bytes       |-> [s \in OutputStream |-> <<>>],
      truncated   |-> [s \in OutputStream |-> FALSE],
      complete    |-> [s \in OutputStream |-> FALSE],
      transferred |-> [s \in OutputStream |-> FALSE] ]

(***************************************************************************)
(* Retention of a chunk under an independent cap: the shared budget and an *)
(* unbudgeted reader keep the same prefix.                                 *)
(***************************************************************************)

\* Mutant: the cap holds for each chunk and not for the stream.
RetainedCountPerChunk(cap, kept, n) == IF cap = None THEN n ELSE MinOf(n, cap)

RetainedCount(cap, kept, n) ==
    IF cap = None THEN n ELSE MinOf(n, SaturatingSub(cap, kept))

Retained(s, bytes, chunk) ==
    bytes \o SubSeq(chunk, 1, RetainedCount(Cap[s], Len(bytes), Len(chunk)))

Omits(s, bytes, chunk) ==
    RetainedCount(Cap[s], Len(bytes), Len(chunk)) < Len(chunk)

(***************************************************************************)
(* The critical sections.                                                  *)
(***************************************************************************)

\* Mutant: two bytes past the limit.
CeilingOffByOne == Limit + 2

\* One byte past the limit may be read, to detect that it was passed.
Ceiling == Limit + 1

Remaining(b) == SaturatingSub(Ceiling, b.used)

\* Mutant: what the other reader has used is not looked at.
RequestUnbounded(b, buffer, ready) == MinOf(buffer, ready)

\* The largest number of bytes one read may ask for.
Request(b, buffer, ready) == MinOf(MinOf(buffer, ready), Remaining(b))

\* Mutant: exceeded on reaching the limit, halted only past it.
ChargeReportsEarly(b, s, chunk) ==
    LET used == b.used + Len(chunk)
    IN  [b EXCEPT !.used         = used,
                  !.bytes[s]     = Retained(s, @, chunk),
                  !.truncated[s] = @ \/ Omits(s, b.bytes[s], chunk),
                  !.exceeded     = @ \/ used >= Limit,
                  !.halted       = @ \/ used > Limit]

\* The effect of a read that returned chunk.
Charge(b, s, chunk) ==
    LET used == b.used + Len(chunk)
        over == used > Limit
    IN  [b EXCEPT !.used         = used,
                  !.bytes[s]     = Retained(s, @, chunk),
                  !.truncated[s] = @ \/ Omits(s, b.bytes[s], chunk),
                  !.exceeded     = @ \/ over,
                  !.halted       = @ \/ over]

\* A read that finds nothing left to ask for.
HaltAtCeiling(b) == [b EXCEPT !.exceeded = TRUE, !.halted = TRUE]

MarkComplete(b, s) == [b EXCEPT !.complete[s] = TRUE]

CapturedStream(b, s) ==
    [bytes |-> b.bytes[s], truncated |-> b.truncated[s], complete |-> b.complete[s]]

CapturedStreamMetadata(b, s) == [CapturedStream(b, s) EXCEPT !.bytes = <<>>]

\* Mutant: the bytes are left behind.
TakenStreamWithoutBytes(b, s) == CapturedStreamMetadata(b, s)

\* A second take finds no bytes, and says so with the first one's metadata.
TakenStream(b, s) ==
    IF b.transferred[s] THEN CapturedStreamMetadata(b, s) ELSE CapturedStream(b, s)

\* Mutant: the whole state is taken and not only the stream's buffer.
AfterTakeOfAll(b, s) == [NewBudget EXCEPT !.transferred[s] = TRUE]

AfterTake(b, s) == [b EXCEPT !.transferred[s] = TRUE, !.bytes[s] = <<>>]

\* joined maps the joined streams to their results.  A joined result is
\* authoritative for a stream whose bytes were transferred; the others are
\* read from the budget, whose reader may still be appending.
CapturedOutputWithJoined(b, joined) ==
    [s \in OutputStream |->
        IF ~b.transferred[s] THEN CapturedStream(b, s)
        ELSE IF s \in DOMAIN joined THEN joined[s]
        ELSE [CapturedStreamMetadata(b, s) EXCEPT !.complete = FALSE]]
=============================================================================
