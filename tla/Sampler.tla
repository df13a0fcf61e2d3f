------------------------------ MODULE Sampler ------------------------------
(***************************************************************************)
(* wait_for_IR between poll and the copy into IR_buf (IRReader.cpp:156-213)*)
(* as one learner's thread runs it: the interference check, the leader's   *)
(* low and high phase, and the loop that makes bytes of samples.  A byte   *)
(* is the set of its bits that are 1.                                      *)
(***************************************************************************)
EXTENDS Integers, Sequences

CONSTANTS BITS,     \* 8
          BYTES     \* 300, the size of buffer

ASSUME SizeAssumption == BITS \in Nat \ {0, 1} /\ BYTES \in Nat

Samples == BITS * BYTES     \* 2400
Bit == 0..(BITS - 1)
Level == {0, 1}

VARIABLES
    at,         \* "poll", "settle", "low", "high", "data" or "done"
    i, j, k,    \* samples taken, bits of the byte under way, bytes stored
    tmp,        \* the byte under way
    buffer,     \* the bytes stored
    seen        \* all samples of the data phase (ghost)

vars == <<at, i, j, k, tmp, buffer, seen>>

TypeOK ==
    /\ at \in {"poll", "settle", "low", "high", "data", "done"}
    /\ i \in 0..(Samples + 1)
    /\ j \in Bit
    /\ k \in 0..BYTES
    /\ tmp \in SUBSET Bit
    /\ buffer \in [0..(BYTES - 1) -> SUBSET Bit]
    /\ seen \in Seq(Level)

Init ==
    /\ at = "poll"
    /\ i = 0 /\ j = 0 /\ k = 0
    /\ tmp = {}
    /\ buffer = [b \in 0..(BYTES - 1) |-> {}]
    /\ seen = <<>>
-----------------------------------------------------------------------------
(* start: the counters and the buffer are cleared, and poll reports an edge. *)
Poll ==
    /\ at = "poll"
    /\ at' = "settle"
    /\ i' = 0 /\ j' = 0 /\ k' = 0 /\ tmp' = {}
    /\ buffer' = [b \in 0..(BYTES - 1) |-> {}]
    /\ seen' = <<>>

Go(here, sample, there) ==
    /\ at = here
    /\ sample
    /\ at' = there
    /\ UNCHANGED <<i, j, k, tmp, buffer, seen>>

(* 1.5 ms after the edge, and in both phases of the leader. *)
Leader ==
    \E level \in Level :
        \/ Go("settle", level = 1, "poll")
        \/ Go("settle", level = 0, "low")
        \/ Go("low", level = 0, "low")
        \/ Go("low", level = 1, "high")
        \/ Go("high", level = 1, "high")
        \/ Go("high", level = 0, "data")

(* Mutant: a 0 leaves the bits before it alone. *)
NextByteKept(level) == IF level = 0 THEN tmp ELSE {j} \cup tmp

(* c == '0' ? 0 : 1 << j | tmp.  A 0 clears the bits before it, and the    *)
(* first bit of a byte is set in what the byte before left in tmp.         *)
NextByte(level) == IF level = 0 THEN {} ELSE {j} \cup tmp

(* Mutant: one bit more before the byte is stored. *)
ByteFullLate == j > BITS - 1

(* After j++: j > 7. *)
ByteFull == j + 1 > BITS - 1

(* while (i <= 2400) *)
MoreToTake == i <= Samples

TakeSample ==
    /\ at = "data" /\ MoreToTake
    /\ \E level \in Level :
         /\ seen' = Append(seen, level)
         /\ tmp' = NextByte(level)
         /\ IF ByteFull
            THEN /\ j' = 0 /\ k' = k + 1
                 /\ buffer' = [buffer EXCEPT ![k] = NextByte(level)]
            ELSE j' = j + 1 /\ UNCHANGED <<k, buffer>>
    /\ i' = i + 1
    /\ UNCHANGED at

EndSamples ==
    /\ at = "data" /\ ~MoreToTake
    /\ at' = "done"
    /\ UNCHANGED <<i, j, k, tmp, buffer, seen>>

Finished == at = "done" /\ UNCHANGED vars

Next == Poll \/ Leader \/ TakeSample \/ EndSamples \/ Finished

Spec == Init /\ [][Next]_vars
-----------------------------------------------------------------------------
(* The sample bit b of byte m was made from. *)
SampleOf(m, b) == seen[m * BITS + b + 1]

(* IRReader.cpp:192-204.  Of its eight samples a stored byte keeps the run *)
(* of ones at its end and nothing else, whatever the bytes before it were; *)
(* the bytes behind the last stored one are still 0, and at the end there  *)
(* are none: the sample the loop takes on top is in no byte.               *)
StoresTrailingRun ==
    /\ \A m \in 0..(BYTES - 1) :
         buffer[m] = IF m < k THEN {b \in Bit : \A d \in b..(BITS - 1) : SampleOf(m, d) = 1}
                     ELSE {}
    /\ at = "done" => k = BYTES /\ j = 1
=============================================================================
