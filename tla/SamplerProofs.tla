---------------------------- MODULE SamplerProofs ----------------------------
(***************************************************************************)
(* Theorems about Sampler for every size of a byte above one bit and every *)
(* number of bytes, whatever the receiver's levels.                        *)
(***************************************************************************)
EXTENDS Sampler, TLAPS

LEMMA Scaled ==
  ASSUME NEW a \in Nat, NEW b \in Nat, a < b, NEW n \in Nat
  PROVE  a * n + n <= b * n
<1>1. PICK d \in Nat : b = a + 1 + d
  <2>1. b - a - 1 \in Nat /\ b = a + 1 + (b - a - 1)
    OBVIOUS
  <2> QED
    BY <2>1
<1>2. b * n = a * n + n + d * n /\ d * n \in Nat
  BY <1>1
<1> QED
  BY <1>2

(* The number of samples, of bits of the byte under way and of bytes. *)
CountInv ==
    /\ TypeOK
    /\ k * BITS + j = i /\ i = Len(seen)
    /\ at \in {"poll", "settle", "low", "high", "data", "done"}
    /\ at \in {"settle", "low", "high"} => i = 0
    /\ at = "done" => i = Samples + 1

(* So far a byte under way is the run of ones at its end; its bits from j  *)
(* on are the ones before's, and are all set again before it is stored.    *)
BitsInv == \A b \in 0..(j - 1) : b \in tmp <=> \A d \in b..(j - 1) : SampleOf(k, d) = 1

RunsInv ==
    \A m \in 0..(BYTES - 1) :
        buffer[m] = IF m < k THEN {b \in Bit : \A d \in b..(BITS - 1) : SampleOf(m, d) = 1}
                    ELSE {}

SamplerInv == CountInv /\ RunsInv /\ BitsInv

LEMMA SamplerInit == Init => SamplerInv
  BY SizeAssumption
     DEF Init, SamplerInv, CountInv, BitsInv, RunsInv, TypeOK, Samples, Bit

(* A sample is behind all earlier ones, and there is room for its byte.    *)
LEMMA CountStep == CountInv /\ TakeSample => CountInv' /\ (ByteFull => k < BYTES)
<1> SUFFICES ASSUME CountInv, TakeSample PROVE CountInv' /\ (ByteFull => k < BYTES)
  OBVIOUS
<1> USE SizeAssumption DEF CountInv, TypeOK, TakeSample, Bit, Level
<1>1. i <= Samples /\ Samples = BYTES * BITS /\ Samples \in Nat /\ k * BITS \in Nat
  BY DEF MoreToTake, Samples
<1>2. k <= BYTES
  OBVIOUS
<1>3. ByteFull => k < BYTES
  <2>1. CASE k = BYTES
    BY <1>1, <2>1 DEF ByteFull
  <2> QED
    BY <1>2, <2>1
<1>4. seen' \in Seq(Level) /\ Len(seen') = Len(seen) + 1
  OBVIOUS
<1>5. /\ j' \in Bit /\ k' \in 0..BYTES /\ k' * BITS + j' = i + 1
      /\ i' \in 0..(Samples + 1)
  <2>1. CASE ByteFull
    <3>1. j = BITS - 1 /\ j' = 0 /\ k' = k + 1
      BY <2>1 DEF ByteFull
    <3>2. (k + 1) * BITS = k * BITS + BITS
      OBVIOUS
    <3> QED
      BY <1>1, <1>3, <2>1, <3>1, <3>2
  <2>2. CASE ~ByteFull
    BY <1>1, <2>2 DEF ByteFull
  <2> QED
    BY <2>1, <2>2
<1>6. tmp' \in SUBSET Bit /\ buffer' \in [0..(BYTES - 1) -> SUBSET Bit]
  BY DEF NextByte
<1> QED
  BY <1>3, <1>4, <1>5, <1>6

LEMMA BitsStep == SamplerInv /\ TakeSample => RunsInv' /\ BitsInv'
<1> SUFFICES ASSUME SamplerInv, TakeSample PROVE RunsInv' /\ BitsInv'
  OBVIOUS
<1> USE SizeAssumption DEF SamplerInv, CountInv, TypeOK
<1>1. PICK level \in Level :
        /\ seen' = Append(seen, level) /\ tmp' = NextByte(level)
        /\ IF ByteFull
           THEN /\ j' = 0 /\ k' = k + 1
                /\ buffer' = [buffer EXCEPT ![k] = NextByte(level)]
           ELSE j' = j + 1 /\ UNCHANGED <<k, buffer>>
  BY DEF TakeSample
<1>2. k * BITS + j = Len(seen) /\ k * BITS \in Nat /\ j \in 0..(BITS - 1)
  BY DEF Bit
<1>3. ASSUME NEW m \in 0..(k - 1), NEW d \in Bit PROVE SampleOf(m, d)' = SampleOf(m, d)
  <2>1. m * BITS + BITS <= k * BITS /\ m * BITS \in Nat
    BY Scaled
  <2>2. m * BITS + d + 1 \in 1..Len(seen)
    BY <1>2, <2>1 DEF Bit
  <2> QED
    BY <1>1, <2>2 DEF SampleOf
<1>4. ASSUME NEW d \in 0..(j - 1)
      PROVE  seen'[k * BITS + d + 1] = SampleOf(k, d)
  BY <1>1, <1>2 DEF SampleOf
<1>5. seen'[k * BITS + j + 1] = level
  BY <1>1, <1>2
<1>6. ASSUME NEW b \in 0..j
      PROVE  b \in NextByte(level) <=> \A d \in b..j : seen'[k * BITS + d + 1] = 1
  <2>1. CASE level = 0
    BY <1>2, <1>5, <2>1 DEF NextByte
  <2>2. CASE level # 0 /\ b = j
    BY <1>1, <1>2, <1>5, <2>2 DEF NextByte, Level
  <2>3. CASE level # 0 /\ b # j
    <3>1. b \in 0..(j - 1) /\ level = 1
      BY <1>1, <1>2, <2>3 DEF Level
    <3>2. b \in NextByte(level) <=> b \in tmp
      BY <1>2, <2>3, <3>1 DEF NextByte
    <3>3. (\A d \in b..j : seen'[k * BITS + d + 1] = 1)
            <=> (\A d \in b..(j - 1) : SampleOf(k, d) = 1)
      <4>1. \A d \in b..j : d = j \/ d \in b..(j - 1)
        BY <1>2, <3>1
      <4>2. \A d \in b..(j - 1) : d \in 0..(j - 1) /\ d \in b..j
        BY <1>2, <3>1
      <4> QED
        BY <1>4, <1>5, <3>1, <4>1, <4>2
    <3> QED
      BY <3>1, <3>2, <3>3 DEF BitsInv
  <2> QED
    BY <2>1, <2>2, <2>3
<1>7. CASE ByteFull
  <2>1. j = BITS - 1 /\ j' = 0 /\ k' = k + 1 /\ k < BYTES
    BY <1>1, <1>2, <1>7, CountStep DEF ByteFull
  <2>2. BitsInv'
    BY <2>1 DEF BitsInv
  <2>3. ASSUME NEW m \in 0..(BYTES - 1)
        PROVE  buffer'[m] = IF m < k' THEN {b \in Bit : \A d \in b..(BITS - 1) : SampleOf(m, d)' = 1}
                            ELSE {}
    <3>1. CASE m = k
      <4>1. buffer'[m] = NextByte(level)
        BY <1>1, <1>7, <2>1, <3>1
      <4>2. NextByte(level) \subseteq Bit
        BY DEF NextByte
      <4>3. NextByte(level) = {b \in Bit : \A d \in b..(BITS - 1) : SampleOf(m, d)' = 1}
        BY <1>6, <2>1, <3>1, <4>2 DEF SampleOf, Bit
      <4>4. m < k'
        BY <2>1, <3>1
      <4> QED
        BY <4>1, <4>3, <4>4, Zenon
    <3>2. CASE m < k
      <4>1. buffer'[m] = {b \in Bit : \A d \in b..(BITS - 1) : SampleOf(m, d) = 1}
        BY <1>1, <1>7, <3>2 DEF RunsInv
      <4>2. \A b \in Bit : \A d \in b..(BITS - 1) : SampleOf(m, d)' = SampleOf(m, d)
        BY <1>3, <3>2 DEF Bit
      <4>3. {b \in Bit : \A d \in b..(BITS - 1) : SampleOf(m, d) = 1}
              = {b \in Bit : \A d \in b..(BITS - 1) : SampleOf(m, d)' = 1}
        BY <4>2
      <4>4. m < k'
        BY <2>1, <3>2
      <4> QED
        BY <4>1, <4>3, <4>4, Zenon
    <3>3. CASE m > k
      <4>1. buffer'[m] = {} /\ ~(m < k')
        <5>1. m # k /\ ~(m < k) /\ ~(m < k')
          BY <2>1, <3>3
        <5>2. buffer'[m] = buffer[m]
          BY <1>1, <1>7, <5>1
        <5> QED
          BY <5>1, <5>2 DEF RunsInv
      <4> QED
        BY <4>1, Zenon
    <3>4. m = k \/ m < k \/ m > k
      OBVIOUS
    <3> QED
      BY <3>1, <3>2, <3>3, <3>4, Zenon
  <2> QED
    BY <2>2, <2>3 DEF RunsInv
<1>8. CASE ~ByteFull
  <2>1. j' = j + 1 /\ UNCHANGED <<k, buffer>> /\ tmp' = NextByte(level)
    BY <1>1, <1>8
  <2>2. BitsInv'
    <3>1. \A b \in 0..j : b \in tmp' <=> \A d \in b..j : SampleOf(k, d)' = 1
      BY <1>6, <2>1 DEF SampleOf
    <3>2. j' - 1 = j /\ k' = k
      BY <1>2, <2>1
    <3> QED
      BY <3>1, <3>2 DEF BitsInv
  <2>3. ASSUME NEW m \in 0..(BYTES - 1), m < k
        PROVE  \A b \in Bit : \A d \in b..(BITS - 1) : SampleOf(m, d)' = SampleOf(m, d)
    BY <1>3, <2>3 DEF Bit
  <2>4. RunsInv'
    BY <2>1, <2>3 DEF RunsInv
  <2> QED
    BY <2>2, <2>4
<1> QED
  BY <1>7, <1>8

LEMMA SamplerNext == SamplerInv /\ [Next]_vars => SamplerInv'
<1> SUFFICES ASSUME SamplerInv, [Next]_vars PROVE SamplerInv'
  OBVIOUS
<1>1. CASE Poll
  BY <1>1, SizeAssumption
     DEF Poll, SamplerInv, CountInv, BitsInv, RunsInv, TypeOK, Samples, Bit
<1>2. CASE Leader
  <2>1. UNCHANGED <<i, j, k, tmp, buffer, seen>> /\ at \in {"settle", "low", "high"}
        /\ at' \in {"poll", "low", "high", "data"}
    BY <1>2 DEF Leader, Go
  <2>2. RunsInv' /\ BitsInv'
    BY <2>1 DEF SamplerInv, RunsInv, BitsInv, SampleOf
  <2> QED
    BY <2>1, <2>2 DEF SamplerInv, CountInv, TypeOK
<1>3. CASE TakeSample
  BY <1>3, CountStep, BitsStep DEF SamplerInv
<1>4. CASE EndSamples
  <2>1. i = Samples + 1
    BY <1>4, SizeAssumption DEF EndSamples, MoreToTake, SamplerInv, CountInv, TypeOK, Samples
  <2> QED
    BY <1>4, <2>1
       DEF EndSamples, SamplerInv, CountInv, BitsInv, RunsInv, SampleOf, TypeOK
<1>5. CASE UNCHANGED vars
  BY <1>5 DEF vars, SamplerInv, CountInv, BitsInv, RunsInv, SampleOf, TypeOK
<1> QED
  BY <1>1, <1>2, <1>3, <1>4, <1>5 DEF Next, Finished
-----------------------------------------------------------------------------
(* The counters stay inside the buffer and the byte. *)
THEOREM SamplerTypeCorrect == Spec => []TypeOK
<1>1. SamplerInv => TypeOK
  BY DEF SamplerInv, CountInv
<1> QED
  BY <1>1, SamplerInit, SamplerNext, PTL DEF Spec

(* A stored byte is the run of ones at its end, and the loop has filled    *)
(* the buffer to its last byte when it ends.                               *)
THEOREM TrailingRunStored == Spec => []StoresTrailingRun
<1>1. SamplerInv => StoresTrailingRun
  <2> SUFFICES ASSUME SamplerInv PROVE StoresTrailingRun
    OBVIOUS
  <2>1. ASSUME at = "done" PROVE k = BYTES /\ j = 1
    <3> USE SizeAssumption DEF SamplerInv, CountInv, TypeOK, Bit, Samples
    <3>1. k * BITS + j = BYTES * BITS + 1 /\ k * BITS \in Nat /\ BYTES * BITS \in Nat
      BY <2>1
    <3>2. ~(k < BYTES)
      <4> SUFFICES ASSUME k < BYTES PROVE FALSE
        OBVIOUS
      <4>1. k * BITS + BITS <= BYTES * BITS
        BY Scaled
      <4> QED
        BY <3>1, <4>1
    <3> QED
      BY <3>1, <3>2
  <2> QED
    BY <2>1 DEF SamplerInv, RunsInv, StoresTrailingRun
<1> QED
  BY <1>1, SamplerInit, SamplerNext, PTL DEF Spec
=============================================================================
