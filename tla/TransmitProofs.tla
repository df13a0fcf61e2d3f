--------------------------- MODULE TransmitProofs ---------------------------
(***************************************************************************)
(* Theorems about Transmit for every byte size, every set of contents and  *)
(* every bound.                                                            *)
(***************************************************************************)
EXTENDS Transmit, SequenceTheorems, FiniteSetTheorems, TLAPS

(* Induction over the natural numbers, for a set of them. *)
LEMMA NatInduct ==
    ASSUME NEW S, 0 \in S, \A n \in Nat : n \in S => n + 1 \in S
    PROVE  Nat \subseteq S
<1> DEFINE Less == OpToRel(<, Nat)
           T == Nat \ S
<1>1. IsWellFoundedOn(Less, Nat)
  BY NatLessThanWellFounded
<1>2. \A m, n \in Nat : m < n => <<m, n>> \in Less
  BY Zenon DEF OpToRel
<1> HIDE DEF Less
<1>3. SUFFICES ASSUME T # {} PROVE FALSE
  OBVIOUS
<1>4. PICK n \in T : \A m \in T : <<m, n>> \notin Less
  <2>1. T \subseteq Nat
    OBVIOUS
  <2> HIDE DEF T
  <2> QED
    BY <1>1, <1>3, <2>1, WFMin
<1>5. n - 1 \in T /\ n - 1 < n
  BY <1>4
<1> QED
  BY <1>2, <1>4, <1>5

-----------------------------------------------------------------------------
(* SumFunction of natural numbers, which the community module defines by   *)
(* recursion over the subsets of the domain, is one.                       *)
Picked(s) == CHOOSE x \in s : TRUE
Summand(f, g, s) == IF s = {} THEN 0 ELSE f[Picked(s)] + g[s \ {Picked(s)}]
UpTo(A, n) == {s \in SUBSET A : Cardinality(s) <= n}

LEMMA UpToLevels ==
    ASSUME NEW A, IsFiniteSet(A)
    PROVE  /\ UpTo(A, 0) = {{}}
           /\ \A n \in Nat : UpTo(A, n) \subseteq UpTo(A, n + 1)
           /\ \A n \in Nat : \A s \in UpTo(A, n + 1) :
                s # {} => Picked(s) \in A /\ s \ {Picked(s)} \in UpTo(A, n)
           /\ \E n \in Nat : UpTo(A, n) = SUBSET A
<1>1. \A s \in SUBSET A : IsFiniteSet(s) /\ Cardinality(s) \in Nat /\ Cardinality(s) <= Cardinality(A)
  BY FS_Subset, FS_CardinalityType
<1>2. UpTo(A, 0) = {{}}
  BY <1>1, FS_EmptySet DEF UpTo
<1>3. \A n \in Nat : UpTo(A, n) \subseteq UpTo(A, n + 1)
  BY <1>1 DEF UpTo
<1>4. ASSUME NEW n \in Nat, NEW s \in UpTo(A, n + 1), s # {}
      PROVE  Picked(s) \in A /\ s \ {Picked(s)} \in UpTo(A, n)
  <2>1. Picked(s) \in s /\ s \in SUBSET A
    BY <1>4 DEF Picked, UpTo
  <2>2. Cardinality(s \ {Picked(s)}) = Cardinality(s) - 1
    BY <1>1, <2>1, FS_RemoveElement
  <2>3. Cardinality(s) \in Nat /\ Cardinality(s) <= n + 1
    BY <1>1, <2>1, <1>4 DEF UpTo
  <2> QED
    BY <2>1, <2>2, <2>3 DEF UpTo
<1>5. UpTo(A, Cardinality(A)) = SUBSET A /\ Cardinality(A) \in Nat
  BY <1>1, FS_CardinalityType DEF UpTo
<1> QED
  BY <1>2, <1>3, <1>4, <1>5

LEMMA SumExists ==
    ASSUME NEW A, IsFiniteSet(A), NEW f \in [A -> Nat]
    PROVE  \E g : g = [s \in SUBSET A |-> Summand(f, g, s)]
<1> DEFINE Sums(g, n) ==
             /\ g \in [UpTo(A, n) -> Nat]
             /\ \A s \in UpTo(A, n) : g[s] = Summand(f, g, s)
           Reached == {n \in Nat : \E g : Sums(g, n)}
<1>1. 0 \in Reached
  <2>1. Sums([s \in UpTo(A, 0) |-> 0], 0)
    BY UpToLevels DEF Summand
  <2> QED
    BY <2>1
<1>2. ASSUME NEW n \in Nat, n \in Reached
      PROVE  n + 1 \in Reached
  <2>1. PICK g : Sums(g, n)
    BY <1>2
  <2> DEFINE h == [s \in UpTo(A, n + 1) |-> Summand(f, g, s)]
  <2>2. ASSUME NEW s \in UpTo(A, n + 1)
        PROVE  h[s] \in Nat /\ h[s] = Summand(f, h, s)
    <3>1. CASE s = {}
      BY <3>1 DEF Summand
    <3>2. CASE s # {}
      <4> DEFINE rest == s \ {Picked(s)}
      <4>1. Picked(s) \in A /\ rest \in UpTo(A, n)
        BY <3>2, UpToLevels
      <4>2. rest \in UpTo(A, n + 1)
        BY <4>1, UpToLevels
      <4>3. h[rest] = g[rest] /\ g[rest] \in Nat
        BY <2>1, <4>1, <4>2
      <4>4. h[s] = f[Picked(s)] + g[rest]
        BY <3>2 DEF Summand
      <4>5. Summand(f, h, s) = f[Picked(s)] + h[rest]
        BY <3>2 DEF Summand
      <4> QED
        BY <4>1, <4>3, <4>4, <4>5
    <3> QED
      BY <3>1, <3>2
  <2>3. Sums(h, n + 1)
    BY <2>2
  <2>4. n + 1 \in Nat
    OBVIOUS
  <2> HIDE DEF Sums, h
  <2> QED
    BY <2>3, <2>4
<1>3. Nat \subseteq Reached
  BY <1>1, <1>2, NatInduct
<1>4. PICK n \in Nat : UpTo(A, n) = SUBSET A
  BY UpToLevels
<1>5. PICK g : Sums(g, n)
  BY <1>3
<1>6. g = [s \in SUBSET A |-> Summand(f, g, s)]
  BY <1>4, <1>5
<1> QED
  BY <1>6

LEMMA SumType ==
    ASSUME NEW A, IsFiniteSet(A), NEW f \in [A -> Nat]
    PROVE  SumFunction(f) \in Nat
<1> DEFINE g == CHOOSE h : h = [s \in SUBSET A |-> Summand(f, h, s)]
           Reached == {n \in Nat : \A s \in UpTo(A, n) : g[s] \in Nat}
<1>1. SumFunction(f) = g[A]
  BY DEF SumFunction, SumFunctionOnSet, FoldFunctionOnSet, MapThenFoldSet, Summand, Picked
<1>2. g = [s \in SUBSET A |-> Summand(f, g, s)]
  BY SumExists
<1> HIDE DEF g
<1>3. 0 \in Reached
  BY <1>2, UpToLevels DEF Summand
<1>4. ASSUME NEW n \in Nat, n \in Reached
      PROVE  n + 1 \in Reached
  <2> SUFFICES ASSUME NEW s \in UpTo(A, n + 1) PROVE g[s] \in Nat
    OBVIOUS
  <2>1. s \in SUBSET A /\ g[s] = Summand(f, g, s)
    BY <1>2 DEF UpTo
  <2>2. s # {} => f[Picked(s)] \in Nat /\ g[s \ {Picked(s)}] \in Nat
    BY <1>4, UpToLevels
  <2> QED
    BY <2>1, <2>2 DEF Summand
<1>5. Nat \subseteq Reached
  BY <1>3, <1>4, NatInduct
<1>6. A \in SUBSET A /\ \E n \in Nat : UpTo(A, n) = SUBSET A
  BY UpToLevels
<1> QED
  BY <1>1, <1>5, <1>6

LEMMA ByteSumType ==
    ASSUME NEW n \in Nat, NEW bytes \in [1..n -> Byte], NEW size \in 1..n
    PROVE  ByteSum(bytes, size) \in Byte
<1> DEFINE summed == [c \in 3..(size - 1) |-> bytes[c]]
           sum == SumFunction(summed)
<1>1. sum \in Nat
  <2>1. summed \in [3..(size - 1) -> Nat]
    BY CharAssumption DEF Byte, UCHAR_MAX
  <2>2. IsFiniteSet(3..(size - 1))
    BY FS_Interval
  <2> HIDE DEF summed
  <2> QED
    BY <2>1, <2>2, SumType
<1>2. ByteSum(bytes, size) = sum % (UCHAR_MAX + 1)
  BY DEF ByteSum
<1> HIDE DEF sum
<1>3. UCHAR_MAX \in Nat
  BY CharAssumption DEF UCHAR_MAX
<1> QED
  BY <1>1, <1>2, <1>3 DEF Byte

(* transmit.cpp:90-101, 145-153.  The buffer put_in makes is two bytes     *)
(* longer than the content; its first Len(content) bytes, the ones sent,   *)
(* are the header, the content without its last three bytes, and the       *)
(* checksum of these.                                                      *)
LEMMA FrameLayout ==
    ASSUME NEW content \in Seq(Byte), Len(content) >= 4
    PROVE  LET buffer == FrameBuffer(content)
               size   == Len(content)
           IN  /\ DOMAIN buffer = 1..(size + 2)
               /\ buffer[1] = UCHAR_MAX /\ buffer[2] = UCHAR_MAX
               /\ \A c \in 3..(size - 1) : buffer[c] = content[c - 2]
               /\ buffer[size] = UCHAR_MAX - ByteSum(buffer, size)
               /\ ByteSum(buffer, size) \in Byte
<1> DEFINE size == Len(content)
           raw == Header \o content
           buffer == FrameBuffer(content)
<1>1. size \in Nat /\ size >= 4
  OBVIOUS
<1>2. Header \in Seq(Byte) /\ Len(Header) = 2
  BY CharAssumption DEF Header, Byte, UCHAR_MAX
<1>3. /\ raw \in Seq(Byte) /\ Len(raw) = size + 2
      /\ raw[1] = UCHAR_MAX /\ raw[2] = UCHAR_MAX
      /\ \A c \in 3..(size + 2) : raw[c] = content[c - 2]
  BY <1>1, <1>2 DEF Header
<1>a. DOMAIN raw = 1..(size + 2)
  BY <1>1, <1>3
<1>c. buffer = [raw EXCEPT ![size] = UCHAR_MAX - ByteSum(raw, size)]
  BY DEF FrameBuffer, finish_checksum
<1> HIDE DEF raw, buffer, size
<1>b. raw \in [1..(size + 2) -> Byte]
  BY <1>1, <1>3
<1>4. /\ DOMAIN buffer = 1..(size + 2)
      /\ \A c \in 1..(size + 2) : c # size => buffer[c] = raw[c]
      /\ buffer[size] = UCHAR_MAX - ByteSum(raw, size)
  BY <1>1, <1>b, <1>c
<1>5. [c \in 3..(size - 1) |-> raw[c]] = [c \in 3..(size - 1) |-> buffer[c]]
  BY <1>1, <1>4
<1>6. ByteSum(raw, size) = ByteSum(buffer, size)
  <2> DEFINE summed(bytes) == [c \in 3..(size - 1) |-> bytes[c]]
  <2>1. /\ ByteSum(raw, size) = SumFunction(summed(raw)) % (UCHAR_MAX + 1)
        /\ ByteSum(buffer, size) = SumFunction(summed(buffer)) % (UCHAR_MAX + 1)
    BY DEF ByteSum
  <2>2. summed(raw) = summed(buffer)
    BY <1>5
  <2> HIDE DEF summed
  <2> QED
    BY <2>1, <2>2
<1>7. ByteSum(raw, size) \in Byte
  BY <1>1, <1>b, ByteSumType
<1> QED
  BY <1>1, <1>3, <1>4, <1>6, <1>7 DEF size, buffer
-----------------------------------------------------------------------------
(* The parts of TransmitTypeOK and QueueIsTail, named for the proofs. *)
TransmitInv == TransmitTypeOK /\ QueueIsTail

LEMMA FrameFields ==
    ASSUME put \in Nat, NEW w \in QueuedFrames
    PROVE  /\ w.no \in 1..put
           /\ w.content \in Content
           /\ w.length = Len(w.content) /\ w.length \in Nat /\ w.length >= 4
           /\ w = WFrame(w.no, w.content)
<1>1. PICK no \in 1..put, content \in Content : w = WFrame(no, content)
  BY DEF QueuedFrames
<1>2. Len(content) \in Nat /\ Len(content) >= 4
  BY ContentAssumption
<1> QED
  BY <1>1, <1>2 DEF WFrame

LEMMA SeqWiden ==
    ASSUME NEW S, NEW T, S \subseteq T, NEW s \in Seq(S)
    PROVE  s \in Seq(T)
<1>1. s \in [1..Len(s) -> S] /\ Len(s) \in Nat
  OBVIOUS
<1>2. s \in [1..Len(s) -> T]
  BY <1>1
<1> QED
  BY <1>1, <1>2

(* A frame accepted stays one when more are accepted. *)
LEMMA FramesGrow ==
    ASSUME put \in Nat, put' \in Nat, put <= put'
    PROVE  QueuedFrames \subseteq QueuedFrames'
  BY DEF QueuedFrames, WFrame

LEMMA FramesStay == UNCHANGED put => QueuedFrames' = QueuedFrames
  BY DEF QueuedFrames, WFrame

LEMMA InitKeeps == TransmitInit => TransmitInv
<1> SUFFICES ASSUME TransmitInit PROVE TransmitInv
  OBVIOUS
<1>1. TransmitTypeOK
  BY DEF TransmitInit, TransmitTypeOK
<1>2. QueueIsTail
  BY DEF TransmitInit, QueueIsTail
<1> QED
  BY <1>1, <1>2 DEF TransmitInv

(* put_in inside a method that leaves the rest of the queues' state alone. *)
LEMMA PutInKeeps ==
    ASSUME TransmitInv, NEW content \in Content, put_in(content),
           pc = "idle", pc' \in {"idle", "scan"}, want' \in Nat,
           UNCHANGED <<rbuffer, j, last>>
    PROVE  TransmitInv'
<1> USE DEF TransmitInv, TransmitTypeOK
<1> DEFINE new == WFrame(put + 1, content)
<1>1. put' = put + 1 /\ wbuffer' = Append(wbuffer, new)
  BY DEF put_in
<1>2. QueuedFrames \subseteq QueuedFrames'
  BY <1>1, FramesGrow
<1>3. new \in QueuedFrames'
  <2>1. put + 1 \in 1..put'
    BY <1>1
  <2> QED
    BY <2>1 DEF QueuedFrames, WFrame
<1>4. new.no = put + 1
  BY DEF WFrame
<1> HIDE DEF new
<1>5. wbuffer \in Seq(QueuedFrames')
  BY <1>2, SeqWiden
<1>6. wbuffer' \in Seq(QueuedFrames')
  BY <1>1, <1>3, <1>5
<1>7. rbuffer' \in Seq([scID : Received, after : 0..put'])
  <2> DEFINE old == [scID : Received, after : 0..put]
             wide == [scID : Received, after : 0..put']
  <2>1. old \subseteq wide
    BY <1>1
  <2>2. rbuffer \in Seq(old)
    OBVIOUS
  <2> HIDE DEF old, wide
  <2>3. rbuffer \in Seq(wide)
    BY <2>1, <2>2, SeqWiden
  <2> QED
    BY <2>3 DEF wide
<1>8. TransmitTypeOK'
  BY <1>1, <1>6, <1>7
<1>9. QueueIsTail'
  <2>1. Len(wbuffer') = Len(wbuffer) + 1 /\ Len(wbuffer) \in Nat
    BY <1>1
  <2>2. \A i \in DOMAIN wbuffer' : wbuffer'[i].no = put' - Len(wbuffer') + i
    <3> SUFFICES ASSUME NEW i \in DOMAIN wbuffer'
                 PROVE  wbuffer'[i].no = put' - Len(wbuffer') + i
      OBVIOUS
    <3>1. CASE i = Len(wbuffer) + 1
      BY <3>1, <1>1, <1>4, <2>1
    <3>2. CASE i # Len(wbuffer) + 1
      BY <3>2, <1>1, <2>1 DEF QueueIsTail
    <3> QED
      BY <3>1, <3>2
  <2>3. /\ wbuffer' # <<>>
        /\ last'[1] <= Head(wbuffer').no
        /\ last'[1] = Head(wbuffer').no => last'[2] <= j'
    <3>1. CASE wbuffer = <<>>
      <4>1. wbuffer' # <<>> /\ Head(wbuffer') = new
        BY <3>1, <1>1
      <4>2. last[1] <= put /\ last[1] \in Nat
        BY <3>1 DEF QueueIsTail
      <4> QED
        BY <4>1, <4>2, <1>1, <1>4
    <3>2. CASE wbuffer # <<>>
      <4>1. wbuffer' # <<>>
        BY <2>1
      <4>2. Head(wbuffer') = Head(wbuffer)
        BY <3>2, <1>1, <1>5, HeadTailAppend, Zenon
      <4> QED
        BY <3>2, <4>1, <4>2 DEF QueueIsTail
    <3> QED
      BY <3>1, <3>2
  <2>4. j' = 0
    BY DEF QueueIsTail
  <2> QED
    BY <2>2, <2>3, <2>4 DEF QueueIsTail
<1> QED
  BY <1>8, <1>9

(* do_cycle's steps, whoever called it. *)
LEMMA CycleKeeps ==
    ASSUME TransmitInv, BeginCycle \/ CycleStep
    PROVE  TransmitInv'
<1> USE DEF TransmitInv
<1>0. Len(wbuffer) \in Nat /\ put \in Nat /\ j \in Nat /\ last \in (0..put) \X Nat
  BY DEF TransmitTypeOK
<1>1. CASE BeginCycle
  BY <1>1, FramesStay DEF BeginCycle, TransmitTypeOK, QueueIsTail
<1>2. CASE SendByte
  <2>1. Head(wbuffer).no \in 1..put
    BY <1>2, FrameFields DEF SendByte, TransmitTypeOK
  <2>2. TransmitTypeOK'
    BY <1>2, <2>1, <1>0, FramesStay DEF SendByte, TransmitTypeOK
  <2>3. QueueIsTail'
    BY <1>0, <1>2, <2>1 DEF SendByte, QueueIsTail
  <2> QED
    BY <2>2, <2>3
<1>3. CASE EraseFrame
  <2>1. wbuffer # <<>> /\ wbuffer' = Tail(wbuffer) /\ j' = 0
        /\ UNCHANGED <<rbuffer, pc, want, put, last>>
    BY <1>3 DEF EraseFrame
  <2>2. /\ wbuffer' \in Seq(QueuedFrames)
        /\ Len(wbuffer') = Len(wbuffer) - 1
        /\ \A i \in 1..Len(wbuffer') : wbuffer'[i] = wbuffer[i + 1]
    BY <2>1, HeadTailProperties DEF TransmitTypeOK
  <2>3. QueuedFrames' = QueuedFrames
    BY <2>1, FramesStay
  <2>4. TransmitTypeOK'
    BY <2>1, <2>2, <2>3 DEF TransmitTypeOK
  <2>5. DOMAIN wbuffer' = 1..Len(wbuffer') /\ DOMAIN wbuffer = 1..Len(wbuffer)
    BY <2>2 DEF TransmitTypeOK
  <2>6. \A i \in DOMAIN wbuffer' : wbuffer'[i].no = put' - Len(wbuffer') + i
    BY <1>0, <2>1, <2>2, <2>5 DEF QueueIsTail
  <2>7. 1 \in DOMAIN wbuffer /\ Head(wbuffer) = wbuffer[1]
    BY <2>1, <2>5, <1>0, EmptySeq DEF TransmitTypeOK
  <2>8. last[1] <= put - Len(wbuffer) + 1
    BY <2>1, <2>7 DEF QueueIsTail
  <2>9. IF wbuffer' = <<>> THEN j' = 0 /\ last'[1] <= put'
        ELSE /\ last'[1] <= Head(wbuffer').no
             /\ last'[1] = Head(wbuffer').no => last'[2] <= j'
    <3>1. CASE wbuffer' = <<>>
      BY <1>0, <2>1, <2>2, <2>8, <3>1
    <3>2. CASE wbuffer' # <<>>
      <4>1. 1 \in DOMAIN wbuffer' /\ Head(wbuffer') = wbuffer'[1]
        BY <2>2, <2>5, <3>2, EmptySeq, <1>0
      <4>2. Head(wbuffer').no = put - Len(wbuffer) + 2
        <5>1. wbuffer'[1].no = put' - Len(wbuffer') + 1
          BY <2>6, <4>1
        <5> QED
          BY <1>0, <2>1, <2>2, <4>1, <5>1
      <4> QED
        BY <1>0, <2>1, <2>8, <3>2, <4>2
    <3> QED
      BY <3>1, <3>2
  <2> QED
    BY <2>1, <2>4, <2>6, <2>9 DEF QueueIsTail
<1>4. CASE EndSend
  BY <1>4, FramesStay DEF EndSend, TransmitTypeOK, QueueIsTail
<1>5. CASE ReadPort
  <2>0. pc' \in {"idle", "crash"}
    BY <1>5 DEF ReadPort
  <2>1. rbuffer' \in Seq([scID : Received, after : 0..put])
    <3>1. CASE UNCHANGED rbuffer
      BY <3>1 DEF TransmitTypeOK
    <3>2. ASSUME NEW scID \in Received,
                 rbuffer' = Append(rbuffer, [scID |-> scID, after |-> put])
          PROVE  rbuffer' \in Seq([scID : Received, after : 0..put])
      BY <3>2 DEF TransmitTypeOK
    <3> QED
      BY <1>5, <3>1, <3>2 DEF ReadPort
  <2>2. TransmitTypeOK'
    BY <1>5, <2>0, <2>1, FramesStay DEF ReadPort, TransmitTypeOK
  <2>3. QueueIsTail'
    BY <1>5 DEF ReadPort, QueueIsTail
  <2> QED
    BY <2>2, <2>3
<1> QED
  BY <1>1, <1>2, <1>3, <1>4, <1>5 DEF CycleStep
(* Read_rbuffer's steps. *)
LEMMA ReadKeeps ==
    ASSUME TransmitInv, ReadStep \/ (\E scID \in Nat : Read_rbuffer(scID))
    PROVE  TransmitInv'
<1> USE DEF TransmitInv
<1>1. CASE TakeReply
  <2>1. Tail(rbuffer) \in Seq([scID : Received, after : 0..put])
    BY <1>1, HeadTailProperties DEF TakeReply, TransmitTypeOK
  <2> QED
    BY <1>1, <2>1, FramesStay DEF TakeReply, TransmitTypeOK, QueueIsTail
<1>2. CASE SpinOnForeign
  BY <1>2, FramesStay DEF SpinOnForeign, TransmitTypeOK, QueueIsTail
<1>3. CASE EndRead
  BY <1>3, FramesStay DEF EndRead, TransmitTypeOK, QueueIsTail
<1>4. CASE \E scID \in Nat : Read_rbuffer(scID)
  BY <1>4, FramesStay DEF Read_rbuffer, TransmitTypeOK, QueueIsTail
<1> QED
  BY <1>1, <1>2, <1>3, <1>4 DEF ReadStep

LEMMA StutterKeeps == TransmitInv /\ UNCHANGED uartVars => TransmitInv'
  BY FramesStay DEF TransmitInv, TransmitTypeOK, QueueIsTail, uartVars

LEMMA NextKeeps == TransmitInv /\ [TransmitNext]_uartVars => TransmitInv'
<1> SUFFICES ASSUME TransmitInv, [TransmitNext]_uartVars PROVE TransmitInv'
  OBVIOUS
<1>1. CASE PutIn
  <2>1. PICK content \in Content : put_in(content)
    BY <1>1 DEF PutIn
  <2>2. /\ pc = "idle" /\ pc' \in {"idle", "scan"} /\ want' \in Nat
        /\ UNCHANGED <<rbuffer, j, last>>
    BY <1>1 DEF PutIn, TransmitInv, TransmitTypeOK
  <2> QED
    BY <2>1, <2>2, PutInKeeps
<1>2. CASE BeginCycle \/ CycleStep
  BY <1>2, CycleKeeps
<1>3. CASE \E scID \in Received : Read_rbuffer(scID)
  BY <1>3, ReadKeeps, ReceivedAssumption
<1>4. CASE ReadStep
  BY <1>4, ReadKeeps
<1>5. CASE Stuck \/ UNCHANGED uartVars
  BY <1>5, StutterKeeps DEF Stuck
<1> QED
  BY <1>1, <1>2, <1>3, <1>4, <1>5 DEF TransmitNext

(* transmit.h:30-33 and the vectors' handling in transmit.cpp: the members *)
(* keep their types, and every queued frame is put_in's product.           *)
THEOREM TypeCorrect == TransmitSpec => []TransmitTypeOK
<1>1. TransmitInv => TransmitTypeOK
  BY DEF TransmitInv
<1> QED
  BY <1>1, InitKeeps, NextKeeps, PTL DEF TransmitSpec

(* transmit.cpp:66-101: the queue is the gapless tail of what was accepted *)
(* and the line has not passed the byte the send loop is at.               *)
THEOREM QueueCorrect == TransmitSpec => []QueueIsTail
<1>1. TransmitInv => QueueIsTail
  BY DEF TransmitInv
<1> QED
  BY <1>1, InitKeeps, NextKeeps, PTL DEF TransmitSpec
-----------------------------------------------------------------------------
(* Every step of the queue is a step of the line it implements, or none. *)
LEMMA StepRefines ==
    ASSUME TransmitInv, [TransmitNext]_uartVars
    PROVE  [Line!Accept \/ Line!Emit]_(Line!lineVars)
<1> USE DEF Line!lineVars
<1>1. CASE PutIn
  BY <1>1 DEF PutIn, put_in, Line!Accept
<1>2. CASE SendByte
  <2> DEFINE no == Head(wbuffer).no
  <2>1. /\ wbuffer # <<>> /\ last' \in {last, <<no, j + 1>>} /\ UNCHANGED put
    BY <1>2 DEF SendByte
  <2>2. no \in 1..put /\ j \in Nat /\ last \in (0..put) \X Nat
    BY <2>1, FrameFields DEF TransmitInv, TransmitTypeOK
  <2>3. last[1] <= no /\ (last[1] = no => last[2] <= j)
    BY <2>1 DEF TransmitInv, QueueIsTail
  <2> HIDE DEF no
  <2>4. CASE last' = last
    BY <2>1, <2>4
  <2>5. CASE last' = <<no, j + 1>>
    BY <2>1, <2>2, <2>3, <2>5 DEF Line!Emit, Line!Precedes, TransmitInv, TransmitTypeOK
  <2> QED
    BY <2>1, <2>4, <2>5
<1>3. CASE BeginCycle \/ EraseFrame \/ EndSend \/ ReadPort
  BY <1>3 DEF BeginCycle, EraseFrame, EndSend, ReadPort
<1>4. CASE ReadStep \/ \E scID \in Received : Read_rbuffer(scID)
  BY <1>4 DEF ReadStep, TakeReply, SpinOnForeign, EndRead, Read_rbuffer
<1>5. CASE Stuck \/ UNCHANGED uartVars
  BY <1>5 DEF Stuck, uartVars
<1> QED
  BY <1>1, <1>2, <1>3, <1>4, <1>5 DEF TransmitNext, CycleStep

(* transmit.cpp:66-101 implements OrderedLine: no byte of a frame leaves   *)
(* twice, none before the frames accepted earlier.                         *)
THEOREM LineImplemented == TransmitSpec => LineInOrder
<1>1. TransmitInit => Line!Init
  BY DEF TransmitInit, Line!Init
<1> QED
  BY <1>1, InitKeeps, NextKeeps, StepRefines, PTL DEF TransmitSpec, LineInOrder, Line!Spec

(* transmit.cpp:163-175, 101: a frame that put_in made passes verification *)
(* iff chars are signed and its sum is at most SCHAR_MAX.                  *)
LEMMA VerifyFrame ==
    ASSUME NEW content \in Seq(Byte), Len(content) >= 4
    PROVE  LET buffer == FrameBuffer(content) IN
           verify_uart_mesg(buffer, Len(content))
               <=> CharSigned /\ ByteSum(buffer, Len(content)) <= SCHAR_MAX
<1> DEFINE buffer == FrameBuffer(content)
           sum == ByteSum(buffer, Len(content))
<1>1. /\ buffer[1] = UCHAR_MAX /\ buffer[2] = UCHAR_MAX
      /\ buffer[Len(content)] = UCHAR_MAX - sum
      /\ sum \in 0..UCHAR_MAX
  BY FrameLayout DEF Byte
<1>2. UCHAR_MAX = 2 * SCHAR_MAX + 1 /\ SCHAR_MAX \in Nat /\ CharSigned \in BOOLEAN
  BY CharAssumption DEF UCHAR_MAX
<1>3. verify_uart_mesg(buffer, Len(content)) <=> AsInt(UCHAR_MAX - sum) = -1 - sum
  BY <1>1 DEF verify_uart_mesg
<1> HIDE DEF buffer, sum
<1>4. CASE CharSigned /\ sum <= SCHAR_MAX
  <2>1. AsInt(UCHAR_MAX - sum) = UCHAR_MAX - sum - (UCHAR_MAX + 1)
    BY <1>1, <1>2, <1>4 DEF AsInt
  <2> QED
    BY <1>1, <1>2, <1>3, <1>4, <2>1 DEF buffer, sum
<1>5. CASE ~(CharSigned /\ sum <= SCHAR_MAX)
  <2>1. AsInt(UCHAR_MAX - sum) = UCHAR_MAX - sum
    BY <1>1, <1>2, <1>5 DEF AsInt
  <2>2. UCHAR_MAX - sum # -1 - sum
    BY <1>1, <1>2
  <2> QED
    BY <1>3, <1>5, <2>1, <2>2 DEF buffer, sum
<1> QED
  BY <1>4, <1>5

(* transmit.cpp:163-175: of the frames in the queue verification takes     *)
(* those of low sums where chars are signed, and none where they are not.  *)
THEOREM VerifyLow == TransmitSpec => []VerifyTakesLowSums
<1>1. ASSUME TransmitInv PROVE VerifyTakesLowSums
  <2> SUFFICES ASSUME NEW i \in DOMAIN wbuffer
               PROVE  LET w == wbuffer[i] IN
                      verify_uart_mesg(w.buffer, w.length)
                        <=> CharSigned /\ ByteSum(w.buffer, w.length) <= SCHAR_MAX
    BY DEF VerifyTakesLowSums
  <2>1. wbuffer[i] \in QueuedFrames /\ put \in Nat
    BY <1>1 DEF TransmitInv, TransmitTypeOK
  <2>2. PICK content \in Content :
          wbuffer[i].buffer = FrameBuffer(content) /\ wbuffer[i].length = Len(content)
    BY <2>1, FrameFields DEF WFrame
  <2>3. content \in Seq(Byte) /\ Len(content) >= 4
    BY ContentAssumption
  <2> QED
    BY <2>2, <2>3, VerifyFrame
<1> QED
  BY <1>1, InitKeeps, NextKeeps, PTL DEF TransmitSpec

(* transmit.cpp:122-134: with a foreign entry anywhere in rbuffer, no step *)
(* of Read_rbuffer returns to the caller.                                  *)
THEOREM ForeignHangs == TransmitSpec => ForeignEntryHangs
<1> DEFINE foreign == pc = "scan" /\ \E i \in DOMAIN rbuffer : rbuffer[i].scID # want
<1>1. ASSUME TransmitInv, [TransmitNext]_uartVars, foreign
      PROVE  pc' # "idle"
  <2>1. rbuffer # <<>> /\ pc = "scan"
    BY <1>1
  <2> QED
    BY <1>1, <2>1 DEF TransmitNext, PutIn, BeginCycle, CycleStep, SendByte, EraseFrame,
       EndSend, ReadPort, Read_rbuffer, ReadStep, TakeReply, SpinOnForeign, EndRead,
       Stuck, uartVars
<1> QED
  BY <1>1, InitKeeps, NextKeeps, PTL DEF TransmitSpec, ForeignEntryHangs
-----------------------------------------------------------------------------
(* The loop is never past the end of the frame it writes. *)
NotPast == wbuffer # <<>> => j <= Head(wbuffer).length

LEMMA NotPastKept ==
    ASSUME TransmitInv, TransmitInv', NotPast, CycleStep \/ pc' # "send" \/ BeginCycle
    PROVE  NotPast'
<1>1. ASSUME wbuffer' # <<>> PROVE Head(wbuffer').length \in Nat
  <2> DEFINE w == Head(wbuffer')
  <2>1. w \in {WFrame(no, content) : no \in 1..put', content \in Content}
    <3>1. QueuedFrames' = {WFrame(no, content) : no \in 1..put', content \in Content}
      BY DEF QueuedFrames, WFrame
    <3>2. wbuffer' \in Seq(QueuedFrames')
      BY DEF TransmitInv, TransmitTypeOK
    <3> QED
      BY <1>1, <3>1, <3>2
  <2> HIDE DEF w
  <2>2. PICK content \in Content : w.length = Len(content)
    BY <2>1 DEF WFrame
  <2> QED
    BY <2>2, ContentAssumption DEF w
<1>2. CASE j' = 0
  BY <1>1, <1>2 DEF NotPast
<1>3. CASE pc' # "send" \/ EraseFrame \/ BeginCycle
  <2>1. j' = 0
    BY <1>3 DEF TransmitInv, QueueIsTail, EraseFrame, BeginCycle
  <2> QED
    BY <2>1, <1>2
<1>4. CASE SendByte
  <2>1. Head(wbuffer).length \in Nat /\ j \in Nat
    BY <1>1, <1>4 DEF SendByte, TransmitInv, TransmitTypeOK
  <2> QED
    BY <1>4, <2>1 DEF SendByte, NotPast
<1>5. CASE EndSend \/ ReadPort
  BY <1>3, <1>5 DEF EndSend, ReadPort
<1> QED
  BY <1>3, <1>4, <1>5 DEF CycleStep

(* A round of the sending loop has done something for the end of it. *)
LEMMA CycleGoesOn ==
    ASSUME TransmitInv, pc = "send", CycleStep
    PROVE  \/ pc' = "read" /\ wbuffer' = <<>> /\ wbuffer = <<>>
           \/ pc' = "send" /\ wbuffer # <<>> /\ Len(wbuffer') = Len(wbuffer) - 1
           \/ pc' = "send" /\ wbuffer # <<>> /\ wbuffer' = wbuffer /\ LeftToSend' = LeftToSend - 1
<1>1. CASE SendByte
  <2>1. Head(wbuffer).length \in Nat /\ j \in Nat
    BY <1>1, FrameFields DEF SendByte, TransmitInv, TransmitTypeOK
  <2> QED
    BY <1>1, <2>1 DEF SendByte, LeftToSend
<1>2. CASE EraseFrame
  <2>1. Len(Tail(wbuffer)) = Len(wbuffer) - 1
    BY <1>2, HeadTailProperties DEF EraseFrame, TransmitInv, TransmitTypeOK
  <2> QED
    BY <1>2, <2>1 DEF EraseFrame
<1>3. CASE EndSend
  BY <1>3 DEF EndSend
<1> QED
  BY <1>1, <1>2, <1>3 DEF CycleStep, ReadPort

(* transmit.cpp:66-81, the safety half of CycleDrains: do_cycle's loops    *)
(* count down frames and bytes that are natural numbers.                   *)
THEOREM CycleCounts ==
    TransmitSpec => CycleAdvances /\ [](Len(wbuffer) \in Nat /\ LeftToSend \in Nat)
<1> DEFINE Inv == TransmitInv /\ NotPast
<1>1. TransmitInit => Inv
  BY InitKeeps DEF TransmitInit, NotPast
<1>2. ASSUME Inv, [TransmitNext]_uartVars PROVE Inv'
  <2>1. TransmitInv'
    BY <1>2, NextKeeps
  <2>2. CASE CycleStep \/ pc' # "send" \/ BeginCycle
    BY <1>2, <2>1, <2>2, NotPastKept
  <2>3. CASE ~(CycleStep \/ pc' # "send" \/ BeginCycle)
    <3>1. UNCHANGED uartVars
      BY <1>2, <2>3 DEF TransmitNext, PutIn, Read_rbuffer, ReadStep, TakeReply,
         SpinOnForeign, EndRead, Stuck
    <3> QED
      BY <1>2, <2>1, <3>1 DEF NotPast, uartVars
  <2> QED
    BY <2>2, <2>3
<1>3. Inv => Len(wbuffer) \in Nat /\ LeftToSend \in Nat
  <2> SUFFICES ASSUME Inv PROVE Len(wbuffer) \in Nat /\ LeftToSend \in Nat
    OBVIOUS
  <2>1. j \in Nat /\ Len(wbuffer) \in Nat
    BY DEF TransmitInv, TransmitTypeOK
  <2>2. wbuffer # <<>> => Head(wbuffer).length \in Nat
    BY FrameFields DEF TransmitInv, TransmitTypeOK
  <2> QED
    BY <2>1, <2>2 DEF LeftToSend, NotPast
<1>4. ASSUME Inv, [TransmitNext]_uartVars, pc = "send", ~UNCHANGED uartVars
      PROVE  \/ pc' = "read" /\ wbuffer' = <<>>
             \/ pc' = "send" /\ Len(wbuffer') < Len(wbuffer)
             \/ pc' = "send" /\ wbuffer' = wbuffer /\ LeftToSend' < LeftToSend
  <2>1. CycleStep
    BY <1>4 DEF TransmitNext, PutIn, BeginCycle, Read_rbuffer, ReadStep, TakeReply,
       SpinOnForeign, EndRead, Stuck
  <2> QED
    BY <1>3, <1>4, <2>1, CycleGoesOn
<1> QED
  BY <1>1, <1>2, <1>3, <1>4, PTL DEF TransmitSpec, CycleAdvances
=============================================================================
