--------------------------- MODULE IRReaderProofs ---------------------------
(***************************************************************************)
(* Theorems about IRReader for every number of learns, every learn_count   *)
(* and every capture.                                                      *)
(***************************************************************************)
EXTENDS IRReader, FiniteSetTheorems, SequenceTheorems, TLAPS

(* What the process does until somebody ends it.                           *)
LEMMA NextWorks == [Next]_vars => [Work]_work
  BY DEF Next, Runs, Die, vars

(* With more than one learn the callback neither calls nor merges, because *)
(* all buffers but the first stay as they were cleared.                    *)
ManyInv ==
    /\ learn_count \in LearnCounts
    /\ learn_count > 1 =>
        /\ calls = {}
        /\ pc \in [Learners -> {"none", "poll", "mark", "copy", "callback", "done"}]
        /\ DOMAIN IR_buf = 1..learn_count
        /\ \A m \in 2..learn_count : IR_buf[m] = Zeroed

LEMMA ManyInit == Init => ManyInv
  BY LearnAssumption DEF Init, ManyInv

LEMMA ManyNext == ManyInv /\ [Work]_work => ManyInv'
<1> SUFFICES ASSUME ManyInv, [Work]_work
             PROVE  ManyInv'
  OBVIOUS
<1>0. learn_count' = learn_count
  BY DEF Work, MainStep, Proceed, Edge, Rest, StartLearn, ClearCell, EndClear,
         AssignIRID, CreateThread, Sample, NoSample, Mark, CopyCell, EndCopy,
         CallbackOnce, CallbackMany, ArgIRID, MeasureByte,
         TextByte, EndString, CallDetail, EndDetail, kept, work
<1>a. CASE ~(learn_count > 1)
  BY <1>0, <1>a DEF ManyInv
<1>b. CASE learn_count > 1
  <2> USE <1>0, <1>b DEF ManyInv, Learners, kept, local
  <2>1. CASE StartLearn
    BY <2>1 DEF StartLearn, Zeroed, Buffer
  <2>2. CASE ClearCell
    <3> DEFINE m == cleared \div (Cells + 1) + 1
               c == cleared % (Cells + 1)
    <3>1. IR_buf' = [IR_buf EXCEPT ![m][c] = 0]
      BY <2>2 DEF ClearCell
    <3>2. DOMAIN IR_buf' = 1..learn_count
      BY <3>1
    <3>3. ASSUME NEW i \in 2..learn_count PROVE IR_buf'[i] = Zeroed
      <4>1. CASE i = m
        <5>1. IR_buf'[i] = [Zeroed EXCEPT ![c] = 0]
          BY <3>1, <3>3, <4>1, LearnAssumption
        <5> QED
          BY <5>1 DEF Zeroed
      <4>2. CASE i # m
        BY <3>1, <3>3, <4>2, LearnAssumption
      <4> QED
        BY <4>1, <4>2
    <3> QED
      BY <2>2, <3>2, <3>3 DEF ClearCell, Zeroed, Buffer
  <2>3. CASE EndClear \/ AssignIRID \/ CreateThread
    BY <2>3 DEF EndClear, AssignIRID, CreateThread, Zeroed, Buffer
  <2>4. ASSUME NEW n \in Learners, Edge(n) PROVE ManyInv'
    BY <2>4 DEF Edge, Sample, NoSample, Zeroed, Buffer
  <2>5. ASSUME NEW n \in Learners, Mark(n) \/ CopyCell(n) PROVE ManyInv'
    <3>1. PICK c, byte : IR_buf' = [IR_buf EXCEPT ![1][c] = byte]
      <4>1. CASE Mark(n)
        BY <4>1 DEF Mark
      <4>2. CASE CopyCell(n)
        BY <4>2 DEF CopyCell
      <4> QED
        BY <2>5, <4>1, <4>2
    <3>2. /\ DOMAIN IR_buf' = 1..learn_count
          /\ \A m \in 2..learn_count : IR_buf'[m] = IR_buf[m]
      BY <3>1, LearnAssumption
    <3>3. calls' = calls /\ Zeroed' = Zeroed
      BY <2>5 DEF Mark, CopyCell, Zeroed, Buffer
    <3>4. pc' \in [Learners -> {"none", "poll", "mark", "copy", "callback", "done"}]
      BY <2>5 DEF Mark, CopyCell
    <3> QED
      BY <3>2, <3>3, <3>4
  <2>6. ASSUME NEW n \in Learners, EndCopy(n) PROVE ManyInv'
    BY <2>6 DEF EndCopy, Zeroed, Buffer
  <2>7. ASSUME NEW n \in Learners, CallbackMany(n) PROVE ManyInv'
    <3>1. 2 \in 1..learn_count /\ IR_buf[2][0] = 0
      BY LearnAssumption, CaptureAssumption DEF Zeroed, Buffer
    <3>2. pc' = [pc EXCEPT ![n] = "done"]
      BY <2>7, <3>1 DEF CallbackMany
    <3> QED
      BY <2>7, <3>2 DEF CallbackMany, Zeroed, Buffer
  <2>8. ASSUME NEW n \in Learners,
               \/ CallbackOnce(n) \/ ArgIRID(n) \/ MeasureByte(n) \/ TextByte(n)
               \/ EndString(n) \/ CallDetail(n) \/ EndDetail(n)
        PROVE  FALSE
    BY <2>8, LearnAssumption
       DEF CallbackOnce, ArgIRID, MeasureByte, TextByte, EndString, CallDetail, EndDetail
  <2>9. CASE UNCHANGED work
    BY <2>9 DEF work, Zeroed, Buffer
  <2> QED
    BY <2>1, <2>2, <2>3, <2>4, <2>5, <2>6, <2>7, <2>8, <2>9
       DEF Work, MainStep, Proceed, Rest
<1> QED
  BY <1>a, <1>b, LearnAssumption DEF ManyInv

(* IRReader.cpp:205-206, 253-257: with learn_count above 1 no number of    *)
(* captures finishes a learn.                                              *)
THEOREM ManyNever == Spec => []ManyNeverFinish
<1>1. ManyInv => ManyNeverFinish
  BY DEF ManyInv, ManyNeverFinish
<1> QED
  BY <1>1, ManyInit, ManyNext, NextWorks, PTL DEF Spec
-----------------------------------------------------------------------------
(* Learners run only for requests that were made, now_IRID is the latest   *)
(* request's, or the one's before until start_learn_IR assigns it, and the *)
(* IRIDs picked up by a learner are its own or later ones.                 *)
Picked(n, IRID) == \E m \in n..Started : IRID = asked[m]

OrderInv ==
    /\ asked \in Seq(IRIDs)
    /\ main \in {"idle", "clear", "assign", "create"}
    /\ main # "idle" => Started >= 1
    /\ main \in {"idle", "create"} /\ Started >= 1 => now_IRID = asked[Started]
    /\ main \in {"clear", "assign"} /\ Started >= 2 => now_IRID = asked[Started - 1]
    /\ DOMAIN pc = Learners
    /\ \A n \in Learners :
         pc[n] # "none" => n <= Started /\ (n = Started => main = "idle")
    /\ DOMAIN picked = Learners
    /\ \A n \in Learners : picked[n] # <<>> => Picked(n, picked[n][1])
    /\ \A call \in calls : call.by \in Learners /\ Picked(call.by, call.IRID)

LEMMA OrderInit == Init => OrderInv
  BY LearnAssumption DEF Init, OrderInv, Learners, Started

(* A step that leaves now_IRID, the requests and what was picked up alone. *)
LEMMA OrderKept ==
  ASSUME OrderInv, UNCHANGED <<now_IRID, main, asked, picked, calls>>,
         DOMAIN pc' = Learners,
         \A n \in Learners : pc'[n] # "none" => pc[n] # "none"
  PROVE  OrderInv'
  BY DEF OrderInv, Started, Picked

(* A learner under way that looks at now_IRID finds its own or a later one. *)
LEMMA NowPicked ==
  ASSUME OrderInv, NEW n \in Learners, pc[n] # "none"
  PROVE  Picked(n, now_IRID)
<1>1. Started \in Nat /\ n \in Nat /\ n >= 1
  BY LearnAssumption DEF OrderInv, Started, Learners
<1>2. n <= Started /\ (n = Started => main = "idle")
  BY DEF OrderInv
<1>3. CASE main \in {"idle", "create"}
  BY <1>1, <1>2, <1>3 DEF OrderInv, Picked
<1>4. CASE main \in {"clear", "assign"}
  <2>1. n <= Started - 1 /\ now_IRID = asked[Started - 1]
    BY <1>1, <1>2, <1>4 DEF OrderInv
  <2> QED
    BY <1>1, <2>1 DEF Picked
<1> QED
  BY <1>3, <1>4 DEF OrderInv

LEMMA OrderNext == OrderInv /\ [Work]_work => OrderInv'
<1> SUFFICES ASSUME OrderInv, [Work]_work PROVE OrderInv'
  OBVIOUS
<1> USE DEF kept, local
<1>1. CASE StartLearn
  <2>1. PICK IRID \in IRIDs : asked' = Append(asked, IRID)
    BY <1>1 DEF StartLearn
  <2>2. /\ asked' \in Seq(IRIDs) /\ Started' = Started + 1 /\ Started \in Nat
        /\ \A m \in 1..Started : asked'[m] = asked[m]
    BY <2>1 DEF OrderInv, Started
  <2>3. ASSUME NEW n \in Learners, NEW x, Picked(n, x) PROVE Picked(n, x)'
    BY <2>2, <2>3, LearnAssumption DEF Picked, Learners
  <2>4. UNCHANGED <<now_IRID, pc, picked, calls>> /\ main = "idle" /\ main' = "clear"
    BY <1>1 DEF StartLearn
  <2>5. Started' >= 2 => now_IRID' = asked'[Started' - 1]
    BY <2>2, <2>4 DEF OrderInv
  <2>6. \A n \in Learners : pc'[n] # "none" => n <= Started' /\ n # Started'
    BY <2>2, <2>4, LearnAssumption DEF OrderInv, Learners
  <2> QED
    BY <2>2, <2>3, <2>4, <2>5, <2>6 DEF OrderInv
<1>2. CASE ClearCell \/ EndClear
  BY <1>2 DEF ClearCell, EndClear, OrderInv, Started, Picked
<1>3. CASE AssignIRID
  <2>1. Last(asked) = asked[Started]
    BY DEF Last, Started
  <2> QED
    BY <1>3, <2>1 DEF AssignIRID, OrderInv, Started, Picked
<1>4. CASE CreateThread
  <2>1. Started \in Nat
    BY DEF OrderInv, Started
  <2>2. \A n \in Learners : pc'[n] # "none" => pc[n] # "none" \/ n = Started
    BY <1>4 DEF CreateThread, OrderInv
  <2> QED
    BY <1>4, <2>1, <2>2 DEF CreateThread, OrderInv, Started, Picked
<1>5. ASSUME NEW n \in Learners, Edge(n) PROVE OrderInv'
  BY <1>5, OrderKept DEF Edge, Sample, NoSample, OrderInv
<1>6. ASSUME NEW n \in Learners,
             \/ Mark(n) \/ CopyCell(n) \/ EndCopy(n)
             \/ CallbackOnce(n) \/ CallbackMany(n)
             \/ MeasureByte(n) \/ TextByte(n) \/ EndString(n) \/ EndDetail(n)
      PROVE  OrderInv'
  BY <1>6, OrderKept
     DEF Mark, CopyCell, EndCopy, CallbackOnce, CallbackMany, MeasureByte, TextByte,
         EndString, EndDetail, OrderInv
<1>7. ASSUME NEW n \in Learners, ArgIRID(n) PROVE OrderInv'
  <2>1. Picked(n, now_IRID)
    BY <1>7, NowPicked DEF ArgIRID
  <2>2. /\ picked' = [picked EXCEPT ![n] = <<now_IRID>>]
        /\ UNCHANGED <<now_IRID, main, asked, pc, calls>>
    BY <1>7 DEF ArgIRID
  <2>3. DOMAIN picked' = Learners /\ picked'[n][1] = now_IRID
        /\ \A m \in Learners \ {n} : picked'[m] = picked[m]
    BY <2>2 DEF OrderInv
  <2> QED
    BY <2>1, <2>2, <2>3 DEF OrderInv, Started, Picked
<1>8. ASSUME NEW n \in Learners, CallDetail(n) PROVE OrderInv'
  <2>1. picked[n] # <<>>
    BY <1>8 DEF CallDetail
  <2>2. /\ DOMAIN pc' = Learners
        /\ \A m \in Learners : pc'[m] # "none" => pc[m] # "none"
    BY <1>8 DEF CallDetail, OrderInv
  <2> QED
    BY <1>8, <2>1, <2>2 DEF CallDetail, OrderInv, Started, Picked
<1>9. CASE UNCHANGED work
  BY <1>9 DEF work, OrderInv, Started, Picked
<1> QED
  BY <1>1, <1>2, <1>3, <1>4, <1>5, <1>6, <1>7, <1>8, <1>9
     DEF Work, MainStep, Proceed, Rest

(* IRReader.cpp:39 before 50: no learner passes on an IRID older than      *)
(* its own, however many learns overlap.                                   *)
THEOREM NeverEarlier == Spec => []NeverEarlierRequest
<1>1. OrderInv => NeverEarlierRequest
  BY DEF OrderInv, NeverEarlierRequest, Picked
<1> QED
  BY <1>1, OrderInit, OrderNext, NextWorks, PTL DEF Spec
-----------------------------------------------------------------------------
(* A C string is as long as there are bytes before the first 0, and has    *)
(* those bytes.                                                            *)
LEMMA CStringBytes ==
  ASSUME NEW bytes \in Seq(Nat)
  PROVE  /\ CString(bytes) \in Seq(Nat)
         /\ Len(CString(bytes)) \in 0..Len(bytes)
         /\ \A c \in 1..Len(CString(bytes)) : CString(bytes)[c] = bytes[c] /\ bytes[c] # 0
<1> DEFINE size == Cardinality(Readable(bytes))
<1>1. Readable(bytes) \subseteq 1..Len(bytes) /\ Len(bytes) \in Nat
  BY DEF Readable
<1>2. IsFiniteSet(1..Len(bytes)) /\ Cardinality(1..Len(bytes)) = Len(bytes)
  <2>1. IsFiniteSet(1..Len(bytes))
        /\ Cardinality(1..Len(bytes)) = IF 1 > Len(bytes) THEN 0 ELSE Len(bytes) - 1 + 1
    BY <1>1, 1 \in Int, Len(bytes) \in Int, FS_Interval
  <2> QED
    BY <1>1, <2>1
<1>3. size \in Nat /\ size <= Len(bytes)
  BY <1>1, <1>2, FS_Subset, FS_CardinalityType
<1>4. ASSUME NEW c \in 1..size PROVE bytes[c] # 0
  <2>1. SUFFICES ASSUME bytes[c] = 0 PROVE FALSE
    OBVIOUS
  <2>2. Readable(bytes) \subseteq 1..(c - 1)
    BY <1>3, <2>1 DEF Readable
  <2>3. IsFiniteSet(1..(c - 1)) /\ Cardinality(1..(c - 1)) = c - 1
    <3>1. IsFiniteSet(1..(c - 1))
          /\ Cardinality(1..(c - 1)) = IF 1 > c - 1 THEN 0 ELSE (c - 1) - 1 + 1
      BY <1>3, 1 \in Int, c - 1 \in Int, FS_Interval
    <3> QED
      BY <1>3, <3>1
  <2>4. size <= Cardinality(1..(c - 1))
    BY <2>2, <2>3, FS_Subset, FS_CardinalityType
  <2> QED
    BY <1>3, <2>3, <2>4
<1> HIDE DEF size
<1>5. /\ SubSeq(bytes, 1, size) \in Seq(Nat) /\ Len(SubSeq(bytes, 1, size)) = size
      /\ \A c \in 1..size : SubSeq(bytes, 1, size)[c] = bytes[c]
  BY <1>3
<1> QED
  BY <1>3, <1>4, <1>5 DEF CString, size

TypeInv == LearnOK /\ OrderInv

LEMMA TypeInit == Init => TypeInv
<1> SUFFICES ASSUME Init PROVE TypeInv
  OBVIOUS
<1> USE LearnAssumption, CaptureAssumption
<1>1. OrderInv
  BY OrderInit
<1>2. \A i \in 1..learn_count : Zeroed \in [Buffer -> Nat]
  BY DEF Zeroed
<1>3. cleared \in 0..(learn_count * (Cells + 1))
  <2>1. learn_count \in Nat /\ learn_count * (Cells + 1) \in Nat
    BY DEF Init
  <2> QED
    BY <2>1 DEF Init
<1>4. /\ cell \in [Learners -> 0..Cells] /\ length \in [Learners -> 0..(Cells + 1)]
      /\ text \in [Learners -> Seq(Nat)] /\ \A n \in Learners : Len(text[n]) <= length[n]
  BY DEF Init
<1> QED
  BY <1>1, <1>2, <1>3, <1>4 DEF Init, TypeInv, LearnOK, Started, Places

LEMMA TypeNext == TypeInv /\ [Work]_work => TypeInv'
<1> SUFFICES ASSUME TypeInv, [Work]_work PROVE LearnOK'
  BY OrderNext DEF TypeInv
<1> USE LearnAssumption, CaptureAssumption DEF TypeInv, LearnOK, Places, kept, local
<1>0. learn_count \in Nat \ {0} /\ IR_buf[1] \in [Buffer -> Nat]
  OBVIOUS
<1>1. CASE StartLearn
  <2>1. PICK IRID \in IRIDs : asked' = Append(asked, IRID)
    BY <1>1 DEF StartLearn
  <2>2. asked' \in Seq(IRIDs) /\ Started' = Started + 1 /\ Started \in Nat /\ Started' <= MaxLearns
    BY <1>1, <2>1 DEF StartLearn, Started
  <2>3. overlapped' \subseteq Learners
    <3>1. 1..Started \subseteq Learners /\ Started + 1 \in Learners
      BY <1>1, <2>2 DEF StartLearn, Learners
    <3>2. UnderWay \subseteq Learners
      BY <3>1 DEF UnderWay
    <3> QED
      BY <1>1, <3>1, <3>2 DEF StartLearn
  <2>4. cleared' \in 0..(learn_count * (Cells + 1))
    BY <1>0, <1>1 DEF StartLearn
  <2> QED
    BY <1>1, <2>2, <2>3, <2>4 DEF StartLearn
<1>2. CASE ClearCell
  <2>1. cleared' \in 0..(learn_count * (Cells + 1))
    BY <1>0, <1>2 DEF ClearCell
  <2>2. IR_buf' \in [1..learn_count -> [Buffer -> Nat]]
    BY <1>2 DEF ClearCell
  <2> QED
    BY <1>2, <2>1, <2>2 DEF ClearCell, Started
<1>3. CASE EndClear \/ CreateThread
  BY <1>3 DEF EndClear, CreateThread, Started
<1>4. CASE AssignIRID
  <2>1. now_IRID' \in IRIDs
    BY <1>4 DEF AssignIRID, OrderInv, Last, Started
  <2> QED
    BY <1>4, <2>1 DEF AssignIRID, Started
<1>5. ASSUME NEW n \in Learners,
             \/ Edge(n) \/ EndCopy(n) \/ CallbackOnce(n) \/ CallbackMany(n)
             \/ EndString(n) \/ EndDetail(n)
      PROVE  LearnOK'
  <2>1. /\ UNCHANGED <<IR_buf, now_IRID, main, cleared, asked, cell, picked, length, text, calls,
                       kept>>
        /\ \E at \in Places \ {"copy"} :
             /\ pc' = [pc EXCEPT ![n] = at]
             /\ \/ UNCHANGED capture /\ at # "mark"
                \/ \E bytes \in Captures : capture' = [capture EXCEPT ![n] = bytes]
    BY <1>5 DEF Edge, Sample, NoSample, EndCopy, CallbackOnce, CallbackMany, EndString, EndDetail
  <2>2. capture' \in [Learners -> Captures \cup {<<>>}]
    BY <2>1
  <2>3. \A m \in Learners : pc'[m] \in {"mark", "copy"} => capture'[m] \in Captures
    BY <2>1
  <2>4. pc' \in [Learners -> Places]
    BY <2>1
  <2> QED
    BY <2>1, <2>2, <2>3, <2>4 DEF Started
<1>6. ASSUME NEW n \in Learners, Mark(n) \/ CopyCell(n) PROVE LearnOK'
  <2>1. PICK b, byte \in Nat : IR_buf' = [IR_buf EXCEPT ![1][b] = byte]
    <3>1. CASE Mark(n)
      BY <3>1 DEF Mark
    <3>2. CASE CopyCell(n)
      <4>1. capture[n] \in [1..Cells -> Nat] /\ cell[n] + 1 \in 1..Cells
        <5>1. pc[n] = "copy" /\ cell[n] < Cells
          BY <3>2 DEF CopyCell
        <5>2. capture[n] \in Captures /\ cell[n] \in 0..Cells
          BY <5>1
        <5>3. \A k, m \in Nat : k < m => k + 1 \in 1..m
          OBVIOUS
        <5> QED
          BY <5>1, <5>2, <5>3, CaptureAssumption
      <4>2. capture[n][cell[n] + 1] \in Nat /\ cell[n] + 1 \in Nat
        BY <4>1
      <4>3. IR_buf' = [IR_buf EXCEPT ![1][cell[n] + 1] = capture[n][cell[n] + 1]]
        BY <3>2 DEF CopyCell
      <4> QED
        BY <4>2, <4>3
    <3> QED
      BY <1>6, <3>1, <3>2
  <2>2. IR_buf' \in [1..learn_count -> [Buffer -> Nat]]
    BY <2>1
  <2>3. cell' \in [Learners -> 0..Cells]
    <3>1. CASE Mark(n)
      BY <3>1 DEF Mark
    <3>2. CASE CopyCell(n)
      <4>1. cell[n] + 1 \in 0..Cells /\ cell' = [cell EXCEPT ![n] = cell[n] + 1]
        BY <3>2 DEF CopyCell
      <4> QED
        BY <4>1
    <3> QED
      BY <1>6, <3>1, <3>2
  <2>4. /\ pc' \in [Learners -> Places]
        /\ \A m \in Learners : pc'[m] \in {"mark", "copy"} => capture[m] \in Captures
        /\ UNCHANGED <<now_IRID, main, cleared, asked, capture, picked, length, text, calls, kept>>
    BY <1>6 DEF Mark, CopyCell
  <2> QED
    BY <2>2, <2>3, <2>4 DEF Started
<1>7. ASSUME NEW n \in Learners, ArgIRID(n) PROVE LearnOK'
  <2>1. OrderInv'
    BY OrderNext
  <2>2. /\ UNCHANGED <<IR_buf, now_IRID, main, cleared, asked, pc, capture, cell, length, text,
                       calls, kept>>
        /\ picked' = [picked EXCEPT ![n] = <<now_IRID>>] /\ picked'[n] = <<now_IRID>>
    BY <1>7 DEF ArgIRID
  <2>3. now_IRID \in IRIDs
    <3>1. \E m \in n..Started' : picked'[n][1] = asked'[m]
      <4>1. picked'[n] # <<>>
        BY <2>2
      <4>2. (picked[n] # <<>> => \E m \in n..Started : picked[n][1] = asked[m])'
        BY <2>1 DEF OrderInv, Picked
      <4> QED
        BY <4>1, <4>2
    <3>2. Started' = Len(asked) /\ asked' = asked /\ n \in Nat \ {0}
      BY <2>2 DEF Started, Learners
    <3> QED
      BY <2>2, <3>1, <3>2
  <2> QED
    BY <2>2, <2>3 DEF Started
<1>8. ASSUME NEW n \in Learners, MeasureByte(n) PROVE LearnOK'
  <2>1. /\ UNCHANGED <<IR_buf, now_IRID, main, cleared, asked, capture, cell, picked, text, calls,
                       kept>>
        /\ \E at \in {"measure", "string"} : pc' = [pc EXCEPT ![n] = at]
        /\ \/ UNCHANGED length
           \/ length[n] <= Cells /\ length' = [length EXCEPT ![n] = length[n] + 1]
    BY <1>8 DEF MeasureByte
  <2>2. /\ length' \in [Learners -> 0..(Cells + 1)]
        /\ \A m \in Learners : length'[m] >= length[m]
    <3>1. CASE UNCHANGED length
      BY <3>1
    <3>2. CASE length[n] <= Cells /\ length' = [length EXCEPT ![n] = length[n] + 1]
      <4>1. length[n] \in Nat /\ length[n] + 1 \in 0..(Cells + 1)
        BY <3>2
      <4> QED
        BY <3>2, <4>1
    <3> QED
      BY <2>1, <3>1, <3>2
  <2>3. \A m \in Learners : Len(text[m]) \in Nat /\ Len(text[m]) <= length'[m]
    BY <2>2
  <2> QED
    BY <2>1, <2>2, <2>3 DEF Started
<1>9. ASSUME NEW n \in Learners, TextByte(n) PROVE LearnOK'
  <2>1. /\ UNCHANGED <<IR_buf, now_IRID, main, cleared, asked, pc, capture, cell, picked, length,
                       calls, kept>>
        /\ text' = [text EXCEPT ![n] = Append(text[n], IR_buf[1][Len(text[n])])]
        /\ Len(text[n]) < length[n]
    BY <1>9 DEF TextByte
  <2>2. IR_buf[1][Len(text[n])] \in Nat
    <3>1. 1 \in 1..learn_count /\ IR_buf[1] \in [Buffer -> Nat]
      BY <1>0
    <3>2. text[n] \in Seq(Nat) /\ length[n] \in 0..(Cells + 1) /\ Cells \in Nat
      BY CaptureAssumption
    <3>3. \A k, l, m \in Nat : l \in 0..(m + 1) /\ k < l => k \in 0..m
      OBVIOUS
    <3>4. Len(text[n]) \in Nat /\ length[n] \in Nat
      BY <3>2
    <3>5. Len(text[n]) \in Buffer
      BY <2>1, <3>2, <3>3, <3>4, Zenon DEF Buffer
    <3> QED
      BY <3>1, <3>5
  <2>3. /\ text' \in [Learners -> Seq(Nat)] /\ Len(text'[n]) = Len(text[n]) + 1
        /\ \A m \in Learners \ {n} : text'[m] = text[m]
    BY <2>1, <2>2
  <2>4. \A m \in Learners : Len(text'[m]) <= length'[m]
    BY <2>1, <2>3
  <2> QED
    BY <2>1, <2>3, <2>4 DEF Started
<1>10. ASSUME NEW n \in Learners, CallDetail(n) PROVE LearnOK'
  <2> DEFINE new == [by |-> n, IRID |-> picked[n][1], signal |-> CString(text[n])]
  <2>1. picked[n][1] \in IRIDs /\ CString(text[n]) \in Seq(Nat)
    BY <1>10, CStringBytes DEF CallDetail
  <2>2. new \in Call
    BY <2>1 DEF Call
  <2>3. /\ UNCHANGED <<IR_buf, now_IRID, main, cleared, asked, local, kept>>
        /\ calls' = calls \cup {new}
        /\ pc' = [pc EXCEPT ![n] = "detail"]
    BY <1>10 DEF CallDetail
  <2> HIDE DEF new
  <2> QED
    BY <2>2, <2>3 DEF Started, Call
<1>11. CASE UNCHANGED work
  BY <1>11 DEF work, Started
<1> QED
  BY <1>1, <1>2, <1>3, <1>4, <1>5, <1>6, <1>7, <1>8, <1>9, <1>10, <1>11
     DEF Work, MainStep, Proceed, Rest

(* The buffers, requests, captures and calls keep their types, and what is *)
(* cleared, copied and counted stays inside the buffers.                   *)
THEOREM IRReaderTypeCorrect == Spec => []TypeOK
<1>1. Init => dead \in BOOLEAN
  BY DEF Init
<1>2. dead \in BOOLEAN /\ [Next]_vars => (dead \in BOOLEAN)'
  BY DEF Next, Runs, Die, vars
<1>3. TypeInv /\ dead \in BOOLEAN => TypeOK
  BY DEF TypeInv, TypeOK
<1> QED
  BY <1>1, <1>2, <1>3, TypeInit, TypeNext, NextWorks, PTL DEF Spec
-----------------------------------------------------------------------------
(* A byte somebody sampled at that place, and a string of such bytes.      *)
Sampled(c, byte) == \E n \in 1..Started : capture[n] # <<>> /\ byte = capture[n][c]
Genuine(signal) ==
    \A c \in DOMAIN signal : IF c = 1 THEN signal[c] = 1 ELSE Sampled(c - 1, signal[c])

(* What a place of the first buffer can hold: 0, the start byte, a sample. *)
Known(c, byte) == byte = 0 \/ IF c = 0 THEN byte = 1 ELSE Sampled(c, byte)

(* Whatever is cleared, marked and copied by whom, the first buffer holds  *)
(* nothing else, and nor does a string made of it.                         *)
BytesInv ==
    /\ TypeInv
    /\ \A n \in Learners : pc[n] \in {"none", "poll"} => capture[n] = <<>>
    /\ \A c \in Buffer : Known(c, IR_buf[1][c])
    /\ \A n \in Learners : \A c \in 1..Len(text[n]) : Known(c - 1, text[n][c])
    /\ \A call \in calls : Genuine(call.signal)

LEMMA BytesInit == Init => BytesInv
<1> SUFFICES ASSUME Init PROVE BytesInv
  OBVIOUS
<1>1. TypeInv
  BY TypeInit
<1>2. IR_buf[1] = Zeroed
  BY LearnAssumption DEF Init
<1>3. \A c \in Buffer : IR_buf[1][c] = 0
  BY <1>2 DEF Zeroed
<1>4. /\ calls = {} /\ \A n \in Learners : capture[n] = <<>> /\ Len(text[n]) = 0
  BY DEF Init
<1> QED
  BY <1>1, <1>3, <1>4 DEF BytesInv, Known

(* Captures stay, so what was somebody's sample stays one. *)
LEMMA SampledStays ==
  ASSUME BytesInv, [Work]_work
  PROVE  /\ \A n \in 1..Started : capture[n] # <<>> => capture'[n] = capture[n]
         /\ Started \in Nat /\ Started' \in Nat /\ Started' >= Started
         /\ \A c, byte : Sampled(c, byte) => Sampled(c, byte)'
         /\ \A c, byte : Known(c, byte) => Known(c, byte)'
         /\ \A signal : Genuine(signal) => Genuine(signal)'
<1>1. Started \in Nat /\ Started' \in Nat /\ Started' >= Started
  <2>1. asked' = asked \/ \E IRID \in IRIDs : asked' = Append(asked, IRID)
    BY DEF Work, MainStep, Proceed, Edge, Rest, StartLearn, ClearCell, EndClear,
           AssignIRID, CreateThread, Sample, NoSample, Mark, CopyCell, EndCopy,
           CallbackOnce, CallbackMany, ArgIRID, MeasureByte, TextByte, EndString,
           CallDetail, EndDetail, work
  <2> QED
    BY <2>1 DEF BytesInv, TypeInv, LearnOK, Started
<1>2. ASSUME NEW n \in 1..Started, capture[n] # <<>> PROVE capture'[n] = capture[n]
  <2>1. n \in Learners
    BY <1>1, LearnAssumption DEF BytesInv, TypeInv, LearnOK, Learners
  <2>2. CASE UNCHANGED capture
    BY <2>2
  <2>3. ASSUME NEW m \in Learners, Sample(m) PROVE capture'[n] = capture[n]
    BY <1>2, <2>1, <2>3 DEF Sample, BytesInv, TypeInv, LearnOK
  <2> QED
    BY <2>2, <2>3
       DEF Work, MainStep, Proceed, Edge, Rest, StartLearn, ClearCell, EndClear,
           AssignIRID, CreateThread, NoSample, Mark, CopyCell, EndCopy, CallbackOnce,
           CallbackMany, ArgIRID, MeasureByte, TextByte, EndString, CallDetail, EndDetail,
           work, local
<1>3. ASSUME NEW c, NEW byte, Sampled(c, byte) PROVE Sampled(c, byte)'
  <2>1. PICK n \in 1..Started : capture[n] # <<>> /\ byte = capture[n][c]
    BY <1>3 DEF Sampled
  <2>2. n \in 1..Started' /\ capture'[n] # <<>> /\ byte = capture'[n][c]
    BY <1>1, <1>2, <2>1
  <2> QED
    BY <2>2 DEF Sampled
<1>4. ASSUME NEW signal, Genuine(signal) PROVE Genuine(signal)'
  BY <1>3, <1>4 DEF Genuine
<1>5. ASSUME NEW c, NEW byte, Known(c, byte) PROVE Known(c, byte)'
  BY <1>3, <1>5 DEF Known
<1> QED
  BY <1>1, <1>2, <1>3, <1>4, <1>5

(* A step that leaves the buffers, the strings and the calls alone. *)
LEMMA BytesKept ==
  ASSUME BytesInv, [Work]_work, UNCHANGED <<IR_buf, text, calls>>,
         \A n \in Learners : pc'[n] \in {"none", "poll"} => capture'[n] = <<>>
  PROVE  BytesInv'
<1>1. TypeInv'
  BY TypeNext DEF BytesInv
<1>2. Buffer' = Buffer /\ Learners' = Learners
  BY DEF Buffer, Learners
<1> QED
  BY <1>1, <1>2, SampledStays DEF BytesInv

(* What a C string reader gets of a learner's string is genuine. *)
LEMMA TextGenuine ==
  ASSUME BytesInv, NEW n \in Learners
  PROVE  Genuine(CString(text[n]))
<1>1. PICK signal : signal = CString(text[n])
  OBVIOUS
<1>2. /\ signal \in Seq(Nat) /\ Len(signal) \in 0..Len(text[n]) /\ Len(text[n]) \in Nat
      /\ \A c \in 1..Len(signal) : signal[c] = text[n][c] /\ text[n][c] # 0
  BY <1>1, CStringBytes DEF BytesInv, TypeInv, LearnOK
<1>3. ASSUME NEW c \in 1..Len(signal)
      PROVE  IF c = 1 THEN signal[c] = 1 ELSE Sampled(c - 1, signal[c])
  <2>1. c \in 1..Len(text[n]) /\ signal[c] = text[n][c] /\ text[n][c] # 0
    BY <1>2
  <2>2. Known(c - 1, text[n][c])
    BY <2>1 DEF BytesInv
  <2> QED
    BY <2>1, <2>2 DEF Known
<1>4. DOMAIN signal = 1..Len(signal)
  BY <1>2
<1>5. Genuine(signal)
  BY <1>3, <1>4, Zenon DEF Genuine
<1> QED
  BY <1>1, <1>5

LEMMA BytesNext == BytesInv /\ [Work]_work => BytesInv'
<1> SUFFICES ASSUME BytesInv, [Work]_work PROVE BytesInv'
  OBVIOUS
<1>0. /\ TypeInv' /\ learn_count \in Nat \ {0} /\ IR_buf \in [1..learn_count -> [Buffer -> Nat]]
      /\ DOMAIN pc = Learners /\ text \in [Learners -> Seq(Nat)]
  BY TypeNext, LearnAssumption DEF BytesInv, TypeInv, LearnOK
<1> USE LearnAssumption, CaptureAssumption DEF kept, local
<1>1. CASE StartLearn \/ EndClear \/ AssignIRID \/ UNCHANGED work
  BY <1>1, BytesKept DEF StartLearn, EndClear, AssignIRID, work, BytesInv
<1>2. CASE CreateThread
  <2>1. \A n \in Learners : pc'[n] \in {"none", "poll"} => pc[n] \in {"none", "poll"}
    BY <1>0, <1>2 DEF CreateThread
  <2> QED
    BY <1>2, <2>1, BytesKept DEF CreateThread, BytesInv
<1>3. CASE ClearCell
  <2>1. PICK m, c : IR_buf' = [IR_buf EXCEPT ![m][c] = 0]
    BY <1>3 DEF ClearCell
  <2>2. \A d \in Buffer : IR_buf'[1][d] \in {0, IR_buf[1][d]}
    BY <1>0, <2>1
  <2>3. \A d \in Buffer : Known(d, IR_buf[1][d])'
    BY <2>2, SampledStays DEF BytesInv, Known
  <2>4. UNCHANGED <<pc, capture, text, calls>>
    BY <1>3 DEF ClearCell
  <2> QED
    BY <1>0, <2>3, <2>4, SampledStays DEF BytesInv, Buffer
<1>4. ASSUME NEW n \in Learners,
             \/ Edge(n) \/ EndCopy(n) \/ CallbackOnce(n) \/ CallbackMany(n)
             \/ ArgIRID(n) \/ MeasureByte(n) \/ EndString(n) \/ EndDetail(n)
      PROVE  BytesInv'
  <2>1. /\ UNCHANGED <<IR_buf, text, calls>>
        /\ \/ pc' = pc
           \/ \E at \in Places \ {"none", "poll"} : pc' = [pc EXCEPT ![n] = at]
        /\ \/ UNCHANGED capture
           \/ pc'[n] = "mark" /\ \E bytes : capture' = [capture EXCEPT ![n] = bytes]
    BY <1>0, <1>4
       DEF Edge, Sample, NoSample, EndCopy, CallbackOnce, CallbackMany, ArgIRID, MeasureByte,
           EndString, EndDetail, Places
  <2>2. \A m \in Learners : pc'[m] \in {"none", "poll"} =>
                             pc[m] \in {"none", "poll"} /\ capture'[m] = capture[m]
    BY <1>0, <2>1 DEF BytesInv, TypeInv, LearnOK
  <2> QED
    BY <2>1, <2>2, BytesKept DEF BytesInv
<1>5. ASSUME NEW n \in Learners, Mark(n) PROVE BytesInv'
  <2>1. /\ IR_buf' = [IR_buf EXCEPT ![1][0] = 1] /\ pc' = [pc EXCEPT ![n] = "copy"]
        /\ UNCHANGED <<capture, text, calls>>
    BY <1>5 DEF Mark
  <2>2. IR_buf'[1][0] = 1 /\ \A d \in Buffer \ {0} : IR_buf'[1][d] = IR_buf[1][d]
    BY <1>0, <2>1 DEF Buffer
  <2>3. \A m \in Learners : pc'[m] \in {"none", "poll"} => pc[m] \in {"none", "poll"}
    BY <1>0, <2>1
  <2>4. \A d \in Buffer : Known(d, IR_buf[1][d])'
    <3>1. Known(0, IR_buf[1][0])'
      BY <2>2 DEF Known
    <3>2. ASSUME NEW d \in Buffer \ {0} PROVE Known(d, IR_buf[1][d])'
      BY <2>2, SampledStays DEF BytesInv
    <3> QED
      BY <3>1, <3>2
  <2> QED
    BY <1>0, <2>1, <2>3, <2>4, SampledStays DEF BytesInv, Buffer
<1>6. ASSUME NEW n \in Learners, CopyCell(n) PROVE BytesInv'
  <2>1. capture[n] \in [1..Cells -> Nat] /\ cell[n] + 1 \in 1..Cells
    BY <1>6 DEF CopyCell, BytesInv, TypeInv, LearnOK
  <2>2. PICK c \in 1..Cells, byte \in Nat :
          /\ IR_buf' = [IR_buf EXCEPT ![1][c] = byte] /\ byte = capture[n][c]
    BY <1>6, <2>1 DEF CopyCell
  <2>3. capture[n] # <<>> /\ n \in 1..Started
    BY <1>6, <2>1 DEF CopyCell, BytesInv, TypeInv, OrderInv, Learners
  <2>4. Known(c, byte)'
    <3>1. Known(c, byte)
      BY <2>2, <2>3 DEF Sampled, Known
    <3> QED
      BY <3>1, SampledStays
  <2>5. IR_buf'[1][c] = byte /\ \A d \in Buffer \ {c} : IR_buf'[1][d] = IR_buf[1][d]
    BY <1>0, <2>2 DEF Buffer
  <2>6. \A d \in Buffer : Known(d, IR_buf[1][d])'
    <3>1. Known(c, IR_buf[1][c])'
      BY <2>4, <2>5
    <3>2. ASSUME NEW d \in Buffer \ {c} PROVE Known(d, IR_buf[1][d])'
      BY <2>5, SampledStays DEF BytesInv
    <3> QED
      BY <3>1, <3>2
  <2>7. UNCHANGED <<pc, capture, text, calls>>
    BY <1>6 DEF CopyCell
  <2> QED
    BY <1>0, <2>6, <2>7, SampledStays DEF BytesInv, Buffer
<1>7. ASSUME NEW n \in Learners, TextByte(n) PROVE BytesInv'
  <2>1. PICK size, byte : size = Len(text[n]) /\ byte = IR_buf[1][size]
    OBVIOUS
  <2>2. /\ text' = [text EXCEPT ![n] = Append(text[n], byte)] /\ size \in Buffer /\ size \in Nat
        /\ UNCHANGED <<IR_buf, pc, capture, calls>>
    BY <1>7, <2>1 DEF TextByte, Buffer, BytesInv, TypeInv, LearnOK
  <2>3. byte \in Nat /\ Known(size, byte)'
    BY <1>0, <2>1, <2>2, SampledStays DEF BytesInv
  <2>4. /\ Len(text'[n]) = size + 1 /\ text'[n][size + 1] = byte
        /\ \A c \in 1..size : text'[n][c] = text[n][c]
        /\ \A m \in Learners \ {n} : text'[m] = text[m]
    BY <1>0, <2>1, <2>2, <2>3
  <2>5. ASSUME NEW c \in 1..(size + 1) PROVE Known(c - 1, text[n][c])'
    <3>1. CASE c = size + 1
      <4>1. c - 1 = size /\ text'[n][c] = byte
        BY <2>2, <2>4, <3>1
      <4> QED
        BY <2>3, <4>1
    <3>2. CASE c \in 1..size
      BY <2>1, <2>4, <3>2, SampledStays DEF BytesInv
    <3>3. c = size + 1 \/ c \in 1..size
      BY <2>2, <2>5
    <3> QED
      BY <3>1, <3>2, <3>3
  <2>6. ASSUME NEW m \in Learners, m # n, NEW c \in 1..Len(text'[m])
        PROVE  Known(c - 1, text[m][c])'
    BY <2>4, <2>6, SampledStays DEF BytesInv
  <2> QED
    BY <1>0, <2>2, <2>4, <2>5, <2>6, SampledStays DEF BytesInv, Buffer
<1>8. ASSUME NEW n \in Learners, CallDetail(n) PROVE BytesInv'
  <2> DEFINE new == [by |-> n, IRID |-> picked[n][1], signal |-> CString(text[n])]
  <2>1. /\ calls' = calls \cup {new} /\ pc' = [pc EXCEPT ![n] = "detail"]
        /\ UNCHANGED <<IR_buf, capture, text>>
    BY <1>8 DEF CallDetail
  <2>2. Genuine(CString(text[n]))
    BY TextGenuine
  <2>3. \A m \in Learners : pc'[m] \in {"none", "poll"} => pc[m] \in {"none", "poll"}
    BY <1>0, <2>1
  <2>4. \A call \in calls' : Genuine(call.signal)'
    <3>1. new.signal = CString(text[n])
      OBVIOUS
    <3> HIDE DEF new
    <3> QED
      BY <2>1, <2>2, <3>1, SampledStays DEF BytesInv
  <2> QED
    BY <1>0, <2>1, <2>3, <2>4, SampledStays DEF BytesInv, Buffer
<1> QED
  BY <1>1, <1>2, <1>3, <1>4, <1>5, <1>6, <1>7, <1>8 DEF Work, MainStep, Proceed, Rest

(* However learns overlap, a signal passed on is the start byte and a mix  *)
(* of bytes that were sampled at their places.                             *)
THEOREM NothingInvented == Spec => []NoInventedBytes
<1>1. BytesInv => NoInventedBytes
  BY DEF BytesInv, NoInventedBytes, Genuine, Sampled
<1> QED
  BY <1>1, BytesInit, BytesNext, NextWorks, PTL DEF Spec
-----------------------------------------------------------------------------
(* What the first buffer is for a learner with the reader to itself: while *)
(* it copies, and from then on.                                            *)
Partial(n) == [c \in Buffer |-> IF c = 0 THEN 1 ELSE IF c <= cell[n] THEN capture[n][c] ELSE 0]
Own(n) ==
    IF capture[n] = <<>> THEN Zeroed ELSE [c \in Buffer |-> IF c = 0 THEN 1 ELSE capture[n][c]]

Untold(n) == picked[n] = <<>> /\ length[n] = 0 /\ text[n] = <<>>
Fresh(n) == cell[n] = 0 /\ Untold(n)

(* The bytes of Own(n) up to its first 0 are counted, then copied. *)
ToldOwn(n) ==
    /\ picked[n] \in {<<>>, <<asked[n]>>}
    /\ \A c \in 0..(length[n] - 1) : Own(n)[c] # 0
    /\ pc[n] \in {"string", "made"} => length[n] = Cells + 1 \/ Own(n)[length[n]] = 0
    /\ \A c \in 1..Len(text[n]) : text[n][c] = Own(n)[c - 1]
    /\ pc[n] = "made" => Len(text[n]) = length[n]

(* A learner that has been alone so far, with a learn_count of 1. *)
Undisturbed(n) ==
    /\ main = "clear" => \A c \in Buffer : c < cleared => IR_buf[1][c] = 0
    /\ main \in {"assign", "create"} \/ pc[n] \in {"poll", "mark"} => IR_buf[1] = Zeroed
    /\ pc[n] \in {"none", "poll", "mark"} => Fresh(n)
    /\ pc[n] = "copy" => IR_buf[1] = Partial(n)
    /\ pc[n] \in {"callback", "call", "measure", "string", "made"} => IR_buf[1] = Own(n)
    /\ pc[n] \in {"copy", "callback"} => Untold(n)
    /\ pc[n] = "call" => length[n] = 0
    /\ pc[n] \in {"call", "measure"} => text[n] = <<>>
    /\ pc[n] \in {"call", "measure", "string", "made"} => ToldOwn(n)

(* All bytes of Own(n), the buffer's last one apart. *)
Held(n) == [c \in 1..(Cells + 1) |-> Own(n)[c - 1]]

PassedOwn(call) ==
    call.by \notin overlapped =>
        call.IRID = asked[call.by] /\ call.signal = CString(Held(call.by))

(* Who has not been overlapped is the last one started and the only one    *)
(* under way.                                                              *)
AloneInv ==
    /\ BytesInv /\ ManyInv
    /\ \A n \in UnderWay \ overlapped : n = Started /\ UnderWay = {n}
    /\ learn_count = 1 => \A n \in UnderWay \ overlapped : Undisturbed(n)
    /\ \A n \in Learners : pc[n] = "none" => Fresh(n)
    /\ \A call \in calls : pc[call.by] \in {"detail", "done"} /\ PassedOwn(call)

LEMMA AloneInit == Init => AloneInv
<1> SUFFICES ASSUME Init PROVE AloneInv
  OBVIOUS
<1>1. UnderWay = {}
  BY DEF Init, UnderWay, Started
<1>2. calls = {} /\ \A n \in Learners : Fresh(n)
  BY DEF Init, Fresh, Untold
<1> QED
  BY <1>1, <1>2, BytesInit, ManyInit DEF AloneInv

(* The string counted and copied byte by byte is the one that is held. *)
LEMMA StringOfHeld ==
  ASSUME NEW bytes \in [Buffer -> Nat], NEW size \in 0..(Cells + 1), NEW string \in Seq(Nat),
         Len(string) = size, \A c \in 1..size : string[c] = bytes[c - 1] /\ string[c] # 0,
         size = Cells + 1 \/ bytes[size] = 0
  PROVE  CString(string) = CString([c \in 1..(Cells + 1) |-> bytes[c - 1]])
<1> USE CaptureAssumption
<1>1. PICK whole : whole = [c \in 1..(Cells + 1) |-> bytes[c - 1]]
  OBVIOUS
<1>2. whole \in Seq(Nat) /\ Len(whole) = Cells + 1
  BY <1>1 DEF Buffer
<1>3. \A c \in 1..size : string[c] = whole[c] /\ whole[c] # 0
  BY <1>1
<1>4. Readable(string) = 1..size
  BY DEF Readable
<1>5. Readable(whole) = 1..size
  <2>1. 1..size \subseteq Readable(whole)
    BY <1>2, <1>3 DEF Readable
  <2>2. ASSUME NEW c \in Readable(whole), c > size PROVE FALSE
    <3>1. c \in 1..(Cells + 1) /\ \A d \in 1..c : whole[d] # 0
      BY <1>2, <2>2 DEF Readable
    <3>2. size + 1 \in 1..c /\ size + 1 \in 1..(Cells + 1) /\ size # Cells + 1
      BY <2>2, <3>1
    <3>3. whole[size + 1] = bytes[size]
      BY <1>1, <3>2
    <3> QED
      BY <3>1, <3>2, <3>3
  <2>3. Readable(whole) \subseteq Nat \ {0}
    BY <1>2 DEF Readable
  <2>4. Readable(whole) \subseteq 1..size
    <3> SUFFICES ASSUME NEW c \in Readable(whole) PROVE c \in 1..size
      OBVIOUS
    <3>1. c \in Nat \ {0} /\ ~(c > size)
      BY <2>2, <2>3
    <3> QED
      BY <3>1
  <2> QED
    BY <2>1, <2>4
<1>6. Cardinality(1..size) = size
  <2>1. Cardinality(1..size) = IF 1 > size THEN 0 ELSE size - 1 + 1
    BY 1 \in Int, size \in Int, FS_Interval
  <2> QED
    BY <2>1
<1>7. SubSeq(string, 1, size) = SubSeq(whole, 1, size)
  BY <1>2, <1>3
<1> QED
  BY <1>1, <1>4, <1>5, <1>6, <1>7 DEF CString

LEMMA EmptyString == CString([c \in 1..(Cells + 1) |-> Zeroed[c - 1]]) = <<>>
<1> USE CaptureAssumption
<1>1. PICK whole : whole = [c \in 1..(Cells + 1) |-> Zeroed[c - 1]]
  OBVIOUS
<1>2. DOMAIN whole = 1..(Cells + 1) /\ whole[1] = 0
  BY <1>1 DEF Zeroed, Buffer
<1>3. Readable(whole) = {}
  BY <1>2 DEF Readable
<1>4. Cardinality(Readable(whole)) = 0
  BY <1>3, FS_EmptySet
<1>5. SubSeq(whole, 1, 0) = <<>>
  OBVIOUS
<1> QED
  BY <1>1, <1>4, <1>5 DEF CString

(* Calls are kept with what they are about. *)
LEMMA CallsStay ==
  ASSUME AloneInv, [Work]_work, NEW call \in calls
  PROVE  pc'[call.by] \in {"detail", "done"} /\ PassedOwn(call)'
<1>1. call.by \in Learners /\ pc[call.by] \in {"detail", "done"} /\ PassedOwn(call)
  BY DEF AloneInv, BytesInv, TypeInv, LearnOK, Call
<1>2. call.by \in 1..Started
  BY <1>1, LearnAssumption DEF AloneInv, BytesInv, TypeInv, OrderInv, Learners
<1>3. /\ pc'[call.by] \in {"detail", "done"} /\ capture'[call.by] = capture[call.by]
      /\ asked' = asked \/ \E IRID \in IRIDs : asked' = Append(asked, IRID)
      /\ call.by \notin overlapped' => call.by \notin overlapped
  <2> USE <1>1 DEF AloneInv, BytesInv, TypeInv, LearnOK, kept, local
  <2>1. CASE StartLearn
    BY <2>1 DEF StartLearn
  <2>2. CASE ClearCell \/ EndClear \/ AssignIRID \/ UNCHANGED work
    BY <2>2 DEF ClearCell, EndClear, AssignIRID, work
  <2>3. CASE CreateThread
    BY <1>1, <2>3 DEF CreateThread
  <2>4. ASSUME NEW n \in Learners, Edge(n) \/ Proceed(n) \/ EndDetail(n)
        PROVE  /\ pc'[call.by] \in {"detail", "done"} /\ capture'[call.by] = capture[call.by]
               /\ UNCHANGED <<asked, overlapped>>
    <3>1. n # call.by \/ EndDetail(n)
      BY <2>4
         DEF Edge, Proceed, Sample, NoSample, Mark, CopyCell, EndCopy, CallbackOnce,
             CallbackMany, ArgIRID, MeasureByte, TextByte, EndString, CallDetail
    <3>2. /\ pc' = pc \/ \E at : pc' = [pc EXCEPT ![n] = at]
          /\ capture' = capture \/ \E bytes : capture' = [capture EXCEPT ![n] = bytes]
          /\ UNCHANGED <<asked, overlapped>>
      BY <2>4
         DEF Edge, Proceed, Sample, NoSample, Mark, CopyCell, EndCopy, CallbackOnce,
             CallbackMany, ArgIRID, MeasureByte, TextByte, EndString, CallDetail, EndDetail
    <3>3. EndDetail(n) => capture' = capture /\ pc' = [pc EXCEPT ![n] = "done"]
      BY DEF EndDetail
    <3> QED
      BY <3>1, <3>2, <3>3
  <2> QED
    BY <2>1, <2>2, <2>3, <2>4 DEF Work, MainStep, Rest
<1>4. asked'[call.by] = asked[call.by]
  BY <1>2, <1>3 DEF Started, AloneInv, BytesInv, TypeInv, LearnOK
<1>5. Held(call.by)' = Held(call.by)
  BY <1>3 DEF Held, Own, Zeroed, Buffer
<1> QED
  BY <1>1, <1>3, <1>4, <1>5 DEF PassedOwn, CString, Readable

(* What is left to show of a step that starts no learn. *)
LEMMA AloneKept ==
  ASSUME AloneInv, [Work]_work, UNCHANGED <<asked, overlapped>>,
         \A n \in Learners : pc[n] \in {"detail", "done"} => pc'[n] \in {"detail", "done"},
         \A n \in Learners : pc'[n] = "none" => Fresh(n)',
         learn_count = 1 => \A n \in UnderWay' \ overlapped : Undisturbed(n)',
         \A call \in calls' \ calls : pc'[call.by] \in {"detail", "done"} /\ PassedOwn(call)'
  PROVE  AloneInv'
<1>1. BytesInv' /\ ManyInv' /\ learn_count' = learn_count
  <2>1. learn_count' = learn_count
    BY DEF Work, MainStep, Proceed, Edge, Rest, StartLearn, ClearCell, EndClear,
           AssignIRID, CreateThread, Sample, NoSample, Mark, CopyCell, EndCopy,
           CallbackOnce, CallbackMany, ArgIRID, MeasureByte, TextByte, EndString,
           CallDetail, EndDetail, kept, work
  <2> QED
    BY <2>1, BytesNext, ManyNext DEF AloneInv
<1>2. UnderWay' \subseteq UnderWay /\ Started' = Started
  <2>1. Started' = Started
    BY DEF Started
  <2>2. 1..Started \subseteq Learners
    BY LearnAssumption DEF Started, Learners, AloneInv, BytesInv, TypeInv, LearnOK
  <2> QED
    BY <2>1, <2>2 DEF UnderWay
<1>3. \A n \in UnderWay' \ overlapped' : n = Started' /\ UnderWay' = {n}
  BY <1>2 DEF AloneInv
<1>4. \A call \in calls' : pc'[call.by] \in {"detail", "done"} /\ PassedOwn(call)'
  BY CallsStay
<1> QED
  BY <1>1, <1>2, <1>3, <1>4 DEF AloneInv

(* While a learner is alone no other one takes a step under way. *)
LEMMA OnlyOwnSteps ==
  ASSUME AloneInv, NEW n \in UnderWay \ overlapped, NEW m \in Learners,
         pc[m] \notin {"none", "detail", "done"}
  PROVE  m = n /\ n = Started /\ main = "idle"
<1>1. n = Started /\ UnderWay = {n}
  BY DEF AloneInv
<1>2. m \in UnderWay
  BY LearnAssumption DEF AloneInv, BytesInv, TypeInv, OrderInv, UnderWay, Learners
<1>3. m = Started => main = "idle"
  BY DEF AloneInv, BytesInv, TypeInv, OrderInv
<1> QED
  BY <1>1, <1>2, <1>3

LEMMA SmallQuotient ==
  ASSUME NEW a \in Nat, NEW b \in Nat \ {0}, a < b
  PROVE  a \div b = 0 /\ a % b = a
<1>1. a \div b = 0
  OBVIOUS
<1>2. a % b = a
  OBVIOUS
<1> QED
  BY <1>1, <1>2

LEMMA AloneMain ==
  ASSUME AloneInv, [Work]_work, ClearCell \/ EndClear \/ AssignIRID \/ CreateThread
  PROVE  AloneInv'
<1> USE LearnAssumption, CaptureAssumption DEF kept, local
<1>0. /\ IR_buf \in [1..learn_count -> [Buffer -> Nat]] /\ learn_count \in Nat \ {0}
      /\ pc \in [Learners -> Places]
      /\ Started \in Learners /\ (pc[Started] = "none" \/ pc[Started] = "done" \/ main = "idle")
      /\ cleared \in Nat /\ UnderWay \subseteq Learners
      /\ main # "idle"
  <2> USE DEF AloneInv, BytesInv, TypeInv
  <2>1. /\ IR_buf \in [1..learn_count -> [Buffer -> Nat]] /\ learn_count \in Nat \ {0}
        /\ pc \in [Learners -> Places]
        /\ Started \in Nat /\ Started <= MaxLearns
    BY DEF LearnOK, Started
  <2>2. main # "idle"
    BY DEF ClearCell, EndClear, AssignIRID, CreateThread
  <2>3. Started \in Learners
    BY <2>1, <2>2 DEF OrderInv, Learners
  <2>4. pc[Started] = "none"
    BY <2>2, <2>3 DEF OrderInv
  <2>5. learn_count * (Cells + 1) \in Nat /\ cleared \in 0..(learn_count * (Cells + 1))
    BY <2>1 DEF LearnOK
  <2>6. UnderWay \subseteq Learners
    BY <2>1 DEF UnderWay, Learners
  <2> QED
    BY <2>1, <2>2, <2>3, <2>4, <2>5, <2>6
<1>1. /\ UNCHANGED <<asked, overlapped, local, calls>>
      /\ UNCHANGED pc \/ \E at \in {"poll", "done"} : pc' = [pc EXCEPT ![Started] = at]
      /\ pc' # pc => CreateThread
  BY DEF ClearCell, EndClear, AssignIRID, CreateThread
<1>2. ASSUME NEW n \in Learners PROVE Fresh(n)' <=> Fresh(n)
  BY <1>1 DEF Fresh, Untold
<1>3. /\ \A n \in Learners : pc'[n] = "none" => Fresh(n)'
      /\ \A n \in Learners : pc[n] \in {"detail", "done"} => pc'[n] \in {"detail", "done"}
  <2>1. \A n \in Learners : pc'[n] = "none" => pc[n] = "none"
    BY <1>0, <1>1
  <2>2. pc' # pc => pc[Started] = "none"
    BY <1>1 DEF CreateThread
  <2> QED
    BY <1>0, <1>1, <1>2, <2>1, <2>2 DEF AloneInv
<1>4. ASSUME learn_count = 1, NEW n \in UnderWay' \ overlapped PROVE Undisturbed(n)'
  <2>1. n \in UnderWay \ overlapped /\ n = Started
    <3>1. UnderWay' \subseteq UnderWay
      <4>1. Started' = Started /\ 1..Started \subseteq Learners
        BY <1>0, <1>1 DEF Started, Learners
      <4> QED
        BY <1>3, <4>1 DEF UnderWay
    <3>2. n \in UnderWay \ overlapped
      BY <1>4, <3>1
    <3> QED
      BY <3>2 DEF AloneInv
  <2>2. Undisturbed(n) /\ pc[n] = "none" /\ Fresh(n)
    BY <1>0, <1>4, <2>1 DEF AloneInv, UnderWay
  <2>3. Fresh(n)' /\ Untold(n)' /\ pc'[n] \in {"none", "poll", "done"}
    BY <1>0, <1>1, <1>2, <2>1, <2>2 DEF Fresh
  <2>4. CASE ClearCell
    <3>1. cleared \div (Cells + 1) = 0 /\ cleared % (Cells + 1) = cleared /\ cleared \in Buffer
      <4>1. cleared < Cells + 1 /\ Cells + 1 \in Nat \ {0}
        BY <1>4, <2>4 DEF ClearCell
      <4>2. cleared \in Nat
        BY <1>0
      <4>3. cleared \div (Cells + 1) = 0 /\ cleared % (Cells + 1) = cleared
        BY <4>1, <4>2, SmallQuotient
      <4>4. cleared \in Buffer
        BY <4>1, <4>2 DEF Buffer
      <4> QED
        BY <4>3, <4>4
    <3>2. IR_buf' = [IR_buf EXCEPT ![1][cleared] = 0] /\ cleared' = cleared + 1
          /\ UNCHANGED <<main, pc>> /\ main = "clear"
      <4>1. IR_buf' = [IR_buf EXCEPT ![cleared \div (Cells + 1) + 1][cleared % (Cells + 1)] = 0]
        BY <2>4 DEF ClearCell
      <4>2. 0 + 1 = 1 /\ cleared % (Cells + 1) = cleared /\ cleared \div (Cells + 1) = 0
        BY <3>1
      <4>3. IR_buf' = [IR_buf EXCEPT ![1][cleared] = 0]
        BY <4>1, <4>2, Zenon
      <4> QED
        BY <2>4, <4>3 DEF ClearCell
    <3>3. \A c \in Buffer : c < cleared' => IR_buf'[1][c] = 0
      BY <1>0, <2>2, <3>1, <3>2 DEF Undisturbed, Buffer
    <3> QED
      BY <2>2, <2>3, <3>2, <3>3 DEF Undisturbed, Buffer
  <2>5. CASE EndClear
    <3>1. cleared = Cells + 1 /\ main = "clear" /\ UNCHANGED <<IR_buf, pc>> /\ main' = "assign"
      BY <1>4, <2>5 DEF EndClear
    <3>2. \A c \in Buffer : IR_buf[1][c] = 0
      BY <2>2, <3>1 DEF Undisturbed, Buffer
    <3>3. IR_buf[1] = Zeroed
      BY <1>0, <3>2 DEF Zeroed
    <3> QED
      BY <2>2, <2>3, <3>1, <3>3 DEF Undisturbed, Zeroed, Buffer
  <2>6. CASE AssignIRID \/ CreateThread
    <3>1. IR_buf' = IR_buf /\ main' \in {"create", "idle"} /\ IR_buf[1] = Zeroed
      BY <2>2, <2>6 DEF AssignIRID, CreateThread, Undisturbed
    <3> QED
      BY <2>3, <3>1 DEF Undisturbed, Zeroed, Buffer
  <2> QED
    BY <2>4, <2>5, <2>6
<1> QED
  BY <1>1, <1>3, <1>4, AloneKept

LEMMA FirstWritten ==
  ASSUME NEW bufs, NEW c, NEW byte, 1 \in DOMAIN bufs
  PROVE  [bufs EXCEPT ![1][c] = byte][1] = [bufs[1] EXCEPT ![c] = byte]
  OBVIOUS

(* The steps of a learner from its poll to its callback. *)
LEMMA AloneCapture ==
  ASSUME AloneInv, [Work]_work, NEW n \in Learners,
         Edge(n) \/ Mark(n) \/ CopyCell(n) \/ EndCopy(n) \/ CallbackOnce(n) \/ CallbackMany(n)
  PROVE  AloneInv'
<1> USE LearnAssumption, CaptureAssumption DEF kept, local
<1>0. /\ IR_buf \in [1..learn_count -> [Buffer -> Nat]] /\ learn_count \in Nat \ {0}
      /\ DOMAIN pc = Learners /\ capture \in [Learners -> Captures \cup {<<>>}]
      /\ cell \in [Learners -> 0..Cells]
      /\ pc[n] \in {"mark", "copy"} => capture[n] \in Captures
      /\ pc[n] \in {"none", "poll"} => capture[n] = <<>>
  BY DEF AloneInv, BytesInv, TypeInv, LearnOK
<1>1. /\ UNCHANGED <<asked, overlapped, picked, length, text, calls, main>>
      /\ pc[n] \in {"poll", "mark", "copy", "callback"}
      /\ pc' = pc \/ \E at \in {"mark", "copy", "callback", "call", "merge", "done"} :
                        pc' = [pc EXCEPT ![n] = at]
      /\ cell' = cell \/ cell' = [cell EXCEPT ![n] = @ + 1]
  BY DEF Edge, Sample, NoSample, Mark, CopyCell, EndCopy, CallbackOnce, CallbackMany
<1>2. /\ \A m \in Learners : pc'[m] = "none" => Fresh(m)'
      /\ \A m \in Learners : pc[m] \in {"detail", "done"} => pc'[m] \in {"detail", "done"}
  <2>1. \A m \in Learners : pc'[m] = "none" => pc[m] = "none" /\ m # n
    BY <1>0, <1>1
  <2>2. \A m \in Learners : pc'[m] = "none" => cell'[m] = cell[m] /\ Fresh(m)
    BY <1>0, <1>1, <2>1 DEF AloneInv
  <2> QED
    BY <1>0, <1>1, <2>2 DEF Fresh, Untold
<1>3. ASSUME learn_count = 1, NEW m \in UnderWay' \ overlapped PROVE Undisturbed(m)'
  <2>1. m \in UnderWay \ overlapped
    <3>1. Started' = Started /\ 1..Started \subseteq Learners
      BY <1>1 DEF Started, Learners, AloneInv, BytesInv, TypeInv, LearnOK
    <3> QED
      BY <1>2, <1>3, <3>1 DEF UnderWay
  <2>2. m = n /\ main = "idle" /\ main' = "idle"
    BY <1>1, <2>1, OnlyOwnSteps
  <2>3. Undisturbed(n)
    BY <1>3, <2>1, <2>2 DEF AloneInv
  <2>4. Untold(n)' /\ pc'[n] \in {"poll", "mark", "copy", "callback", "call", "merge", "done"}
    BY <1>0, <1>1, <2>3 DEF Undisturbed, Fresh, Untold
  <2>a. ToldOwn(n)'
    <3>1. length'[n] = 0 /\ Len(text'[n]) = 0 /\ picked'[n] = <<>>
      BY <2>4 DEF Untold
    <3> QED
      BY <2>4, <3>1 DEF ToldOwn
  <2>5. SUFFICES /\ pc'[n] \in {"poll", "mark"} => IR_buf'[1] = Zeroed' /\ Fresh(n)'
                 /\ pc'[n] = "copy" => IR_buf'[1] = Partial(n)'
                 /\ pc'[n] \in {"callback", "call"} => IR_buf'[1] = Own(n)'
    BY <2>2, <2>4, <2>a, <2>5 DEF Undisturbed, Untold
  <2>6. CASE Edge(n)
    <3>1. pc[n] = "poll" /\ IR_buf' = IR_buf /\ cell' = cell /\ pc'[n] \in {"mark", "callback"}
      BY <1>0, <2>6 DEF Edge, Sample, NoSample
    <3>2. IR_buf[1] = Zeroed /\ Fresh(n) /\ Zeroed' = Zeroed
      BY <2>3, <3>1 DEF Undisturbed, Zeroed, Buffer
    <3>3. Fresh(n)'
      BY <1>1, <3>1, <3>2 DEF Fresh, Untold
    <3>4. pc'[n] = "callback" => Own(n)' = Zeroed'
      BY <1>0, <2>6, <3>1 DEF Edge, Sample, NoSample, Own
    <3> QED
      BY <3>1, <3>2, <3>3, <3>4
  <2>7. CASE Mark(n)
    <3>1. /\ IR_buf' = [IR_buf EXCEPT ![1][0] = 1] /\ cell' = cell /\ capture' = capture
          /\ pc'[n] = "copy" /\ pc[n] = "mark"
      BY <1>0, <2>7 DEF Mark
    <3>2. IR_buf[1] = Zeroed /\ cell[n] = 0
      BY <2>3, <3>1 DEF Undisturbed, Fresh
    <3>3. IR_buf'[1] = [IR_buf[1] EXCEPT ![0] = 1]
      <4>1. 1 \in DOMAIN IR_buf
        BY <1>0
      <4>2. [IR_buf EXCEPT ![1][0] = 1][1] = [IR_buf[1] EXCEPT ![0] = 1]
        BY <4>1, FirstWritten
      <4> QED
        BY <3>1, <4>2, Zenon
    <3>4. IR_buf'[1] = Partial(n)
      BY <3>2, <3>3 DEF Partial, Zeroed, Buffer
    <3>5. Partial(n)' = Partial(n)
      BY <3>1 DEF Partial, Buffer
    <3> QED
      BY <3>1, <3>4, <3>5
  <2>8. CASE CopyCell(n)
    <3>1. /\ IR_buf' = [IR_buf EXCEPT ![1][cell[n] + 1] = capture[n][cell[n] + 1]]
          /\ cell' = [cell EXCEPT ![n] = @ + 1] /\ capture' = capture
          /\ pc' = pc /\ pc[n] = "copy" /\ cell[n] + 1 \in 1..Cells
      BY <1>0, <2>8 DEF CopyCell
    <3>2. IR_buf[1] = Partial(n) /\ cell'[n] = cell[n] + 1 /\ cell[n] \in Nat
      BY <1>0, <2>3, <3>1 DEF Undisturbed
    <3>3. PICK at, byte : at = cell[n] + 1 /\ byte = capture[n][cell[n] + 1]
      OBVIOUS
    <3>6. IR_buf'[1] = [IR_buf[1] EXCEPT ![at] = byte]
      <4>1. 1 \in DOMAIN IR_buf
        BY <1>0
      <4>2. [IR_buf EXCEPT ![1][at] = byte][1] = [IR_buf[1] EXCEPT ![at] = byte]
        BY <4>1, FirstWritten
      <4>3. IR_buf' = [IR_buf EXCEPT ![1][at] = byte]
        BY <3>1, <3>3
      <4> QED
        BY <4>2, <4>3, Zenon
    <3>7. at \in 1..Cells /\ at = cell[n] + 1 /\ byte = capture[n][at]
      BY <3>1, <3>3
    <3>4. IR_buf'[1] = [c \in Buffer |-> IF c = 0 THEN 1
                                        ELSE IF c <= cell[n] + 1 THEN capture[n][c] ELSE 0]
      <4>1. DOMAIN IR_buf[1] = Buffer
        BY <3>2 DEF Partial
      <4>2. IR_buf'[1] = [c \in Buffer |-> IF c = at THEN byte ELSE IR_buf[1][c]]
        BY <3>6, <4>1
      <4>3. ASSUME NEW c \in Buffer
            PROVE  (IF c = at THEN byte ELSE IR_buf[1][c])
                     = (IF c = 0 THEN 1 ELSE IF c <= cell[n] + 1 THEN capture[n][c] ELSE 0)
        BY <3>2, <3>7, <4>3 DEF Partial, Buffer
      <4> QED
        BY <4>2, <4>3
    <3>8. capture'[n] = capture[n] /\ cell'[n] = cell[n] + 1
      BY <3>1, <3>2
    <3>9. Partial(n)' = [c \in Buffer |-> IF c = 0 THEN 1
                                         ELSE IF c <= cell[n] + 1 THEN capture[n][c] ELSE 0]
      BY <3>8, Zenon DEF Partial, Buffer
    <3>5. IR_buf'[1] = Partial(n)'
      BY <3>4, <3>9, Zenon
    <3> QED
      BY <3>1, <3>5
  <2>9. CASE EndCopy(n)
    <3>1. UNCHANGED <<IR_buf, cell, capture>> /\ pc'[n] = "callback" /\ pc[n] = "copy" /\ cell[n] = Cells
      BY <1>0, <2>9 DEF EndCopy
    <3>2. IR_buf[1] = Partial(n) /\ capture[n] \in [1..Cells -> Nat]
      BY <1>0, <2>3, <3>1 DEF Undisturbed
    <3>3. capture[n] # <<>>
      BY <3>2
    <3>4. Partial(n) = Own(n)
      BY <3>1, <3>3 DEF Partial, Own, Buffer
    <3>5. Own(n)' = Own(n)
      BY <3>1 DEF Own, Zeroed, Buffer
    <3> QED
      BY <3>1, <3>2, <3>4, <3>5
  <2>10. CASE CallbackOnce(n) \/ CallbackMany(n)
    <3>1. /\ UNCHANGED <<IR_buf, capture>> /\ pc'[n] \in {"call", "done"} /\ pc[n] = "callback"
      BY <1>0, <1>3, <2>10 DEF CallbackOnce, CallbackMany
    <3>2. IR_buf[1] = Own(n) /\ Own(n)' = Own(n)
      BY <2>3, <3>1 DEF Undisturbed, Own, Zeroed, Buffer
    <3> QED
      BY <3>1, <3>2
  <2> QED
    BY <2>6, <2>7, <2>8, <2>9, <2>10
<1> QED
  BY <1>0, <1>1, <1>2, <1>3, AloneKept

(* Its steps inside the call, where the string is made and passed on. *)
LEMMA AloneCall ==
  ASSUME AloneInv, [Work]_work, NEW n \in Learners,
         ArgIRID(n) \/ MeasureByte(n) \/ TextByte(n) \/ EndString(n) \/ CallDetail(n)
  PROVE  AloneInv'
<1> USE LearnAssumption, CaptureAssumption DEF kept, local
<1>0. /\ IR_buf[1] \in [Buffer -> Nat] /\ DOMAIN pc = Learners /\ DOMAIN picked = Learners
      /\ length \in [Learners -> 0..(Cells + 1)] /\ text \in [Learners -> Seq(Nat)]
      /\ learn_count = 1 /\ 1..Started \subseteq Learners
  <2>1. learn_count \in Nat \ {0} /\ ~(learn_count > 1)
    BY DEF AloneInv, ManyInv, BytesInv, TypeInv, LearnOK, ArgIRID, MeasureByte, TextByte,
           EndString, CallDetail
  <2>2. learn_count = 1
    BY <2>1
  <2>3. IR_buf[1] \in [Buffer -> Nat]
    BY <2>2 DEF AloneInv, BytesInv, TypeInv, LearnOK
  <2>4. DOMAIN pc = Learners /\ DOMAIN picked = Learners
    BY DEF AloneInv, BytesInv, TypeInv, OrderInv
  <2>5. length \in [Learners -> 0..(Cells + 1)] /\ text \in [Learners -> Seq(Nat)]
    BY DEF AloneInv, BytesInv, TypeInv, LearnOK
  <2>6. 1..Started \subseteq Learners
    BY DEF AloneInv, BytesInv, TypeInv, LearnOK, Started, Learners
  <2> QED
    BY <2>2, <2>3, <2>4, <2>5, <2>6
<1>1. /\ UNCHANGED <<asked, overlapped, IR_buf, capture, main, now_IRID, cell>>
      /\ pc[n] \in {"call", "measure", "string", "made"}
      /\ \/ pc' = pc
         \/ \E at \in {"measure", "string", "made", "detail"} : pc' = [pc EXCEPT ![n] = at]
      /\ \A m \in Learners :
           m # n => picked'[m] = picked[m] /\ length'[m] = length[m] /\ text'[m] = text[m]
  BY <1>0 DEF ArgIRID, MeasureByte, TextByte, EndString, CallDetail
<1>2. /\ \A m \in Learners : pc'[m] = "none" => Fresh(m)'
      /\ \A m \in Learners : pc[m] \in {"detail", "done"} => pc'[m] \in {"detail", "done"}
  BY <1>0, <1>1 DEF AloneInv, Fresh, Untold
<1>3. n \in UnderWay
  BY <1>1 DEF UnderWay, AloneInv, BytesInv, TypeInv, OrderInv, Learners
<1>4. n \notin overlapped =>
        /\ n = Started /\ main = "idle" /\ Undisturbed(n) /\ IR_buf[1] = Own(n)
        /\ ToldOwn(n) /\ (pc[n] = "call" => length[n] = 0)
        /\ (pc[n] \in {"call", "measure"} => text[n] = <<>>)
  BY <1>0, <1>1, <1>3, OnlyOwnSteps DEF AloneInv, Undisturbed
<1>5. Own(n)' = Own(n)
  BY <1>1 DEF Own, Zeroed, Buffer
<1>6. ASSUME n \notin overlapped, pc'[n] # "detail"
      PROVE  /\ pc'[n] \in {"call", "measure", "string", "made"} /\ ToldOwn(n)'
             /\ (pc'[n] = "call" => length'[n] = 0)
             /\ (pc'[n] \in {"call", "measure"} => text'[n] = <<>>)
  <2>1. PICK own : own = Own(n)
    OBVIOUS
  <2>2. /\ IR_buf[1] = own /\ picked[n] \in {<<>>, <<asked[n]>>} /\ asked' = asked
        /\ \A c \in 0..(length[n] - 1) : own[c] # 0
        /\ pc[n] \in {"string", "made"} => length[n] = Cells + 1 \/ own[length[n]] = 0
        /\ \A c \in 1..Len(text[n]) : text[n][c] = own[c - 1]
        /\ pc[n] = "made" => Len(text[n]) = length[n]
    BY <1>1, <1>4, <1>6, <2>1 DEF ToldOwn
  <2>3. SUFFICES /\ pc'[n] \in {"call", "measure", "string", "made"}
                 /\ picked'[n] \in {<<>>, <<asked[n]>>}
                 /\ \A c \in 0..(length'[n] - 1) : own[c] # 0
                 /\ pc'[n] \in {"string", "made"} =>
                      length'[n] = Cells + 1 \/ own[length'[n]] = 0
                 /\ \A c \in 1..Len(text'[n]) : text'[n][c] = own[c - 1]
                 /\ pc'[n] = "made" => Len(text'[n]) = length'[n]
                 /\ (pc'[n] = "call" => length'[n] = 0)
                 /\ (pc'[n] \in {"call", "measure"} => text'[n] = <<>>)
    BY <1>5, <2>1, <2>2, <2>3 DEF ToldOwn
  <2>4. CASE ArgIRID(n)
    <3>1. now_IRID = asked[n]
      BY <1>4, <1>6, LearnAssumption DEF AloneInv, BytesInv, TypeInv, OrderInv, Learners
    <3>2. picked'[n] = <<asked[n]>> /\ UNCHANGED <<pc, length, text>>
      BY <1>0, <2>4, <3>1 DEF ArgIRID
    <3> QED
      BY <1>1, <1>4, <1>6, <2>2, <3>2
  <2>5. CASE MeasureByte(n)
    <3>1. UNCHANGED <<picked, text>> /\ pc[n] \in {"call", "measure"} /\ text[n] = <<>>
      BY <1>4, <1>6, <2>5 DEF MeasureByte
    <3>2. Len(text'[n]) = 0 /\ text'[n] = <<>>
      BY <3>1
    <3>3. CASE length[n] <= Cells /\ own[length[n]] # 0
      <4>1. length'[n] = length[n] + 1 /\ pc'[n] = "measure" /\ length[n] \in Nat
        BY <1>0, <2>2, <2>5, <3>3 DEF MeasureByte
      <4>2. \A c \in 0..(length'[n] - 1) : c = length[n] \/ c \in 0..(length[n] - 1)
        BY <4>1
      <4> QED
        BY <2>2, <3>1, <3>2, <3>3, <4>1, <4>2
    <3>4. CASE ~(length[n] <= Cells /\ own[length[n]] # 0)
      <4>1. length' = length /\ pc'[n] = "string" /\ length[n] \in 0..(Cells + 1)
        BY <1>0, <2>2, <2>5, <3>4 DEF MeasureByte
      <4>2. length[n] = Cells + 1 \/ own[length[n]] = 0
        BY <3>4, <4>1
      <4> QED
        BY <2>2, <3>1, <3>2, <4>1, <4>2
    <3> QED
      BY <3>3, <3>4
  <2>6. CASE TextByte(n)
    <3>1. /\ UNCHANGED <<picked, pc, length>> /\ pc[n] = "string"
          /\ text' = [text EXCEPT ![n] = Append(text[n], own[Len(text[n])])]
      BY <2>2, <2>6 DEF TextByte
    <3>2. PICK size, byte : size = Len(text[n]) /\ byte = own[size]
      OBVIOUS
    <3>3. size \in Nat /\ text'[n] = Append(text[n], byte) /\ text[n] \in Seq(Nat)
      BY <1>0, <3>1, <3>2
    <3>4. /\ Len(text'[n]) = size + 1 /\ text'[n][size + 1] = byte
          /\ \A c \in 1..size : text'[n][c] = text[n][c]
      BY <3>2, <3>3
    <3>5. ASSUME NEW c \in 1..(size + 1) PROVE text'[n][c] = own[c - 1]
      <4>1. CASE c = size + 1
        <5>1. c - 1 = size
          BY <3>3, <4>1
        <5> QED
          BY <3>2, <3>4, <4>1, <5>1
      <4>2. CASE c # size + 1
        <5>1. c \in 1..size
          BY <3>3, <3>5, <4>2
        <5> QED
          BY <2>2, <3>2, <3>4, <5>1
      <4> QED
        BY <4>1, <4>2
    <3> QED
      BY <2>2, <3>1, <3>4, <3>5
  <2>7. CASE EndString(n)
    <3>1. /\ UNCHANGED <<picked, length, text>> /\ pc'[n] = "made" /\ pc[n] = "string"
          /\ Len(text[n]) = length[n]
      BY <1>0, <2>7 DEF EndString
    <3> QED
      BY <2>2, <3>1
  <2>8. CASE CallDetail(n)
    BY <1>0, <1>6, <2>8 DEF CallDetail
  <2> QED
    BY <2>4, <2>5, <2>6, <2>7, <2>8
<1>7. ASSUME NEW m \in UnderWay' \ overlapped PROVE Undisturbed(m)'
  <2>1. m \in UnderWay \ overlapped /\ m \in Learners
    BY <1>0, <1>1, <1>2, <1>7 DEF UnderWay, Started
  <2>2. m = n /\ main' = "idle" /\ n \notin overlapped
    <3>1. pc[n] \notin {"none", "detail", "done"} /\ main' = main /\ m \in UnderWay \ overlapped
      BY <1>1, <2>1
    <3>2. n = m /\ main = "idle"
      BY <3>1, OnlyOwnSteps
    <3> QED
      BY <2>1, <3>1, <3>2
  <2>3. pc'[n] # "detail"
    BY <1>7, <2>2 DEF UnderWay
  <2>4. IR_buf'[1] = Own(n)'
    BY <1>1, <1>4, <1>5, <2>2
  <2> QED
    BY <1>6, <2>2, <2>3, <2>4 DEF Undisturbed
<1>8. ASSUME NEW call \in calls' \ calls
      PROVE  pc'[call.by] \in {"detail", "done"} /\ PassedOwn(call)'
  <2>1. CallDetail(n)
    BY <1>8 DEF ArgIRID, MeasureByte, TextByte, EndString
  <2>2. /\ call = [by |-> n, IRID |-> picked[n][1], signal |-> CString(text[n])]
        /\ picked[n] # <<>> /\ pc'[n] = "detail" /\ pc[n] = "made" /\ UNCHANGED text
    BY <1>0, <1>8, <2>1 DEF CallDetail
  <2>3. ASSUME n \notin overlapped
        PROVE  call.IRID = asked[n] /\ call.signal = CString(Held(n))
    <3>1. PICK own : own = Own(n)
      OBVIOUS
    <3>2. /\ picked[n] = <<asked[n]>> /\ Len(text[n]) = length[n] /\ own \in [Buffer -> Nat]
          /\ \A c \in 0..(length[n] - 1) : own[c] # 0
          /\ length[n] = Cells + 1 \/ own[length[n]] = 0
          /\ \A c \in 1..Len(text[n]) : text[n][c] = own[c - 1]
      BY <1>0, <1>4, <2>2, <2>3, <3>1 DEF ToldOwn
    <3>3. length[n] \in 0..(Cells + 1) /\ text[n] \in Seq(Nat)
      BY <1>0
    <3>4. \A c \in 1..length[n] : text[n][c] = own[c - 1] /\ text[n][c] # 0
      BY <3>2, <3>3
    <3>5. CString(text[n]) = CString([c \in 1..(Cells + 1) |-> own[c - 1]])
      BY <3>2, <3>3, <3>4, StringOfHeld, ZenonT(30)
    <3>6. CString(text[n]) = CString(Held(n))
      BY <3>1, <3>5 DEF Held
    <3> QED
      BY <2>2, <3>2, <3>6
  <2>4. CString(Held(n))' = CString(Held(n))
    BY <1>5 DEF CString, Readable, Held
  <2> QED
    BY <1>1, <2>2, <2>3, <2>4 DEF PassedOwn
<1> QED
  BY <1>1, <1>2, <1>7, <1>8, AloneKept

(* write_IR_detail returns. *)
LEMMA AloneEnd == ASSUME AloneInv, [Work]_work, NEW n \in Learners, EndDetail(n) PROVE AloneInv'
<1>0. DOMAIN pc = Learners /\ 1..Started \subseteq Learners
  BY LearnAssumption
     DEF AloneInv, BytesInv, TypeInv, LearnOK, OrderInv, Started, Learners
<1>1. /\ pc' = [pc EXCEPT ![n] = "done"] /\ pc[n] = "detail"
      /\ UNCHANGED <<IR_buf, main, cleared, asked, local, calls, overlapped, learn_count>>
  BY DEF EndDetail, kept
<1>2. /\ \A m \in Learners : pc'[m] = "none" => Fresh(m)'
      /\ \A m \in Learners : pc[m] \in {"detail", "done"} => pc'[m] \in {"detail", "done"}
  BY <1>0, <1>1 DEF AloneInv, Fresh, Untold, local
<1>3. ASSUME learn_count = 1, NEW m \in UnderWay' \ overlapped PROVE Undisturbed(m)'
  <2>1. m \in UnderWay \ overlapped /\ pc'[m] = pc[m]
    BY <1>0, <1>1, <1>3 DEF UnderWay, Started
  <2>2. Undisturbed(m)
    BY <1>3, <2>1 DEF AloneInv
  <2>3. UNCHANGED <<Own(m), Partial(m), Zeroed>> /\ Buffer' = Buffer
    BY <1>1 DEF Partial, Own, Zeroed, Buffer, local
  <2>4. (Fresh(m)' <=> Fresh(m)) /\ (Untold(m)' <=> Untold(m))
    BY <1>1 DEF Fresh, Untold, local
  <2>5. ToldOwn(m)' <=> ToldOwn(m)
    BY <1>1, <2>1, <2>3 DEF ToldOwn, local
  <2> QED
    BY <1>1, <2>1, <2>2, <2>3, <2>4, <2>5 DEF Undisturbed, local
<1> QED
  BY <1>1, <1>2, <1>3, AloneKept

(* A learn that starts is disturbed at once, or alone and fresh. *)
LEMMA AloneStart == ASSUME AloneInv, StartLearn PROVE AloneInv'
<1> USE LearnAssumption, CaptureAssumption DEF kept, local
<1>1. PICK next : next = Started + 1
  OBVIOUS
<1>2. /\ Started \in Nat /\ next \in Learners /\ Started' = next /\ main' = "clear" /\ cleared' = 0
      /\ UNCHANGED <<learn_count, IR_buf, now_IRID, pc, local, calls>>
      /\ overlapped' = IF UnderWay = {} THEN overlapped ELSE overlapped \cup UnderWay \cup {next}
  BY <1>1 DEF StartLearn, Started, Learners, AloneInv, BytesInv, TypeInv, LearnOK
<1>3. pc[next] = "none" /\ Fresh(next)
  BY <1>1, <1>2 DEF AloneInv, BytesInv, TypeInv, OrderInv
<1>4. UnderWay' = UnderWay \cup {next}
  BY <1>1, <1>2, <1>3 DEF UnderWay
<1>5. BytesInv' /\ ManyInv'
  <2>1. [Work]_work
    BY DEF Work
  <2> QED
    BY <2>1, BytesNext, ManyNext DEF AloneInv
<1>6. \A n \in UnderWay' \ overlapped' : n = next /\ UnderWay' = {next}
  BY <1>2, <1>4
<1>7. \A n \in Learners : Fresh(n)' <=> Fresh(n)
  BY <1>2 DEF Fresh, Untold
<1>8. Undisturbed(next)'
  BY <1>2, <1>3 DEF Undisturbed, Fresh, Untold, Buffer
<1>9. \A call \in calls' : pc'[call.by] \in {"detail", "done"} /\ PassedOwn(call)'
  <2>1. [Work]_work
    BY DEF Work
  <2> QED
    BY <1>2, <2>1, CallsStay
<1> QED
  BY <1>2, <1>5, <1>6, <1>7, <1>8, <1>9 DEF AloneInv

LEMMA AloneNext == AloneInv /\ [Work]_work => AloneInv'
<1> SUFFICES ASSUME AloneInv, [Work]_work PROVE AloneInv'
  OBVIOUS
<1>1. CASE StartLearn
  BY <1>1, AloneStart
<1>2. CASE MainStep
  BY <1>2, AloneMain DEF MainStep
<1>3. ASSUME NEW n \in Learners, Edge(n) \/ Proceed(n) PROVE AloneInv'
  BY <1>3, AloneCapture, AloneCall DEF Proceed
<1>4. ASSUME NEW n \in Learners, EndDetail(n) PROVE AloneInv'
  BY <1>4, AloneEnd
<1>5. CASE UNCHANGED work
  <2>1. BytesInv' /\ ManyInv'
    BY BytesNext, ManyNext DEF AloneInv
  <2>2. UNCHANGED <<learn_count, IR_buf, main, cleared, asked, pc, local, calls, overlapped>>
    BY <1>5 DEF work
  <2>3. UnderWay' = UnderWay /\ Started' = Started
    BY <2>2 DEF UnderWay, Started
  <2>4. \A n \in Learners : Fresh(n)' <=> Fresh(n)
    BY <2>2 DEF Fresh, Untold, local
  <2>5. \A n \in UnderWay : Undisturbed(n)' <=> Undisturbed(n)
    BY <2>2 DEF Undisturbed, Fresh, Untold, ToldOwn, Partial, Own, Zeroed, Buffer, local
  <2>6. \A call \in calls : pc'[call.by] = pc[call.by] /\ (PassedOwn(call)' <=> PassedOwn(call))
    BY <2>2 DEF PassedOwn, Held, Own, Zeroed, CString, Readable, Buffer, local
  <2> QED
    BY <2>1, <2>2, <2>3, <2>4, <2>5, <2>6 DEF AloneInv
<1> QED
  BY <1>1, <1>2, <1>3, <1>4, <1>5 DEF Work, Rest

(* IRReader.cpp:34-53, 205-215, 246-251.  For any number of learners and   *)
(* any captures, one that had the reader to itself passes on what it       *)
(* captured, cut at the first 0, under the IRID it was started for, and an *)
(* empty signal when it captured nothing: the buffer it reads was cleared  *)
(* before its thread began.                                                *)
THEOREM AloneOwn == Spec => []AlonePassesOwn
<1>1. AloneInv => AlonePassesOwn
  <2> SUFFICES ASSUME AloneInv, NEW call \in calls, call.by \notin overlapped
               PROVE  /\ call.IRID = asked[call.by]
                      /\ call.signal = IF capture[call.by] = <<>> THEN <<>>
                                       ELSE CString(<<1>> \o capture[call.by])
    BY DEF AlonePassesOwn
  <2> DEFINE n == call.by
  <2>1. call.IRID = asked[n] /\ call.signal = CString(Held(n)) /\ n \in Learners
    BY DEF AloneInv, PassedOwn, BytesInv, TypeInv, LearnOK, Call
  <2>2. CASE capture[n] = <<>>
    <3>1. Held(n) = [c \in 1..(Cells + 1) |-> Zeroed[c - 1]]
      BY <2>2 DEF Held, Own
    <3> QED
      BY <2>1, <2>2, <3>1, EmptyString
  <2>3. CASE capture[n] # <<>>
    <3>1. capture[n] \in [1..Cells -> Nat] /\ Cells \in Nat \ {0}
      BY <2>1, <2>3, CaptureAssumption DEF AloneInv, BytesInv, TypeInv, LearnOK
    <3>2. capture[n] \in Seq(Nat) /\ Len(capture[n]) = Cells
      BY <3>1
    <3>3. PICK whole : whole = <<1>> \o capture[n]
      OBVIOUS
    <3>4. /\ whole \in Seq(Nat) /\ Len(whole) = Cells + 1 /\ whole[1] = 1
          /\ \A c \in 2..(Cells + 1) : whole[c] = capture[n][c - 1]
      BY <3>2, <3>3
    <3>5. ASSUME NEW c \in 1..(Cells + 1) PROVE Own(n)[c - 1] = whole[c]
      <4>1. c - 1 \in Buffer /\ (c # 1 => c \in 2..(Cells + 1))
        BY <3>1 DEF Buffer
      <4>2. Own(n)[c - 1] = IF c - 1 = 0 THEN 1 ELSE capture[n][c - 1]
        BY <2>3, <4>1 DEF Own
      <4> QED
        BY <3>4, <4>1, <4>2
    <3>6. whole = Held(n)
      BY <3>4, <3>5 DEF Held
    <3> QED
      BY <2>1, <2>3, <3>3, <3>6
  <2> QED
    BY <2>1, <2>2, <2>3
<1> QED
  BY <1>1, AloneInit, AloneNext, NextWorks, PTL DEF Spec
-----------------------------------------------------------------------------
(* A step of IRReader is one of LearnCalls's or changes none of its state. *)
LEMMA LearnSteps ==
  ASSUME AloneInv, [Work]_work
  PROVE  \/ Learned!Ask \/ Learned!Hear \/ Learned!PassOn
         \/ UNCHANGED <<asked, {capture[n] : n \in Learners} \ {<<>>}, calls>>
<1> DEFINE heard == {capture[n] : n \in Learners} \ {<<>>}
<1> USE DEF kept, local
<1>1. CASE StartLearn
  <2>1. UNCHANGED <<capture, calls>> /\ \E IRID \in IRIDs : asked' = Append(asked, IRID)
    BY <1>1 DEF StartLearn
  <2> QED
    BY <2>1 DEF Learned!Ask
<1>2. CASE MainStep \/ UNCHANGED work
  <2>1. UNCHANGED <<asked, capture, calls>>
    BY <1>2 DEF MainStep, ClearCell, EndClear, AssignIRID, CreateThread, work
  <2> QED
    BY <2>1
<1>3. ASSUME NEW n \in Learners, Sample(n) PROVE Learned!Hear
  <2>1. PICK bytes : capture' = [capture EXCEPT ![n] = bytes]
    BY <1>3 DEF Sample
  <2>2. capture[n] = <<>> /\ DOMAIN capture = Learners
    BY <1>3 DEF Sample, AloneInv, BytesInv, TypeInv, LearnOK
  <2>3. \A m \in Learners : capture[m] # <<>> => capture'[m] = capture[m]
    BY <2>1, <2>2
  <2>4. heard \subseteq heard'
    BY <2>3
  <2>5. UNCHANGED <<asked, calls>>
    BY <1>3 DEF Sample
  <2> QED
    BY <2>4, <2>5 DEF Learned!Hear
<1>4. ASSUME NEW n \in Learners,
             \/ NoSample(n) \/ Mark(n) \/ CopyCell(n) \/ EndCopy(n)
             \/ CallbackOnce(n) \/ CallbackMany(n)
             \/ ArgIRID(n) \/ MeasureByte(n) \/ TextByte(n) \/ EndString(n) \/ EndDetail(n)
      PROVE  UNCHANGED <<asked, heard, calls>>
  <2>1. UNCHANGED <<asked, capture, calls>>
    BY <1>4 DEF NoSample, Mark, CopyCell, EndCopy, CallbackOnce, CallbackMany, ArgIRID,
                MeasureByte, TextByte, EndString, EndDetail
  <2> QED
    BY <2>1
<1>5. ASSUME NEW n \in Learners, CallDetail(n) PROVE Learned!PassOn
  <2> DEFINE new == [by |-> n, IRID |-> picked[n][1], signal |-> CString(text[n])]
  <2>1. /\ calls' = calls \cup {new} /\ UNCHANGED <<asked, capture>>
        /\ pc[n] = "made" /\ picked[n] # <<>>
    BY <1>5 DEF CallDetail
  <2>2. \A old \in calls : old.by # n
    BY <2>1 DEF AloneInv
  <2>3. \E m \in n..Len(asked) : picked[n][1] = asked[m]
    BY <2>1 DEF AloneInv, BytesInv, TypeInv, OrderInv, Picked, Started
  <2>4. Learned!Made(new.signal)
    <3>1. Genuine(new.signal)
      BY TextGenuine DEF AloneInv
    <3>2. \A m \in 1..Started : capture[m] # <<>> => capture[m] \in heard
      <4>1. 1..Started \subseteq Learners
        BY LearnAssumption DEF AloneInv, BytesInv, TypeInv, LearnOK, Learners, Started
      <4> QED
        BY <4>1
    <3> QED
      BY <3>1, <3>2 DEF Learned!Made, Genuine, Sampled
  <2>5. new \in calls' /\ new.by = n /\ new.IRID = picked[n][1]
    BY <2>1
  <2>6. UNCHANGED heard
    BY <2>1
  <2> HIDE DEF new
  <2> QED
    BY <2>1, <2>2, <2>3, <2>4, <2>5, <2>6 DEF Learned!PassOn
<1> QED
  BY <1>1, <1>2, <1>3, <1>4, <1>5 DEF Work, Edge, Proceed, Rest

(* IRReader.cpp:34-53, 205-250.  For any number of learners, captures and  *)
(* IRIDs, learning implements LearnCalls: a learn passes a signal on once  *)
(* at most, under its own IRID or a later one, made of bytes captured at   *)
(* their places.                                                           *)
THEOREM LearningImplemented == Spec => CallsAsPromised
<1>1. Init => Learned!Init
  <2> SUFFICES ASSUME Init PROVE Learned!Init
    OBVIOUS
  <2>1. asked = <<>> /\ calls = {} /\ \A n \in Learners : capture[n] = <<>>
    BY DEF Init
  <2> QED
    BY <2>1 DEF Learned!Init
<1>2. AloneInv /\ [Work]_work =>
        [Learned!Ask \/ Learned!Hear \/ Learned!PassOn]_(Learned!callVars)
  BY LearnSteps DEF Learned!callVars
<1> QED
  BY <1>1, <1>2, AloneInit, AloneNext, NextWorks, PTL DEF Spec, CallsAsPromised, Learned!Spec
-----------------------------------------------------------------------------
(* Requests stay as they were made, and calls as they were. *)
LEMMA RequestsStay ==
  ASSUME BytesInv, [Work]_work
  PROVE  /\ Started \in Nat /\ Started' \in Nat /\ Started' >= Started
         /\ \A m \in 1..Started : asked'[m] = asked[m]
         /\ calls \subseteq calls' /\ learn_count' = learn_count
<1>1. asked' = asked \/ \E IRID \in IRIDs : asked' = Append(asked, IRID)
  BY DEF Work, MainStep, Proceed, Edge, Rest, StartLearn, ClearCell, EndClear,
         AssignIRID, CreateThread, Sample, NoSample, Mark, CopyCell, EndCopy,
         CallbackOnce, CallbackMany, ArgIRID, MeasureByte,
         TextByte, EndString, CallDetail, EndDetail, work
<1>2. calls \subseteq calls' /\ learn_count' = learn_count
  BY DEF Work, MainStep, Proceed, Edge, Rest, StartLearn, ClearCell, EndClear,
         AssignIRID, CreateThread, Sample, NoSample, Mark, CopyCell, EndCopy,
         CallbackOnce, CallbackMany, ArgIRID, MeasureByte,
         TextByte, EndString, CallDetail, EndDetail, work, kept
<1>3. asked \in Seq(IRIDs) /\ Started = Len(asked)
  BY DEF BytesInv, TypeInv, LearnOK, Started
<1>4. /\ Started \in Nat /\ Started' \in Nat /\ Started' >= Started
      /\ \A m \in 1..Started : asked'[m] = asked[m]
  BY <1>1, <1>3 DEF Started
<1> QED
  BY <1>2, <1>4

CalledOrUnnamed(n) ==
    (\E call \in calls : call.by = n) \/ (\E m \in n..Started : asked[m] = NoIRID)

LEMMA EndedNext == AloneInv /\ EndedHasCalled /\ [Work]_work => EndedHasCalled'
<1> SUFFICES ASSUME AloneInv, EndedHasCalled, [Work]_work, learn_count' = 1,
                    NEW n \in Learners, pc'[n] \in {"detail", "done"}, capture'[n] # <<>>
             PROVE  CalledOrUnnamed(n)'
  BY DEF EndedHasCalled, CalledOrUnnamed
<1>a. BytesInv /\ LearnOK
  BY DEF AloneInv, BytesInv, TypeInv
<1>0. n \in Nat \ {0} /\ learn_count = 1 /\ DOMAIN pc = Learners
  BY <1>a, RequestsStay, LearnAssumption DEF LearnOK, Learners
<1>1. ASSUME CalledOrUnnamed(n) PROVE CalledOrUnnamed(n)'
  <2>1. CASE \E call \in calls : call.by = n
    BY <2>1, RequestsStay DEF AloneInv, CalledOrUnnamed
  <2>2. ASSUME NEW m \in n..Started, asked[m] = NoIRID PROVE CalledOrUnnamed(n)'
    <3>1. m \in n..Started' /\ asked'[m] = NoIRID
      BY <1>0, <2>2, RequestsStay DEF AloneInv
    <3> QED
      BY <3>1 DEF CalledOrUnnamed
  <2> QED
    BY <1>1, <2>1, <2>2 DEF CalledOrUnnamed
<1>2. CASE pc[n] \in {"detail", "done"} /\ capture[n] # <<>>
  BY <1>0, <1>1, <1>2 DEF EndedHasCalled, CalledOrUnnamed
<1>3. CASE pc[n] \notin {"detail", "done"}
  <2> USE <1>0, <1>3 DEF kept, local
  <2>1. CASE CreateThread
    <3>1. pc[n] = "none" /\ capture'[n] = capture[n]
      BY <2>1 DEF CreateThread
    <3> QED
      BY <3>1 DEF AloneInv, BytesInv
  <2>2. CASE CallbackOnce(n)
    <3>1. now_IRID = NoIRID /\ pc[n] = "callback"
      BY <2>2 DEF CallbackOnce
    <3>2. Picked(n, now_IRID)
      BY <3>1, NowPicked DEF AloneInv, BytesInv, TypeInv
    <3> QED
      BY <1>1, <3>1, <3>2 DEF Picked, CalledOrUnnamed
  <2>3. CASE CallDetail(n)
    <3> DEFINE new == [by |-> n, IRID |-> picked[n][1], signal |-> CString(text[n])]
    <3>1. new \in calls' /\ new.by = n
      BY <2>3 DEF CallDetail
    <3> HIDE DEF new
    <3> QED
      BY <3>1 DEF CalledOrUnnamed
  <2>4. CASE CallbackMany(n)
    BY <2>4 DEF CallbackMany
  <2>5. ASSUME NEW m \in Learners, Proceed(m) \/ EndDetail(m), m # n PROVE FALSE
    BY <2>5
       DEF Proceed, Mark, CopyCell, EndCopy, CallbackOnce, CallbackMany, ArgIRID, MeasureByte,
           TextByte, EndString, CallDetail, EndDetail
  <2>6. ASSUME \/ Mark(n) \/ CopyCell(n) \/ EndCopy(n) \/ ArgIRID(n)
               \/ MeasureByte(n) \/ TextByte(n) \/ EndString(n) \/ EndDetail(n)
        PROVE  FALSE
    BY <2>6 DEF Mark, CopyCell, EndCopy, ArgIRID, MeasureByte, TextByte, EndString, EndDetail
  <2>7. ASSUME NEW m \in Learners, Edge(m) PROVE FALSE
    BY <2>7 DEF Edge, Sample, NoSample
  <2>8. ASSUME StartLearn \/ ClearCell \/ EndClear \/ AssignIRID \/ UNCHANGED work PROVE FALSE
    BY <2>8 DEF StartLearn, ClearCell, EndClear, AssignIRID, work
  <2> QED
    BY <2>1, <2>2, <2>3, <2>4, <2>5, <2>6, <2>7, <2>8 DEF Work, MainStep, Proceed, Rest
<1>4. CASE pc[n] \in {"detail", "done"} /\ capture[n] = <<>>
  <2>1. ~Sample(n)
    BY <1>4 DEF Sample
  <2>2. capture'[n] = capture[n]
    <3>1. CASE UNCHANGED capture
      BY <3>1
    <3>2. ASSUME NEW m \in Learners, Sample(m) PROVE capture'[n] = capture[n]
      BY <2>1, <3>2 DEF Sample, AloneInv, BytesInv, TypeInv, LearnOK
    <3> QED
      BY <3>1, <3>2
         DEF Work, MainStep, Proceed, Edge, Rest, StartLearn, ClearCell, EndClear,
             AssignIRID, CreateThread, NoSample, Mark, CopyCell, EndCopy, CallbackOnce,
             CallbackMany, ArgIRID, MeasureByte,
         TextByte, EndString, CallDetail, EndDetail, work, local
  <2> QED
    BY <1>4, <2>2
<1> QED
  BY <1>2, <1>3, <1>4

(* IRReader.cpp:205-216.  The safety half of CaptureIsPassedOn, for any    *)
(* number of learners: no thread ends with its capture not passed on, but  *)
(* where a learn asked for the IRID that means none.                       *)
THEOREM EndedCalled == Spec => []EndedHasCalled
<1>1. Init => EndedHasCalled
  BY DEF Init, EndedHasCalled
<1> QED
  BY <1>1, AloneInit, AloneNext, EndedNext, NextWorks, PTL DEF Spec
-----------------------------------------------------------------------------
LEMMA AheadType ==
  ASSUME AloneInv
  PROVE  MainAhead \in Nat /\ \A n \in Learners : Ahead(n) \in Nat
<1>0. /\ Cells \in Nat \ {0} /\ learn_count \in Nat /\ cleared \in 0..(learn_count * (Cells + 1))
      /\ cell \in [Learners -> 0..Cells] /\ length \in [Learners -> 0..(Cells + 1)]
      /\ \A n \in Learners : Len(text[n]) \in Nat /\ Len(text[n]) <= length[n]
  BY LearnAssumption, CaptureAssumption DEF AloneInv, BytesInv, TypeInv, LearnOK
<1>1. MainAhead \in Nat
  <2>1. learn_count * (Cells + 1) \in Nat
    BY <1>0
  <2> DEFINE bytes == learn_count * (Cells + 1)
  <2>2. cleared \in Nat /\ cleared <= bytes
    BY <1>0, <2>1
  <2> HIDE DEF bytes
  <2>3. bytes - cleared + 3 \in Nat
    BY <2>1, <2>2 DEF bytes
  <2> QED
    BY <2>3 DEF MainAhead, bytes
<1>2. ASSUME NEW n \in Learners PROVE Ahead(n) \in Nat
  <2>1. PICK l, t, c : l = length[n] /\ t = Len(text[n]) /\ c = cell[n]
    OBVIOUS
  <2>2. Cells \in Nat /\ c \in 0..Cells /\ l \in 0..(Cells + 1) /\ t \in 0..l
    BY <1>0, <2>1
  <2>3. 2 * Cells + 5 - l \in Nat /\ l - t + 2 \in Nat /\ 3 * Cells - c + 8 \in Nat
    BY <2>2
  <2>4. ASSUME pc[n] \in {"call", "measure", "string", "made"} PROVE CallAhead(n) \in Nat
    BY <2>1, <2>3, <2>4 DEF CallAhead
  <2>5. CASE pc[n] \in {"call", "measure", "string", "made"}
    BY <2>4, <2>5 DEF Ahead
  <2>6. CASE pc[n] \notin {"call", "measure", "string", "made"}
    <3>1. 3 * Cells + 9 \in Nat /\ 2 * Cells + 7 \in Nat /\ 3 * Cells - cell[n] + 8 \in Nat
      BY <2>1, <2>2, <2>3
    <3>2. Ahead(n) \in {3 * Cells + 9, 3 * Cells - cell[n] + 8, 2 * Cells + 7, 0}
      BY <2>6, Zenon DEF Ahead
    <3> QED
      BY <3>1, <3>2
  <2> QED
    BY <2>5, <2>6
<1> QED
  BY <1>1, <1>2

LEMMA NoneSetBack ==
  ASSUME AloneInv, [Work]_work
  PROVE  /\ main # "idle" => IF MainStep THEN MainAhead' < MainAhead ELSE MainAhead' = MainAhead
         /\ \A n \in Learners :
              pc[n] \notin {"none", "poll"} =>
                IF Proceed(n) THEN Ahead(n)' < Ahead(n) ELSE Ahead(n)' = Ahead(n)
<1> USE LearnAssumption, CaptureAssumption DEF kept, local
<1>0. /\ learn_count \in Nat \ {0} /\ cleared \in Nat /\ learn_count * (Cells + 1) \in Nat
      /\ cleared <= learn_count * (Cells + 1) /\ cell \in [Learners -> 0..Cells]
      /\ DOMAIN pc = Learners /\ DOMAIN picked = Learners
      /\ length \in [Learners -> 0..(Cells + 1)] /\ text \in [Learners -> Seq(Nat)]
  BY DEF AloneInv, BytesInv, TypeInv, LearnOK, OrderInv
<1>1. ASSUME MainStep, main # "idle" PROVE MainAhead' < MainAhead
  <2> DEFINE bytes == learn_count * (Cells + 1)
  <2>1. bytes \in Nat /\ cleared \in Nat /\ cleared <= bytes
    BY <1>0
  <2>2. CASE ClearCell
    <3>1. main = "clear" /\ main' = "clear" /\ cleared' = cleared + 1 /\ bytes' = bytes
      BY <2>2 DEF ClearCell
    <3> HIDE DEF bytes
    <3>2. bytes' - cleared' + 3 < bytes - cleared + 3
      BY <2>1, <3>1
    <3> QED
      BY <3>1, <3>2 DEF MainAhead, bytes
  <2>3. CASE EndClear
    <3>1. main = "clear" /\ main' = "assign"
      BY <2>3 DEF EndClear
    <3> HIDE DEF bytes
    <3>2. 2 < bytes - cleared + 3
      BY <2>1
    <3> QED
      BY <3>1, <3>2 DEF MainAhead, bytes
  <2>4. CASE AssignIRID \/ CreateThread
    BY <2>4 DEF AssignIRID, CreateThread, MainAhead
  <2> QED
    BY <1>1, <2>2, <2>3, <2>4 DEF MainStep
<1>2. ASSUME ~MainStep, main # "idle" PROVE MainAhead' = MainAhead
  <2>1. UNCHANGED <<main, cleared, learn_count>>
    BY <1>2
       DEF Work, Proceed, Edge, Rest, StartLearn, Sample, NoSample, Mark, CopyCell, EndCopy,
           CallbackOnce, CallbackMany, ArgIRID, MeasureByte,
         TextByte, EndString, CallDetail, EndDetail, work
  <2> QED
    BY <2>1 DEF MainAhead
<1>3. ASSUME NEW n \in Learners, Proceed(n) PROVE Ahead(n)' < Ahead(n)
  <2>1. CASE Mark(n)
    BY <1>0, <2>1 DEF Mark, Ahead
  <2>2. CASE CopyCell(n)
    BY <1>0, <2>2 DEF CopyCell, Ahead
  <2>3. CASE EndCopy(n)
    BY <1>0, <2>3 DEF EndCopy, Ahead
  <2>4. CASE CallbackOnce(n)
    <3>1. pc[n] = "callback" /\ pc'[n] \in {"call", "done"} /\ UNCHANGED <<picked, length>>
      BY <1>0, <2>4 DEF CallbackOnce
    <3>2. pc'[n] = "call" => CallAhead(n)' < 2 * Cells + 7
      BY <1>0, <3>1 DEF CallAhead
    <3> QED
      BY <3>1, <3>2 DEF Ahead
  <2>5. CASE CallbackMany(n)
    BY <1>0, <2>5 DEF CallbackMany, Ahead
  <2>6. CASE ArgIRID(n)
    <3>1. /\ picked[n] = <<>> /\ picked'[n] = <<now_IRID>> /\ pc[n] \in {"call", "made"}
          /\ UNCHANGED <<pc, length, text>>
      BY <1>0, <2>6 DEF ArgIRID
    <3>2. <<now_IRID>> # <<>>
      OBVIOUS
    <3>3. CallAhead(n)' < CallAhead(n)
      BY <1>0, <3>1, <3>2 DEF CallAhead
    <3> QED
      BY <3>1, <3>3 DEF Ahead
  <2>7. CASE MeasureByte(n)
    <3>1. pc[n] \in {"call", "measure"} /\ UNCHANGED <<picked, text>>
      BY <2>7 DEF MeasureByte
    <3>2. CASE pc'[n] = "measure" /\ length'[n] = length[n] + 1
      <4>1. PICK one \in {0, 1} : one = IF picked[n] = <<>> THEN 1 ELSE 0
        OBVIOUS
      <4>2. /\ CallAhead(n) = one + (2 * Cells + 5 - length[n])
            /\ CallAhead(n)' = one + (2 * Cells + 5 - (length[n] + 1))
        BY <3>1, <3>2, <4>1 DEF CallAhead
      <4>3. \A k, l, m \in Nat : k + (2 * m + 5 - (l + 1)) < k + (2 * m + 5 - l)
        OBVIOUS
      <4>4. length[n] \in Nat
        BY <1>0
      <4>5. CallAhead(n)' < CallAhead(n)
        BY <4>1, <4>2, <4>3, <4>4
      <4> QED
        BY <3>1, <3>2, <4>5 DEF Ahead
    <3>3. CASE pc'[n] = "string" /\ length' = length
      <4>1. length[n] - Len(text[n]) + 2 < 2 * Cells + 5 - length[n]
        BY <1>0
      <4>2. CallAhead(n)' < CallAhead(n)
        BY <1>0, <3>1, <3>3, <4>1 DEF CallAhead
      <4> QED
        BY <3>1, <3>3, <4>2 DEF Ahead
    <3> QED
      BY <1>0, <2>7, <3>2, <3>3 DEF MeasureByte
  <2>8. CASE TextByte(n)
    <3>1. PICK byte : text' = [text EXCEPT ![n] = Append(@, byte)]
      BY <2>8 DEF TextByte
    <3>2. pc[n] = "string" /\ UNCHANGED <<pc, picked, length>>
      BY <2>8 DEF TextByte
    <3>3. Len(text'[n]) = Len(text[n]) + 1 /\ Len(text[n]) \in Nat
      BY <1>0, <3>1
    <3>4. length[n] \in Nat /\ length[n] - Len(text'[n]) + 2 < length[n] - Len(text[n]) + 2
      BY <1>0, <3>3
    <3>5. CallAhead(n)' < CallAhead(n)
      BY <3>2, <3>3, <3>4 DEF CallAhead
    <3> QED
      BY <3>2, <3>5 DEF Ahead
  <2>9. CASE EndString(n)
    <3>1. pc[n] = "string" /\ pc'[n] = "made" /\ UNCHANGED <<picked, length, text>>
          /\ Len(text[n]) = length[n]
      BY <1>0, <2>9 DEF EndString
    <3>2. CallAhead(n)' < CallAhead(n)
      BY <1>0, <3>1 DEF CallAhead
    <3> QED
      BY <3>1, <3>2 DEF Ahead
  <2>10. CASE CallDetail(n)
    BY <1>0, <2>10 DEF CallDetail, Ahead, CallAhead
  <2> QED
    BY <1>3, <2>1, <2>2, <2>3, <2>4, <2>5, <2>6, <2>7, <2>8, <2>9, <2>10 DEF Proceed
<1>4. ASSUME NEW n \in Learners, ~Proceed(n), pc[n] \notin {"none", "poll"}
      PROVE  Ahead(n)' = Ahead(n)
  <2>1. CASE EndDetail(n)
    BY <1>0, <2>1 DEF EndDetail, Ahead
  <2>2. CASE ~EndDetail(n)
    <3>1. UNCHANGED <<pc[n], cell[n], picked[n], length[n], text[n]>>
      <4>1. CASE UNCHANGED <<pc, local>>
        BY <4>1
      <4>2. CASE CreateThread
        BY <1>0, <1>4, <4>2 DEF CreateThread
      <4>3. ASSUME NEW m \in Learners, Edge(m) \/ Proceed(m) \/ EndDetail(m)
            PROVE  UNCHANGED <<pc[n], cell[n], picked[n], length[n], text[n]>>
        <5>1. m # n
          BY <1>4, <2>2, <4>3 DEF Edge, Sample, NoSample
        <5>2. /\ pc' = pc \/ \E at : pc' = [pc EXCEPT ![m] = at]
              /\ cell' = cell \/ \E c : cell' = [cell EXCEPT ![m] = c]
              /\ picked' = picked \/ \E p : picked' = [picked EXCEPT ![m] = p]
              /\ length' = length \/ \E l : length' = [length EXCEPT ![m] = l]
              /\ text' = text \/ \E t : text' = [text EXCEPT ![m] = t]
          BY <4>3
             DEF Edge, Proceed, Sample, NoSample, Mark, CopyCell, EndCopy, CallbackOnce,
                 CallbackMany, ArgIRID, MeasureByte, TextByte, EndString, CallDetail, EndDetail
        <5>3. pc'[n] = pc[n] /\ cell'[n] = cell[n] /\ picked'[n] = picked[n]
          BY <1>0, <5>1, <5>2
        <5>4. length'[n] = length[n] /\ text'[n] = text[n]
          BY <1>0, <5>1, <5>2
        <5> QED
          BY <5>3, <5>4
      <4> QED
        BY <4>1, <4>2, <4>3
           DEF Work, MainStep, Rest, StartLearn, ClearCell, EndClear, AssignIRID, work
    <3> QED
      BY <3>1 DEF Ahead, CallAhead
  <2> QED
    BY <2>1, <2>2
<1> QED
  BY <1>1, <1>2, <1>3, <1>4

(* IRReader.cpp:34-53, 205-257.  For any number of learners and any size   *)
(* of capture: the way left to a thread, a natural number, gets shorter by *)
(* each of its steps and longer by nobody's; and so for start_learn_IR.    *)
THEOREM NoneSentBack ==
  Spec => NobodySetBack /\ [](MainAhead \in Nat /\ \A n \in Learners : Ahead(n) \in Nat)
<1>1. AloneInv /\ [Next]_vars =>
        /\ main # "idle" => IF MainStep THEN MainAhead' < MainAhead ELSE MainAhead' = MainAhead
        /\ \A n \in Learners :
             pc[n] \notin {"none", "poll"} =>
               IF Proceed(n) THEN Ahead(n)' < Ahead(n) ELSE Ahead(n)' = Ahead(n)
  BY NextWorks, NoneSetBack
<1> QED
  BY <1>1, AloneInit, AloneNext, NextWorks, AheadType, PTL DEF Spec, NobodySetBack
=============================================================================
