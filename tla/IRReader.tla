------------------------------ MODULE IRReader ------------------------------
(***************************************************************************)
(* Class IRReader (IRReader.cpp, IRReader.h): main's start_learn_IR, which *)
(* starts one detached thread per call, and those threads' wait_for_IR and *)
(* finish_learn_callback.  IR_buf and now_IRID belong to the object and    *)
(* are touched by all of them without a lock, so every access to a byte of *)
(* the buffers, or to now_IRID, is a step.                                 *)
(* How a thread samples the receiver is module Sampler's subject.          *)
(*                                                                         *)
(* A learner is the thread of the n-th start_learn_IR, and n its number.   *)
(***************************************************************************)
EXTENDS Integers, Sequences, FiniteSets, SequencesExt

CONSTANTS LearnCounts,  \* arguments of --learn; 1 when there is none
          Cells,        \* bytes of a capture (300)
          Captures,     \* what a thread can sample
          IRIDs,        \* arguments of start_learn_IR
          MaxLearns     \* bound: calls of start_learn_IR

ASSUME LearnAssumption == LearnCounts \subseteq Nat \ {0} /\ MaxLearns \in Nat
ASSUME CaptureAssumption == Cells \in Nat \ {0} /\ Captures \subseteq [1..Cells -> Nat]
ASSUME IRIDAssumption == IRIDs \subseteq Int

Learners == 1..MaxLearns
NoIRID == -1        \* now_IRID before the first learn

(* IR_buf[i]: the start byte and the capture; the last byte is always 0. *)
Buffer == 0..Cells
Zeroed == [c \in Buffer |-> 0]

VARIABLES
    learn_count,
    IR_buf,     \* learn_count buffers; C's index 0 is 1 here
    now_IRID,
    main,       \* main's thread: "idle", or inside start_learn_IR
    cleared,    \* bytes start_learn_IR has cleared so far
    asked,      \* the IRIDs asked for so far, in order
    pc,         \* per learner: where its thread is
    capture,    \* per learner: its own buffer once sampled
    cell,       \* per learner: bytes of the capture copied so far
    picked,     \* per learner: the IRID it passes on, <<>> until read
    length,     \* per learner: the string's bytes counted so far,
    text,       \* and those copied so far
    calls,      \* what went into write_IR_detail
    overlapped, \* learners that were under way together with another (ghost)
    dead        \* has the process ended?

local == <<capture, cell, picked, length, text>>
kept == <<learn_count, overlapped>>
work == <<learn_count, IR_buf, now_IRID, main, cleared, asked, pc, local, calls, overlapped>>
vars == <<work, dead>>

Started == Len(asked)

(* The learners between their start_learn_IR and their last look at the    *)
(* object.                                                                 *)
UnderWay == {n \in 1..Started : pc[n] \notin {"detail", "done"}}

(* The bytes a C string reader gets: those with no 0 before them. *)
Readable(bytes) == {c \in DOMAIN bytes : \A d \in 1..c : bytes[d] # 0}
CString(bytes) == SubSeq(bytes, 1, Cardinality(Readable(bytes)))

Places == {"none", "poll", "mark", "copy", "callback", "call", "measure", "string",
           "made", "detail", "merge", "done"}

Call == [by : Learners, IRID : IRIDs, signal : Seq(Nat)]

LearnOK ==
    /\ learn_count \in LearnCounts
    /\ IR_buf \in [1..learn_count -> [Buffer -> Nat]]
    /\ now_IRID \in IRIDs \cup {NoIRID}
    /\ main \in {"idle", "clear", "assign", "create"}
    /\ cleared \in 0..(learn_count * (Cells + 1))
    /\ asked \in Seq(IRIDs) /\ Started <= MaxLearns
    /\ pc \in [Learners -> Places]
    /\ capture \in [Learners -> Captures \cup {<<>>}]
    /\ \A n \in Learners : pc[n] \in {"mark", "copy"} => capture[n] \in Captures
    /\ cell \in [Learners -> 0..Cells]
    /\ picked \in [Learners -> {<<>>} \cup {<<IRID>> : IRID \in IRIDs}]
    /\ length \in [Learners -> 0..(Cells + 1)]
    /\ text \in [Learners -> Seq(Nat)]
    /\ \A n \in Learners : Len(text[n]) <= length[n]
    /\ \A call \in calls : call \in Call
    /\ overlapped \subseteq Learners

TypeOK == LearnOK /\ dead \in BOOLEAN

Init ==
    /\ learn_count \in LearnCounts
    /\ IR_buf = [i \in 1..learn_count |-> Zeroed]
    /\ now_IRID = NoIRID
    /\ main = "idle" /\ cleared = 0 /\ asked = <<>>
    /\ pc = [n \in Learners |-> "none"]
    /\ capture = [n \in Learners |-> <<>>]
    /\ cell = [n \in Learners |-> 0]
    /\ picked = [n \in Learners |-> <<>>]
    /\ length = [n \in Learners |-> 0]
    /\ text = [n \in Learners |-> <<>>]
    /\ calls = {} /\ overlapped = {} /\ dead = FALSE
-----------------------------------------------------------------------------
(* start_learn_IR: all buffers are cleared ... *)
StartLearn ==
    /\ main = "idle" /\ Started < MaxLearns
    /\ \E IRID \in IRIDs : asked' = Append(asked, IRID)
    /\ cleared' = 0
    /\ overlapped' = IF UnderWay = {} THEN overlapped
                     ELSE overlapped \cup UnderWay \cup {Started + 1}
    /\ main' = "clear"
    /\ UNCHANGED <<learn_count, IR_buf, now_IRID, pc, local, calls>>

(* Mutant: the loop over the bytes stores nothing. *)
ClearCellKept ==
    /\ main = "clear" /\ cleared < learn_count * (Cells + 1)
    /\ cleared' = cleared + 1
    /\ UNCHANGED <<IR_buf, now_IRID, main, asked, pc, local, calls, kept>>

(* ... byte by byte, as the learners under way can see ... *)
ClearCell ==
    /\ main = "clear" /\ cleared < learn_count * (Cells + 1)
    /\ IR_buf' = [IR_buf EXCEPT
                    ![cleared \div (Cells + 1) + 1][cleared % (Cells + 1)] = 0]
    /\ cleared' = cleared + 1
    /\ UNCHANGED <<now_IRID, main, asked, pc, local, calls, kept>>

EndClear ==
    /\ main = "clear" /\ cleared = learn_count * (Cells + 1)
    /\ main' = "assign"
    /\ UNCHANGED <<IR_buf, now_IRID, cleared, asked, pc, local, calls, kept>>

(* Mutant: now_IRID is assigned once the thread runs. *)
AssignIRIDLate ==
    \/ /\ main = "assign" /\ main' = "create"
       /\ pc' = [pc EXCEPT ![Started] = "poll"]
       /\ UNCHANGED <<IR_buf, now_IRID, cleared, asked, local, calls, kept>>
    \/ /\ main = "create" /\ main' = "idle"
       /\ now_IRID' = Last(asked)
       /\ UNCHANGED <<IR_buf, cleared, asked, pc, local, calls, kept>>

(* ... now_IRID is set, the pin prepared, failures only logged ... *)
AssignIRID ==
    /\ main = "assign"
    /\ now_IRID' = Last(asked)
    /\ main' = "create"
    /\ UNCHANGED <<IR_buf, cleared, asked, pc, local, calls, kept>>

(* ... and the thread is created, or it is not and a warning is logged. *)
CreateThread ==
    /\ main = "create" /\ pc[Started] = "none"
    /\ \E at \in {"poll", "done"} : pc' = [pc EXCEPT ![Started] = at]
    /\ main' = "idle"
    /\ UNCHANGED <<IR_buf, now_IRID, cleared, asked, local, calls, kept>>
-----------------------------------------------------------------------------
(* poll reports an edge that is no interference, and the thread samples.   *)
(* Each thread polls a descriptor of its own: one edge wakes all of them.  *)
Sample(n) ==
    /\ pc[n] = "poll"
    /\ \E bytes \in Captures : capture' = [capture EXCEPT ![n] = bytes]
    /\ pc' = [pc EXCEPT ![n] = "mark"]
    /\ UNCHANGED <<IR_buf, now_IRID, main, cleared, asked, cell, picked, length, text, calls,
                   kept>>

(* Mutant: revents is not looked at. *)
NoSampleUntested(n) ==
    /\ pc[n] = "poll"
    /\ pc' = [pc EXCEPT ![n] = "mark"]
    /\ UNCHANGED <<IR_buf, now_IRID, main, cleared, asked, local, calls, kept>>

(* poll fails (ENOMEM) and has not set revents, which nobody initialised:  *)
(* taken for no POLLPRI, the callback is called all the same.  (A -1 from  *)
(* gpio_fd_open is no such case: poll ignores it and waits; module Gpio.)  *)
NoSample(n) ==
    /\ pc[n] = "poll"
    /\ pc' = [pc EXCEPT ![n] = "callback"]
    /\ UNCHANGED <<IR_buf, now_IRID, main, cleared, asked, local, calls, kept>>

(* Mutant: each learner has a buffer of its own to mark. *)
MarkOwn(n) ==
    /\ pc[n] = "mark"
    /\ IR_buf' = [IR_buf EXCEPT ![n][0] = 1]
    /\ pc' = [pc EXCEPT ![n] = "copy"]
    /\ UNCHANGED <<now_IRID, main, cleared, asked, local, calls, kept>>

Mark(n) ==
    /\ pc[n] = "mark"
    /\ IR_buf' = [IR_buf EXCEPT ![1][0] = 1]
    /\ pc' = [pc EXCEPT ![n] = "copy"]
    /\ UNCHANGED <<now_IRID, main, cleared, asked, local, calls, kept>>

(* memcpy to IR_buf[0]+1, a byte at a time. *)
CopyCell(n) ==
    /\ pc[n] = "copy" /\ cell[n] < Cells
    /\ IR_buf' = [IR_buf EXCEPT ![1][cell[n] + 1] = capture[n][cell[n] + 1]]
    /\ cell' = [cell EXCEPT ![n] = @ + 1]
    /\ UNCHANGED <<now_IRID, main, cleared, asked, pc, capture, picked, length, text,
                   calls, kept>>

EndCopy(n) ==
    /\ pc[n] = "copy" /\ cell[n] = Cells
    /\ pc' = [pc EXCEPT ![n] = "callback"]
    /\ UNCHANGED <<IR_buf, now_IRID, main, cleared, asked, local, calls, kept>>
-----------------------------------------------------------------------------
(* Mutant: the sense of the test is lost. *)
CallbackOnceInverted(n) ==
    /\ pc[n] = "callback" /\ learn_count <= 1
    /\ pc' = [pc EXCEPT ![n] = IF now_IRID # NoIRID THEN "done" ELSE "call"]
    /\ UNCHANGED <<IR_buf, now_IRID, main, cleared, asked, local, calls, kept>>

(* finish_learn_callback with learn_count <= 1: now_IRID is read once here *)
(* and once more for the call.                                             *)
CallbackOnce(n) ==
    /\ pc[n] = "callback" /\ learn_count <= 1
    /\ pc' = [pc EXCEPT ![n] = IF now_IRID # NoIRID THEN "call" ELSE "done"]
    /\ UNCHANGED <<IR_buf, now_IRID, main, cleared, asked, local, calls, kept>>

(* With more: "merge", which computes the longest capture, waits until     *)
(* every buffer bears its start byte.                                      *)
CallbackMany(n) ==
    /\ pc[n] = "callback" /\ learn_count > 1
    /\ pc' = [pc EXCEPT ![n] =
                IF \E i \in 1..learn_count : IR_buf[i][0] = 0 THEN "done" ELSE "merge"]
    /\ UNCHANGED <<IR_buf, now_IRID, main, cleared, asked, local, calls, kept>>

(* The call's two arguments, in either order: now_IRID is read ...         *)
ArgIRID(n) ==
    /\ pc[n] \in {"call", "made"} /\ picked[n] = <<>>
    /\ picked' = [picked EXCEPT ![n] = <<now_IRID>>]
    /\ UNCHANGED <<IR_buf, now_IRID, main, cleared, asked, pc, capture, cell, length, text,
                   calls, kept>>

(* ... and a string is made of IR_buf[0]: its bytes are counted up to the  *)
(* first 0, the buffer's last byte at the latest ...                       *)
MeasureByte(n) ==
    /\ pc[n] \in {"call", "measure"}
    /\ IF length[n] <= Cells /\ IR_buf[1][length[n]] # 0
       THEN /\ length' = [length EXCEPT ![n] = @ + 1]
            /\ pc' = [pc EXCEPT ![n] = "measure"]
       ELSE pc' = [pc EXCEPT ![n] = "string"] /\ UNCHANGED length
    /\ UNCHANGED <<IR_buf, now_IRID, main, cleared, asked, capture, cell, picked, text,
                   calls, kept>>

(* ... and then copied, whatever they are by now.                          *)
TextByte(n) ==
    /\ pc[n] = "string" /\ Len(text[n]) < length[n]
    /\ text' = [text EXCEPT ![n] = Append(@, IR_buf[1][Len(@)])]
    /\ UNCHANGED <<IR_buf, now_IRID, main, cleared, asked, pc, capture, cell, picked, length,
                   calls, kept>>

EndString(n) ==
    /\ pc[n] = "string" /\ Len(text[n]) = length[n]
    /\ pc' = [pc EXCEPT ![n] = "made"]
    /\ UNCHANGED <<IR_buf, now_IRID, main, cleared, asked, local, calls, kept>>

(* web->write_IR_detail is called; it passes c_str() on, which ends at the *)
(* first 0 that was copied.                                                *)
CallDetail(n) ==
    /\ pc[n] = "made" /\ picked[n] # <<>>
    /\ calls' = calls \cup
         {[by |-> n, IRID |-> picked[n][1], signal |-> CString(text[n])]}
    /\ pc' = [pc EXCEPT ![n] = "detail"]
    /\ UNCHANGED <<IR_buf, now_IRID, main, cleared, asked, local, kept>>

(* It returns, when it got the interpreter lock and Python has raised; the *)
(* thread ends.                                                            *)
EndDetail(n) ==
    /\ pc[n] = "detail"
    /\ pc' = [pc EXCEPT ![n] = "done"]
    /\ UNCHANGED <<IR_buf, now_IRID, main, cleared, asked, local, calls, kept>>

(* The signal arrives, or poll gives up. *)
Edge(n) == Sample(n) \/ NoSample(n)

Proceed(n) ==
    \/ Mark(n) \/ CopyCell(n) \/ EndCopy(n)
    \/ CallbackOnce(n) \/ CallbackMany(n)
    \/ ArgIRID(n) \/ MeasureByte(n) \/ TextByte(n) \/ EndString(n) \/ CallDetail(n)

MainStep == ClearCell \/ EndClear \/ AssignIRID \/ CreateThread

(* Main goes on calling start_learn_IR; the bound stops it here. *)
Rest == Started = MaxLearns /\ main = "idle" /\ UNCHANGED work

Work ==
    \/ StartLearn \/ MainStep
    \/ \E n \in Learners : Edge(n) \/ Proceed(n) \/ EndDetail(n)
    \/ Rest

Runs(step) == ~dead /\ dead' = FALSE /\ step

(* Some thread ends the process, this one in write_IR_detail or another:   *)
(* module Linker says when.                                                *)
Die == ~dead /\ dead' = TRUE /\ UNCHANGED work

Next == Runs(Work) \/ Die \/ (dead /\ UNCHANGED vars)

(* A thread that sampled runs at real-time priority and waits for nobody   *)
(* until it is inside write_IR_detail, where it may wait for the lock for  *)
(* ever; and nobody promises a signal.                                     *)
Spec ==
    /\ Init /\ [][Next]_vars
    /\ WF_vars(Runs(MainStep))
    /\ \A n \in Learners : WF_vars(Runs(Proceed(n)))
-----------------------------------------------------------------------------
(* IRReader.cpp:34-53, 205-215, 246-251.  A learner that had the reader to *)
(* itself passes on what it captured, cut at the first 0, under the IRID   *)
(* it was started for; and nothing when poll gave it nothing.              *)
AlonePassesOwn ==
    \A call \in calls :
        call.by \notin overlapped =>
            /\ call.IRID = asked[call.by]
            /\ call.signal = IF capture[call.by] = <<>> THEN <<>>
                             ELSE CString(<<1>> \o capture[call.by])

(* IRReader.cpp:39 before 50.  However learns overlap, a thread passes on  *)
(* its own IRID or one asked for later, never an older one.                *)
NeverEarlierRequest ==
    \A call \in calls : \E n \in call.by..Started : call.IRID = asked[n]

Learned == INSTANCE LearnCalls WITH heard <- {capture[n] : n \in Learners} \ {<<>>}

(* IRReader.cpp:34-53, 205-250.  However learns overlap, a learn passes a  *)
(* signal on once at most, under an IRID of its own or a later start, and  *)
(* made of bytes that were captured at their places.                       *)
CallsAsPromised == Learned!Spec

(* IRReader.cpp:205-206, 250.  However learns overlap, a signal passed on  *)
(* starts with the start byte and is a mix of captures, byte by byte.      *)
NoInventedBytes ==
    \A call \in calls : \A c \in DOMAIN call.signal :
        IF c = 1 THEN call.signal[c] = 1
        ELSE \E n \in 1..Started :
               capture[n] # <<>> /\ call.signal[c] = capture[n][c - 1]

(* IRReader.cpp:205-216.  With learn_count 1 a capture is handed to the    *)
(* linker, unless the process ends first or somebody asked for the IRID    *)
(* that means none.  What the linker does with it is Linker's subject.     *)
CaptureIsPassedOn ==
    \A n \in Learners :
        pc[n] = "mark" /\ learn_count = 1 ~>
            \/ \E call \in calls : call.by = n
            \/ \E m \in n..Started : asked[m] = NoIRID
            \/ dead

(* IRReader.cpp:205-216, without its "in the end": a thread that captured  *)
(* and has ended, or is with the linker, did pass its capture on, but      *)
(* where somebody asked for the IRID that means none.                      *)
EndedHasCalled ==
    learn_count = 1 =>
        \A n \in Learners :
            pc[n] \in {"detail", "done"} /\ capture[n] # <<>> =>
                (\E call \in calls : call.by = n) \/ (\E m \in n..Started : asked[m] = NoIRID)

(* The steps start_learn_IR, and a thread between its poll and its call,   *)
(* have before them at most.                                               *)
MainAhead ==
    CASE main = "clear" -> learn_count * (Cells + 1) - cleared + 3
      [] main = "assign" -> 2
      [] main = "create" -> 1
      [] OTHER -> 0
CallAhead(n) ==
    (IF picked[n] = <<>> THEN 1 ELSE 0)
      + (CASE pc[n] \in {"call", "measure"} -> 2 * Cells + 5 - length[n]
           [] pc[n] = "string" -> length[n] - Len(text[n]) + 2
           [] pc[n] = "made" -> 1)
Ahead(n) ==
    CASE pc[n] = "mark" -> 3 * Cells + 9
      [] pc[n] = "copy" -> 3 * Cells - cell[n] + 8
      [] pc[n] = "callback" -> 2 * Cells + 7
      [] pc[n] \in {"call", "measure", "string", "made"} -> CallAhead(n)
      [] OTHER -> 0

(* IRReader.cpp:34-53, 205-257.  However main and the threads interleave   *)
(* over the buffer, nobody sends another back: each step of a thread, and  *)
(* of start_learn_IR, brings it nearer to its end, and no other's step     *)
(* makes its way longer.                                                   *)
NobodySetBack ==
    [][ /\ main # "idle" => IF MainStep THEN MainAhead' < MainAhead ELSE MainAhead' = MainAhead
        /\ \A n \in Learners :
             pc[n] \notin {"none", "poll"} =>
                 IF Proceed(n) THEN Ahead(n)' < Ahead(n) ELSE Ahead(n)' = Ahead(n) ]_vars

(* IRReader.cpp:205-206, 253-257.  With a learn_count above 1 only the     *)
(* first buffer is ever written: no learner finds the others marked, and   *)
(* however many learners captured, none passes anything on.                *)
ManyNeverFinish ==
    learn_count > 1 =>
        /\ calls = {}
        /\ \A n \in Learners : pc[n] # "merge"
        /\ \A m \in 2..learn_count : IR_buf[m] = Zeroed

(* dbman.py:20 describes a record as "IRID":"{...,sig:IR_Signal}": what is *)
(* to be stored under an IRID was captured by a learner of that IRID.      *)
SignalBelongsToIRID ==
    \A call \in calls : call.IRID = asked[call.by]
=============================================================================
