------------------------------ MODULE Transmit ------------------------------
(***************************************************************************)
(* Class transmit (transmit.cpp, transmit.h): the frames waiting for the   *)
(* UART, the entries read from it, and the loops over both.  Its methods   *)
(* are called by one thread, never inside one another: a caller is at      *)
(* pc = "idle".  Every system call is a step, since the line and the       *)
(* device on it act between two of them.                                   *)
(***************************************************************************)
EXTENDS Frame

CONSTANTS Content,      \* the byte strings callers hand to put_in
          Received,     \* what zigRBuffer.scID can be after a read
          MaxPut,       \* bound: frames accepted in a behaviour
          MaxEntries    \* bound: entries in rbuffer when a cycle begins

(* The one caller's content starts with four bytes of its own.             *)
ASSUME ContentAssumption ==
    /\ Content \subseteq Seq(Byte)
    /\ \A content \in Content : Len(content) >= 4
ASSUME ReceivedAssumption == Received \subseteq Nat
ASSUME BoundAssumption == MaxPut \in Nat /\ MaxEntries \in Nat

VARIABLES
    wbuffer,    \* frames to send: number of acceptance (ghost), content
                \* (ghost), length, buffer
    rbuffer,    \* entries read: scID, and how many frames had been
                \* accepted by then (ghost)
    pc,         \* "idle", "send" and "read" in do_cycle, "scan" in
                \* Read_rbuffer, "spin" and "crash": never returns
    j,          \* bytes of the first frame written so far
    want,       \* Read_rbuffer's argument
    put,        \* frames accepted so far (ghost)
    last        \* <<frame, byte>> last seen on the line (ghost)

uartVars == <<wbuffer, rbuffer, pc, j, want, put, last>>

WFrame(no, content) ==
    [no |-> no, content |-> content, length |-> Len(content),
     buffer |-> FrameBuffer(content)]

QueuedFrames == {WFrame(no, content) : no \in 1..put, content \in Content}

(* The types of transmit's members; a queued frame is put_in's product.    *)
TransmitTypeOK ==
    /\ wbuffer \in Seq(QueuedFrames)
    /\ rbuffer \in Seq([scID : Received, after : 0..put])
    /\ pc \in {"idle", "send", "read", "scan", "spin", "crash"}
    /\ j \in Nat
    /\ want \in Nat
    /\ put \in Nat
    /\ last \in (0..put) \X Nat

TransmitInit ==
    /\ wbuffer = <<>> /\ rbuffer = <<>>
    /\ pc = "idle" /\ j = 0 /\ want = 0
    /\ put = 0 /\ last = <<0, 0>>
-----------------------------------------------------------------------------
(* Mutant: the length covers the bytes behind the frame's end as well. *)
put_in_long(content) ==
    /\ put' = put + 1
    /\ wbuffer' = Append(wbuffer, [WFrame(put + 1, content) EXCEPT !.length = @ + 1])

(* What put_in does, inside whichever method calls it. *)
put_in(content) ==
    /\ put' = put + 1
    /\ wbuffer' = Append(wbuffer, WFrame(put + 1, content))

BeginCycle ==
    /\ pc = "idle"
    /\ pc' = "send"
    /\ UNCHANGED <<wbuffer, rbuffer, j, want, put, last>>

(* Mutant: the byte counter stays put. *)
SendByteStuck ==
    /\ pc = "send" /\ wbuffer # <<>>
    /\ j < Head(wbuffer).length
    /\ last' \in {last, <<Head(wbuffer).no, j + 1>>}
    /\ UNCHANGED <<wbuffer, rbuffer, pc, j, want, put>>

(* write of one byte, then tcflush(TCOFLUSH): the byte got out or was      *)
(* discarded, and a full port refuses it.  The result is not looked at.    *)
SendByte ==
    /\ pc = "send" /\ wbuffer # <<>>
    /\ j < Head(wbuffer).length
    /\ j' = j + 1
    /\ last' \in {last, <<Head(wbuffer).no, j + 1>>}
    /\ UNCHANGED <<wbuffer, rbuffer, pc, want, put>>

(* Mutant: the iterator is not moved and nothing is erased. *)
EraseFrameKept ==
    /\ pc = "send" /\ wbuffer # <<>>
    /\ j >= Head(wbuffer).length
    /\ j' = 0
    /\ UNCHANGED <<wbuffer, rbuffer, pc, want, put, last>>

EraseFrame ==
    /\ pc = "send" /\ wbuffer # <<>>
    /\ j >= Head(wbuffer).length
    /\ wbuffer' = Tail(wbuffer)
    /\ j' = 0
    /\ UNCHANGED <<rbuffer, pc, want, put, last>>

EndSend ==
    /\ pc = "send" /\ wbuffer = <<>>
    /\ pc' = "read"
    /\ UNCHANGED <<wbuffer, rbuffer, j, want, put, last>>

(* Mutant: do_cycle goes on to search for the answer. *)
ReadPortThenScan ==
    /\ pc = "read"
    /\ \E scID \in Received :
         rbuffer' = Append(rbuffer, [scID |-> scID, after |-> put])
    /\ pc' = "scan"
    /\ UNCHANGED <<wbuffer, j, want, put, last>>

(* One read, whatever it returns, makes one entry.  With no bytes or one,  *)
(* scID is what the fresh block held; its upper half is never written.  A  *)
(* read of nothing (-1) or of 1024 bytes then writes beside the block.     *)
ReadPort ==
    /\ pc = "read"
    /\ \/ /\ \E scID \in Received :
              rbuffer' = Append(rbuffer, [scID |-> scID, after |-> put])
          /\ pc' = "idle"
       \/ pc' = "crash" /\ UNCHANGED rbuffer
    /\ UNCHANGED <<wbuffer, j, want, put, last>>

CycleStep == SendByte \/ EraseFrame \/ EndSend \/ ReadPort
-----------------------------------------------------------------------------
(* Read_rbuffer starts at the head and erase leaves it there: the loop     *)
(* never looks at any entry but the head.                                  *)
Read_rbuffer(scID) ==
    /\ pc = "idle"
    /\ pc' = "scan"
    /\ want' = scID
    /\ UNCHANGED <<wbuffer, rbuffer, j, put, last>>

(* memcpy takes length, which nobody ever set, from an entry of 1024 bytes *)
(* to a block of 1025: it goes well or it does not.                        *)
TakeReply ==
    /\ pc = "scan" /\ rbuffer # <<>>
    /\ Head(rbuffer).scID = want
    /\ \/ rbuffer' = Tail(rbuffer) /\ UNCHANGED pc
       \/ pc' = "crash" /\ UNCHANGED rbuffer
    /\ UNCHANGED <<wbuffer, j, want, put, last>>

(* Mutant: the iterator passes over another call's entry. *)
SpinOnForeignSkips ==
    /\ pc = "scan" /\ rbuffer # <<>>
    /\ Head(rbuffer).scID # want
    /\ pc' = "idle"
    /\ UNCHANGED <<wbuffer, rbuffer, j, want, put, last>>

(* No branch advances the iterator past an entry with another scID. *)
SpinOnForeign ==
    /\ pc = "scan" /\ rbuffer # <<>>
    /\ Head(rbuffer).scID # want
    /\ pc' = "spin"
    /\ UNCHANGED <<wbuffer, rbuffer, j, want, put, last>>

EndRead ==
    /\ pc = "scan" /\ rbuffer = <<>>
    /\ pc' = "idle"
    /\ UNCHANGED <<wbuffer, rbuffer, j, want, put, last>>

ReadStep == TakeReply \/ SpinOnForeign \/ EndRead

(* The loop turning on the spot, or the process gone. *)
Stuck == pc \in {"spin", "crash"} /\ UNCHANGED uartVars
-----------------------------------------------------------------------------
(* A caller of the class: it may accept several frames between two cycles. *)
PutIn ==
    /\ pc = "idle" /\ put < MaxPut
    /\ \E content \in Content : put_in(content)
    /\ UNCHANGED <<rbuffer, pc, j, want, last>>

TransmitNext ==
    \/ PutIn
    \/ Len(rbuffer) < MaxEntries /\ BeginCycle
    \/ CycleStep
    \/ \E scID \in Received : Read_rbuffer(scID)
    \/ ReadStep
    \/ Stuck

(* do_cycle and Read_rbuffer never block: O_NDELAY, and no lock.           *)
TransmitSpec ==
    /\ TransmitInit /\ [][TransmitNext]_uartVars
    /\ WF_uartVars(CycleStep) /\ WF_uartVars(ReadStep)
-----------------------------------------------------------------------------
Line == INSTANCE OrderedLine WITH queued <- put, last <- last

(* transmit.cpp:69-79.  Whatever is discarded, no byte of a frame leaves   *)
(* twice and none leaves before the frames accepted earlier.               *)
LineInOrder == Line!Spec

(* The strengthening it rests on: the queue holds the frames accepted last *)
(* with no gap, and the line is behind the byte the loop is about to write.*)
QueueIsTail ==
    /\ \A i \in DOMAIN wbuffer : wbuffer[i].no = put - Len(wbuffer) + i
    /\ IF wbuffer = <<>> THEN j = 0 /\ last[1] <= put
       ELSE /\ last[1] <= Head(wbuffer).no
            /\ last[1] = Head(wbuffer).no => last[2] <= j
    /\ pc # "send" => j = 0

(* transmit.cpp:163-175.  verify_uart_mesg, run over what goes out, takes  *)
(* a frame iff chars are signed and the content sum is at most SCHAR_MAX:  *)
(* char against int, it rejects the other half of its own sender's frames, *)
(* and on the unsigned chars of the Pi every one of them.                  *)
VerifyTakesLowSums ==
    \A i \in DOMAIN wbuffer :
        LET w == wbuffer[i] IN
        verify_uart_mesg(w.buffer, w.length)
            <=> CharSigned /\ ByteSum(w.buffer, w.length) <= SCHAR_MAX

(* transmit.cpp:93 says "FF FF Content Checksum": what length covers of a  *)
(* queued frame is the header, the content and one byte more.              *)
FrameCarriesContent ==
    \A i \in DOMAIN wbuffer :
        LET w == wbuffer[i]
            wire == SubSeq(w.buffer, 1, w.length)
        IN  /\ Len(wire) = Len(w.content) + 3
            /\ SubSeq(wire, 1, Len(w.content) + 2) = Header \o w.content

(* The bytes do_cycle still has to write of the frame it is at. *)
LeftToSend == IF wbuffer = <<>> THEN 0 ELSE Head(wbuffer).length - j

(* transmit.cpp:66-81.  Each round of do_cycle's loops leaves fewer frames *)
(* or fewer bytes of the same one to send, whatever the port does with     *)
(* them; and it gets to reading only with nothing left to send.            *)
CycleAdvances ==
    [][ pc = "send" =>
          \/ pc' = "read" /\ wbuffer' = <<>>
          \/ pc' = "send" /\ Len(wbuffer') < Len(wbuffer)
          \/ pc' = "send" /\ wbuffer' = wbuffer /\ LeftToSend' < LeftToSend ]_uartVars

(* transmit.cpp:66-89.  do_cycle has the whole queue sent when it returns, *)
(* and it returns unless the byte put behind what was read ends it.        *)
CycleDrains == pc = "send" ~> (pc \in {"idle", "crash"} /\ wbuffer = <<>>)

(* transmit.cpp:122-134.  A read that finds an entry of another scID       *)
(* anywhere in the buffer never returns to its caller.                     *)
ForeignEntryHangs ==
    [][ (pc = "scan" /\ \E i \in DOMAIN rbuffer : rbuffer[i].scID # want)
            => pc' # "idle" ]_uartVars
=============================================================================
