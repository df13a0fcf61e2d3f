------------------------------- MODULE Frame -------------------------------
(***************************************************************************)
(* The bytes class transmit puts on the UART (transmit.cpp): put_in's      *)
(* layout, finish_checksum and verify_uart_mesg, as operators on sequences *)
(* of bytes.  The C index i of a buffer is the sequence index i + 1.       *)
(***************************************************************************)
EXTENDS Integers, Sequences, Functions

CONSTANTS SCHAR_MAX,    \* 127 on every target; smaller when TLC runs
          CharSigned    \* is plain char signed?  (x86: yes, the Pi's ARM: no)

ASSUME CharAssumption == SCHAR_MAX \in Nat /\ CharSigned \in BOOLEAN

UCHAR_MAX == 2 * SCHAR_MAX + 1
Byte == 0..UCHAR_MAX

(* sum & 0xff over the C bytes 2 .. size-2. *)
ByteSum(buffer, size) ==
    SumFunction([i \in 3..(size - 1) |-> buffer[i]]) % (UCHAR_MAX + 1)

(* The low byte of ~sum is the byte complement; it overwrites whatever the *)
(* C byte size-1 held.                                                     *)
finish_checksum(buffer, size) ==
    [buffer EXCEPT ![size] = UCHAR_MAX - ByteSum(buffer, size)]

Header == <<UCHAR_MAX, UCHAR_MAX>>

(* The buffer put_in fills: header, content, and a checksum computed and   *)
(* placed as if the buffer were Len(content) bytes long.  The byte behind  *)
(* the content is allocated, never written and never read: left out.       *)
FrameBuffer(content) == finish_checksum(Header \o content, Len(content))

(* char -> int: what == compares when one side is a plain char. *)
AsInt(byte) ==
    IF CharSigned /\ byte > SCHAR_MAX THEN byte - (UCHAR_MAX + 1) ELSE byte

(* Mutant: the repaired comparison, byte against byte. *)
verify_uart_mesg_bytes(buffer, length) ==
    /\ buffer[1] = UCHAR_MAX
    /\ buffer[2] = UCHAR_MAX
    /\ buffer[length] = UCHAR_MAX - ByteSum(buffer, length)

(* verify_uart_mesg compares the last char with the int ~sum, which lies   *)
(* in -256 .. -1.                                                          *)
verify_uart_mesg(buffer, length) ==
    /\ buffer[1] = UCHAR_MAX
    /\ buffer[2] = UCHAR_MAX
    /\ AsInt(buffer[length]) = -1 - ByteSum(buffer, length)
=============================================================================
