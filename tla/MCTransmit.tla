----------------------------- MODULE MCTransmit -----------------------------
EXTENDS Transmit

(* Bytes 0..3, chars -2..1.  The contents' sums over the bytes the frame   *)
(* keeps lie on both sides of SCHAR_MAX and wrap.                          *)
MCContent == {<<1, 0, 3, 0>>, <<2, 0, 1, 0, 3>>, <<3, 0, 2, 1, 2, 2>>}

(* A 16-bit id of this scale, a later one, and one with a garbage upper    *)
(* half.                                                                   *)
MCReceived == {1, 2, 16}
=============================================================================
