----------------------------- MODULE MCIRReader -----------------------------
EXTENDS IRReader

(* One capture without a zero byte and one that a C string cuts short. *)
MCCaptures == {<<2, 3>>, <<4, 0>>}

(* Two records, and the number that means none. *)
MCIRIDs == {-1, 7, 8}
MCRecords == {7, 8}
=============================================================================
