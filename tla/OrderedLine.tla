---------------------------- MODULE OrderedLine ----------------------------
(***************************************************************************)
(* What the UART side promises its callers: frames are accepted one by one *)
(* and their bytes leave in the order they were accepted, each at most     *)
(* once.  Bytes may be missing: the promise has no other word about loss.  *)
(***************************************************************************)
EXTENDS Naturals

VARIABLES queued,   \* how many frames were accepted
          last      \* <<frame, byte>> of the latest byte that left

lineVars == <<queued, last>>

Precedes(p, q) == p[1] < q[1] \/ (p[1] = q[1] /\ p[2] < q[2])

Init == queued = 0 /\ last = <<0, 0>>

Accept == queued' = queued + 1 /\ UNCHANGED last

Emit ==
    /\ last' \in (1..queued) \X (Nat \ {0})
    /\ Precedes(last, last')
    /\ UNCHANGED queued

Spec == Init /\ [][Accept \/ Emit]_lineVars
=============================================================================
