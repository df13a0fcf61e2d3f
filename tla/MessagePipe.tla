---------------------------- MODULE MessagePipe ----------------------------
(***************************************************************************)
(* What the command pipe promises: the messages of all writepipe calls     *)
(* come out in the order of the calls, byte by byte, each byte once, none  *)
(* left out, and no message inside another.                                *)
(***************************************************************************)
EXTENDS Naturals

VARIABLES queued,   \* calls of writepipe: the messages' numbers
          last      \* the latest byte that came out: message, position in it,
                    \* is it the NUL?

pipeVars == <<queued, last>>

Nothing == [no |-> 0, pos |-> 0, nul |-> TRUE]

(* b comes right before c in what the calls were to write. *)
Follows(b, c) ==
    IF b.nul THEN c.no = b.no + 1 /\ c.pos = 1
    ELSE c.no = b.no /\ c.pos = b.pos + 1

Init == queued = 0 /\ last = Nothing

Accept == queued' = queued + 1 /\ UNCHANGED last

Deliver ==
    /\ last' \in [no : 1..queued, pos : Nat, nul : BOOLEAN]
    /\ Follows(last, last')
    /\ UNCHANGED queued

Spec == Init /\ [][Accept \/ Deliver]_pipeVars
=============================================================================
