----------------------------- MODULE LearnCalls -----------------------------
(***************************************************************************)
(* What learning promises those who ask, however their learns overlap: a   *)
(* learn passes one signal on at most, under the IRID it was asked for or  *)
(* one asked for later, and made of bytes that were heard.  Whose bytes    *)
(* they are, and what becomes of them, it does not say.                    *)
(***************************************************************************)
EXTENDS Naturals, Sequences

CONSTANT IRIDs

VARIABLES asked,    \* the IRIDs asked for, in order: a learn is its place
          heard,    \* the captures so far: byte of each place
          calls     \* the signals passed on: by which learn, under which IRID

callVars == <<asked, heard, calls>>

Init == asked = <<>> /\ heard = {} /\ calls = {}

Ask ==
    /\ \E IRID \in IRIDs : asked' = Append(asked, IRID)
    /\ UNCHANGED <<heard, calls>>

Hear ==
    /\ heard \subseteq heard'
    /\ UNCHANGED <<asked, calls>>

(* The start byte, then bytes heard at their places. *)
Made(signal) ==
    \A c \in DOMAIN signal :
        IF c = 1 THEN signal[c] = 1 ELSE \E bytes \in heard : signal[c] = bytes[c - 1]

PassOn ==
    /\ \E new \in calls' :
         /\ calls' = calls \cup {new}
         /\ \A old \in calls : old.by # new.by
         /\ \E m \in new.by..Len(asked) : new.IRID = asked[m]
         /\ Made(new.signal)
    /\ UNCHANGED <<asked, heard>>

Spec == Init /\ [][Ask \/ Hear \/ PassOn]_callVars
=============================================================================
