-------------------------- MODULE InterpreterLock --------------------------
(***************************************************************************)
(* What the interpreter's lock is to the program's threads.  Whoever gets  *)
(* it finds it free and its own thread state becomes the current one;      *)
(* nobody but the holder gives it up or changes what is current; and then  *)
(* no state is current, except what IRProtocol's constructor leaves, once. *)
(* A process that has ended moves it no more.                              *)
(***************************************************************************)
VARIABLES holder,   \* the thread state the lock was taken with, or "none"
          current,  \* the current thread state, or "none"
          built,    \* has the constructor given the lock up?
          over      \* has the process ended?

lockState == <<holder, current, built, over>>

Init == holder = "none" /\ current # "none" /\ built \in BOOLEAN /\ ~over

Take ==
    /\ holder = "none" /\ holder' # "none" /\ current' = holder'
    /\ UNCHANGED <<built, over>>

Give ==
    /\ holder # "none" /\ holder' = "none" /\ current' = "none"
    /\ UNCHANGED <<built, over>>

Leave ==
    /\ ~built /\ built'
    /\ holder # "none" /\ holder' = "none"
    /\ UNCHANGED <<current, over>>

End == over' /\ UNCHANGED <<holder, current, built>>

Spec == Init /\ [][~over /\ (Take \/ Give \/ Leave \/ End)]_lockState
=============================================================================
