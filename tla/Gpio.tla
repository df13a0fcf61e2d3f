-------------------------------- MODULE Gpio --------------------------------
(***************************************************************************)
(* The receiver's pin and the process's descriptors, as IRReader uses them *)
(* (IRReader.cpp:34-53, 63-136, 156-217): start_learn_IR prepares the pin  *)
(* through three files of sysfs, whose failures are only logged, and every *)
(* learner's thread opens a fourth, which nobody closes.  What a capture   *)
(* is and what becomes of it is the subject of Sampler and IRReader.       *)
(*                                                                         *)
(* External: the kernel's sysfs, where the first poll of a descriptor      *)
(* nobody has read from may return at once and later ones wait for the     *)
(* edge that was set; and the rest of the process, which opens descriptors *)
(* (connections, databases) and closes them.                               *)
(***************************************************************************)
EXTENDS Integers, FiniteSets

CONSTANTS Limit,        \* descriptors the process can have beyond the fixed ones
          MaxLearns     \* bound: calls of start_learn_IR

ASSUME GpioAssumption == Limit \in Nat /\ MaxLearns \in Nat

Learners == 1..MaxLearns
Steps == {"export", "direction", "edge"}

VARIABLES
    sysfs,      \* are the files of the pin there for this process?
    pin,        \* the steps that took effect; the kernel keeps them
    main,       \* "idle", a step of Steps, or "create"
    writing,    \* has main the step's file open?
    started,    \* calls of start_learn_IR
    pc,         \* per learner: where its thread is
    gpio_fd,    \* per learner: "none" (-1), "fresh" or "read"
    captured,   \* the learners that have sampled a signal
    others      \* descriptors the rest of the process has open

mainVars == <<main, writing, started>>
learnVars == <<pc, gpio_fd, captured>>
vars == <<sysfs, pin, mainVars, learnVars, others>>

Holders == {n \in Learners : gpio_fd[n] # "none"}
Taken == Cardinality(Holders) + others + (IF writing THEN 1 ELSE 0)

TypeOK ==
    /\ sysfs \in BOOLEAN /\ pin \subseteq Steps
    /\ main \in Steps \cup {"idle", "create"}
    /\ writing \in BOOLEAN /\ (writing => main \in Steps)
    /\ started \in 0..MaxLearns /\ (main # "idle" => started >= 1)
    /\ pc \in [Learners -> {"none", "open", "poll", "callback", "done"}]
    /\ gpio_fd \in [Learners -> {"none", "fresh", "read"}]
    /\ captured \subseteq Learners
    /\ others \in 0..Limit

(* An earlier run of the program may have left the pin prepared. *)
Init ==
    /\ sysfs \in BOOLEAN /\ pin \in SUBSET Steps /\ (pin # {} => "export" \in pin)
    /\ main = "idle" /\ writing = FALSE /\ started = 0
    /\ pc = [n \in Learners |-> "none"]
    /\ gpio_fd = [n \in Learners |-> "none"]
    /\ captured = {} /\ others = 0
-----------------------------------------------------------------------------
start_learn_IR ==
    /\ main = "idle" /\ started < MaxLearns
    /\ started' = started + 1 /\ main' = "export"
    /\ UNCHANGED <<sysfs, pin, writing, learnVars, others>>

After(step) == CASE step = "export" -> "direction" [] step = "direction" -> "edge"
                 [] step = "edge" -> "create"

(* Can open give a descriptor?  Only export's file is there before the pin *)
(* has been exported.  It may always fail: access, memory, a busy pin.     *)
Opens(file) == sysfs /\ Taken < Limit /\ (file = "export" \/ "export" \in pin)

(* Mutant: a failure ends start_learn_IR. *)
OpenFileReturns ==
    /\ main \in Steps /\ ~writing
    /\ \/ Opens(main) /\ writing' = TRUE /\ UNCHANGED main
       \/ main' = "idle" /\ UNCHANGED writing
    /\ UNCHANGED <<sysfs, pin, started, learnVars, others>>

(* gpio_export, gpio_set_dir and gpio_set_edge: open, or log a warning ... *)
OpenFile ==
    /\ main \in Steps /\ ~writing
    /\ \/ Opens(main) /\ writing' = TRUE /\ UNCHANGED main
       \/ main' = After(main) /\ UNCHANGED writing
    /\ UNCHANGED <<sysfs, pin, started, learnVars, others>>

(* Mutant: the file is not closed. *)
WriteFileOpen ==
    /\ main \in Steps /\ writing
    /\ pin' \in {pin, pin \cup {main}}
    /\ main' = After(main)
    /\ UNCHANGED <<sysfs, writing, started, learnVars, others>>

(* ... write, whatever that returns, and close. *)
WriteFile ==
    /\ main \in Steps /\ writing
    /\ pin' \in {pin, pin \cup {main}}
    /\ writing' = FALSE /\ main' = After(main)
    /\ UNCHANGED <<sysfs, started, learnVars, others>>

(* The thread is created, whatever failed before, or a warning is logged. *)
CreateThread ==
    /\ main = "create" /\ main' = "idle"
    /\ \E at \in {"open", "done"} : pc' = [pc EXCEPT ![started] = at]
    /\ UNCHANGED <<sysfs, pin, writing, started, gpio_fd, captured, others>>

(* gpio_fd_open: a failure is printed, and -1 is what will be polled. *)
gpio_fd_open(n) ==
    /\ pc[n] = "open"
    /\ pc' = [pc EXCEPT ![n] = "poll"]
    /\ \E fd \in {"none", "fresh"} :
         /\ fd = "fresh" => Opens("value")
         /\ gpio_fd' = [gpio_fd EXCEPT ![n] = fd]
    /\ UNCHANGED <<sysfs, pin, mainVars, captured, others>>

(* poll takes no notice of -1 and waits for ever. *)
Returns(n) == gpio_fd[n] = "fresh" \/ (gpio_fd[n] = "read" /\ "edge" \in pin)

(* Interference: the level is read and poll is called again. *)
Interference(n) ==
    /\ pc[n] = "poll" /\ Returns(n)
    /\ gpio_fd' = [gpio_fd EXCEPT ![n] = "read"]
    /\ UNCHANGED <<sysfs, pin, mainVars, pc, captured, others>>

Capture(n) ==
    /\ pc[n] = "poll" /\ Returns(n)
    /\ pc' = [pc EXCEPT ![n] = "callback"]
    /\ gpio_fd' = [gpio_fd EXCEPT ![n] = "read"]
    /\ captured' = captured \cup {n}
    /\ UNCHANGED <<sysfs, pin, mainVars, others>>

(* Mutant: gpio_fd_close is called. *)
EndLearnClosed(n) ==
    /\ pc[n] = "callback"
    /\ pc' = [pc EXCEPT ![n] = "done"]
    /\ gpio_fd' = [gpio_fd EXCEPT ![n] = "none"]
    /\ UNCHANGED <<sysfs, pin, mainVars, captured, others>>

(* The callback returns and the thread ends; gpio_fd_close has no caller. *)
EndLearn(n) ==
    /\ pc[n] = "callback"
    /\ pc' = [pc EXCEPT ![n] = "done"]
    /\ UNCHANGED <<sysfs, pin, mainVars, gpio_fd, captured, others>>

(* The rest of the process opens and closes. *)
Others ==
    /\ \/ Taken < Limit /\ others' = others + 1
       \/ others > 0 /\ others' = others - 1
    /\ UNCHANGED <<sysfs, pin, mainVars, learnVars>>

Thread(n) == gpio_fd_open(n) \/ Interference(n) \/ Capture(n) \/ EndLearn(n)

Next ==
    \/ start_learn_IR \/ OpenFile \/ WriteFile \/ CreateThread
    \/ (\E n \in Learners : Thread(n)) \/ Others

(* Main's steps and a thread's open wait for nobody; signals are not       *)
(* promised to come.                                                       *)
Spec ==
    /\ Init /\ [][Next]_vars
    /\ WF_vars(OpenFile \/ WriteFile \/ CreateThread)
    /\ \A n \in Learners : WF_vars(gpio_fd_open(n))
-----------------------------------------------------------------------------
(* IRReader.cpp:162, 214-216.  However many learns are started and however *)
(* slowly they follow each other, only so many capture in the process's    *)
(* life as it has descriptors; the rest wait in poll for ever.             *)
CapturesLimited ==
    /\ Taken <= Limit
    /\ captured \subseteq Holders /\ Cardinality(captured) <= Limit

(* IRReader.cpp:162 without 88-91.  Once learners have all descriptors,    *)
(* ended or not, neither the web server nor a learn ever gets one again.   *)
StarvedForGood ==
    [][ Cardinality(Holders) = Limit =>
          /\ Holders' = Holders /\ others' = 0 /\ pin' = pin
          /\ \A n \in captured' : gpio_fd[n] # "none" ]_vars

(* IRReader.cpp:40-52.  No learn is forgotten: whoever was asked for and   *)
(* has no thread is the one main is at.                                    *)
NoneForgotten ==
    \A n \in Learners : started >= n => pc[n] # "none" \/ (n = started /\ main # "idle")

(* The steps of main and of the learner itself that a learn has before it  *)
(* at most until it polls.                                                 *)
MainAhead ==
    (CASE main = "export" -> 7 [] main = "direction" -> 5 [] main = "edge" -> 3
       [] main = "create" -> 1 [] main = "idle" -> 0)
    - (IF writing THEN 1 ELSE 0)
LearnAhead(n) ==
    CASE pc[n] = "none" -> MainAhead + 1 [] pc[n] = "open" -> 1 [] OTHER -> 0

(* IRReader.cpp:40-52, 162-174.  A step main or the learner takes for it,  *)
(* failed or not, brings a learn nearer to its poll, and nobody, not by    *)
(* taking the last descriptor either, sends one back.                      *)
LearnAdvances ==
    [][ \A n \in Learners : started >= n =>
          IF \/ gpio_fd_open(n)
             \/ pc[n] = "none" /\ (OpenFile \/ WriteFile \/ CreateThread)
          THEN LearnAhead(n)' < LearnAhead(n)
          ELSE LearnAhead(n)' = LearnAhead(n) ]_vars

(* IRReader.cpp:40-52, 162-174.  A learn that was asked for comes to its   *)
(* poll, or could not be started, whatever fails on the way.               *)
LearnPolls == \A n \in Learners : started >= n ~> pc[n] \in {"poll", "callback", "done"}
=============================================================================
