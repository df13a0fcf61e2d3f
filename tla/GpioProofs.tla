----------------------------- MODULE GpioProofs -----------------------------
(***************************************************************************)
(* Theorems about Gpio for every number of descriptors and of learns.      *)
(***************************************************************************)
EXTENDS Gpio, FiniteSetTheorems, TLAPS

(* The descriptors in use are counted, and a learner has one only from its *)
(* poll on.                                                                *)
GpioInv ==
    /\ TypeOK /\ Taken <= Limit
    /\ captured \subseteq Holders
    /\ \A n \in Holders : pc[n] \in {"poll", "callback", "done"}
    /\ \A n \in Learners : pc[n] # "none" => n <= started /\ (n = started => main = "idle")

USE DEF mainVars, learnVars, Learners, Steps

LEMMA HoldersFinite ==
  IsFiniteSet(Holders) /\ Cardinality(Holders) \in Nat
<1>1. IsFiniteSet(1..MaxLearns)
  BY FS_Interval, GpioAssumption
<1> QED
  BY <1>1, FS_Subset, FS_CardinalityType DEF Holders

LEMMA GpioInit == Init => GpioInv
<1> SUFFICES ASSUME Init PROVE GpioInv
  OBVIOUS
<1>1. Holders = {}
  BY DEF Init, Holders
<1>2. Taken = 0
  BY <1>1, FS_EmptySet DEF Init, Taken
<1>3. others \in 0..Limit /\ started \in 0..MaxLearns
  BY GpioAssumption DEF Init
<1>4. TypeOK
  BY <1>3 DEF Init, TypeOK
<1> QED
  BY <1>1, <1>2, <1>4, GpioAssumption DEF Init, GpioInv

(* What a step does to the learners that have a descriptor: nothing but to *)
(* add the one that opens, if there is one left.                           *)
LEMMA HoldersGrow ==
  ASSUME GpioInv, [Next]_vars
  PROVE  \/ Holders' = Holders
         \/ \E n \in Learners \ Holders : Holders' = Holders \cup {n} /\ gpio_fd_open(n)
                                          /\ Opens("value")
<1>1. CASE UNCHANGED gpio_fd
  BY <1>1 DEF Holders
<1>2. ASSUME NEW n \in Learners, gpio_fd_open(n)
      PROVE  \/ Holders' = Holders
             \/ n \notin Holders /\ Holders' = Holders \cup {n} /\ Opens("value")
  <2>1. n \notin Holders
    BY <1>2 DEF gpio_fd_open, GpioInv
  <2> QED
    BY <1>2, <2>1 DEF gpio_fd_open, Holders, GpioInv, TypeOK
<1>3. ASSUME NEW n \in Learners, Interference(n) \/ Capture(n) PROVE Holders' = Holders
  <2>1. n \in Holders
    BY <1>3 DEF Interference, Capture, Returns, Holders
  <2> QED
    BY <1>3, <2>1 DEF Interference, Capture, Holders, GpioInv, TypeOK
<1> QED
  BY <1>1, <1>2, <1>3
     DEF Next, start_learn_IR, OpenFile, WriteFile, CreateThread, Thread, EndLearn, Others, vars

LEMMA GpioType == GpioInv /\ [Next]_vars => TypeOK'
<1> SUFFICES ASSUME GpioInv, [Next]_vars PROVE TypeOK'
  OBVIOUS
<1> USE GpioAssumption DEF GpioInv, TypeOK
<1>1. CASE start_learn_IR
  BY <1>1 DEF start_learn_IR
<1>2. CASE OpenFile
  <2>1. After(main) \in {"direction", "edge", "create"}
    BY <1>2 DEF OpenFile, After
  <2>2. CASE writing' = TRUE /\ UNCHANGED main
    BY <1>2, <2>2 DEF OpenFile
  <2>3. CASE main' = After(main) /\ UNCHANGED writing
    BY <1>2, <2>1, <2>3 DEF OpenFile
  <2> QED
    BY <1>2, <2>2, <2>3 DEF OpenFile
<1>3. CASE WriteFile
  BY <1>3 DEF WriteFile, After
<1>4. CASE CreateThread
  BY <1>4 DEF CreateThread
<1>5. ASSUME NEW n \in Learners, Thread(n) PROVE TypeOK'
  <2>1. /\ UNCHANGED <<sysfs, pin, mainVars, others>> /\ captured' \subseteq Learners
        /\ \E at \in {"poll", "callback", "done"} : pc' = [pc EXCEPT ![n] = at]
    BY <1>5 DEF Thread, gpio_fd_open, Interference, Capture, EndLearn
  <2>2. gpio_fd' = gpio_fd \/ \E fd \in {"none", "fresh", "read"} : gpio_fd' = [gpio_fd EXCEPT ![n] = fd]
    BY <1>5 DEF Thread, gpio_fd_open, Interference, Capture, EndLearn
  <2> QED
    BY <2>1, <2>2
<1>6. CASE Others
  <2>1. Taken < Limit => others < Limit
    BY HoldersFinite DEF Taken
  <2>2. others' \in 0..Limit
    BY <1>6, <2>1 DEF Others
  <2> QED
    BY <1>6, <2>2 DEF Others
<1>7. CASE UNCHANGED vars
  BY <1>7 DEF vars
<1> QED
  BY <1>1, <1>2, <1>3, <1>4, <1>5, <1>6, <1>7 DEF Next

LEMMA GpioNext == GpioInv /\ [Next]_vars => GpioInv'
<1> SUFFICES ASSUME GpioInv, [Next]_vars PROVE GpioInv'
  OBVIOUS
<1>1. TypeOK'
  BY GpioType
<1>2. Taken' <= Limit
  <2> USE GpioAssumption, HoldersFinite DEF GpioInv, TypeOK, Taken
  <2>1. CASE Holders' = Holders
    <3>1. CASE UNCHANGED <<writing, others>>
      BY <2>1, <3>1
    <3>2. CASE OpenFile
      BY <2>1, <3>2 DEF OpenFile, Opens
    <3>3. CASE WriteFile \/ Others
      BY <2>1, <3>3 DEF WriteFile, Others
    <3> QED
      BY <3>1, <3>2, <3>3
         DEF Next, start_learn_IR, CreateThread, Thread, gpio_fd_open, Interference, Capture,
             EndLearn, vars
  <2>2. ASSUME NEW n \in Learners \ Holders, Holders' = Holders \cup {n}, gpio_fd_open(n),
               Opens("value")
        PROVE  Taken' <= Limit
    <3>1. Cardinality(Holders') = Cardinality(Holders) + 1
      BY <2>2, FS_AddElement
    <3>2. UNCHANGED <<writing, others>>
      BY <2>2 DEF gpio_fd_open
    <3> QED
      BY <2>2, <3>1, <3>2 DEF Opens
  <2> QED
    BY <2>1, <2>2, HoldersGrow
<1>3. captured' \subseteq Holders'
  <2>1. ASSUME NEW n \in Learners, Capture(n) PROVE n \in Holders
    BY <2>1 DEF Capture, Returns, Holders
  <2>2. Holders \subseteq Holders'
    BY HoldersGrow
  <2> QED
    BY <2>1, <2>2
       DEF GpioInv, Next, start_learn_IR, OpenFile, WriteFile, CreateThread, Thread,
           gpio_fd_open, Interference, Capture, EndLearn, Others, vars
<1>4. \A n \in Holders' : pc'[n] \in {"poll", "callback", "done"}
  <2>1. ASSUME NEW n \in Holders, pc[n] \in {"poll", "callback", "done"}
        PROVE  pc'[n] \in {"poll", "callback", "done"}
    <3>1. n \in Learners
      BY DEF Holders
    <3>2. CASE UNCHANGED pc
      BY <2>1, <3>2
    <3>3. CASE CreateThread
      <4>1. n # started
        BY <2>1, <3>1, <3>3 DEF CreateThread, GpioInv
      <4> QED
        BY <2>1, <3>1, <3>3, <4>1 DEF CreateThread, GpioInv, TypeOK
    <3>4. ASSUME NEW m \in Learners, Thread(m) PROVE pc'[n] \in {"poll", "callback", "done"}
      <4>1. UNCHANGED pc \/ \E at \in {"poll", "callback", "done"} : pc' = [pc EXCEPT ![m] = at]
        BY <3>4 DEF Thread, gpio_fd_open, Interference, Capture, EndLearn
      <4> QED
        BY <2>1, <3>1, <4>1 DEF GpioInv, TypeOK
    <3> QED
      BY <3>2, <3>3, <3>4
         DEF Next, start_learn_IR, OpenFile, WriteFile, Others, vars
  <2>2. ASSUME NEW n \in Learners, gpio_fd_open(n) PROVE pc'[n] = "poll"
    BY <2>2 DEF gpio_fd_open, GpioInv, TypeOK
  <2> QED
    BY <2>1, <2>2, HoldersGrow DEF GpioInv
<1>5. \A n \in Learners : pc'[n] # "none" => n <= started' /\ (n = started' => main' = "idle")
  <2> USE GpioAssumption DEF GpioInv, TypeOK
  <2>1. CASE start_learn_IR
    BY <2>1 DEF start_learn_IR
  <2>2. CASE CreateThread
    BY <2>2 DEF CreateThread
  <2>3. ASSUME NEW m \in Learners, Thread(m), NEW n \in Learners, pc'[n] # "none"
        PROVE  pc[n] # "none" /\ UNCHANGED mainVars
    BY <2>3 DEF Thread, gpio_fd_open, Interference, Capture, EndLearn
  <2>4. CASE OpenFile \/ WriteFile
    BY <2>4 DEF OpenFile, WriteFile
  <2>5. CASE Others \/ UNCHANGED vars
    BY <2>5 DEF Others, vars
  <2> QED
    BY <2>1, <2>2, <2>3, <2>4, <2>5 DEF Next
<1> QED
  BY <1>1, <1>2, <1>3, <1>4, <1>5 DEF GpioInv
-----------------------------------------------------------------------------
(* The pin, main, the learners and the others keep their types: main has a *)
(* file open only inside one of its three steps.                           *)
THEOREM GpioTypeCorrect == Spec => []TypeOK
<1>1. GpioInv => TypeOK
  BY DEF GpioInv
<1> QED
  BY <1>1, GpioInit, GpioNext, PTL DEF Spec

(* No more learns capture in a process's life than it has descriptors. *)
THEOREM CapturesCounted == Spec => []CapturesLimited
<1>1. GpioInv => CapturesLimited
  <2> SUFFICES ASSUME GpioInv PROVE CapturesLimited
    OBVIOUS
  <2>1. Cardinality(captured) <= Cardinality(Holders) /\ Cardinality(captured) \in Nat
    BY HoldersFinite, FS_Subset, FS_CardinalityType DEF GpioInv
  <2>2. Cardinality(Holders) <= Taken
    BY HoldersFinite DEF GpioInv, TypeOK, Taken
  <2>3. Taken \in Int
    BY HoldersFinite DEF GpioInv, TypeOK, Taken
  <2> QED
    BY <2>1, <2>2, <2>3, HoldersFinite, GpioAssumption DEF GpioInv, CapturesLimited
<1> QED
  BY <1>1, GpioInit, GpioNext, PTL DEF Spec

(* Once learners have all descriptors, nobody ever opens one again. *)
THEOREM Starved == Spec => StarvedForGood
<1> DEFINE Starves == Cardinality(Holders) = Limit =>
                        /\ Holders' = Holders /\ others' = 0 /\ pin' = pin
                        /\ \A n \in captured' : gpio_fd[n] # "none"
<1>1. ASSUME GpioInv, [Next]_vars PROVE Starves
  <2> SUFFICES ASSUME Cardinality(Holders) = Limit PROVE Starves
    OBVIOUS
  <2>1. Taken = Limit /\ others = 0 /\ writing = FALSE
    BY <1>1, GpioAssumption DEF GpioInv, TypeOK, Taken
  <2>2. ~Opens(main) /\ ~Opens("value")
    BY <2>1, GpioAssumption DEF Opens
  <2>3. Holders' = Holders
    BY <1>1, <2>2, HoldersGrow
  <2>4. others' = 0 /\ pin' = pin
    BY <1>1, <2>1, GpioAssumption
       DEF Next, start_learn_IR, OpenFile, WriteFile, CreateThread, Thread, gpio_fd_open,
           Interference, Capture, EndLearn, Others, vars
  <2>5. captured' \subseteq Holders
    BY <1>1, <2>3, GpioNext DEF GpioInv
  <2> QED
    BY <2>3, <2>4, <2>5 DEF Holders
<1> QED
  BY <1>1, GpioInit, GpioNext, PTL DEF Spec, StarvedForGood

(* IRReader.cpp:40-52: main is at the learn that has no thread yet. *)
THEOREM NoneLeft == Spec => []NoneForgotten
<1>1. Init => NoneForgotten
  BY GpioAssumption DEF Init, NoneForgotten
<1>2. ASSUME GpioInv, NoneForgotten, [Next]_vars PROVE NoneForgotten'
  <2>0. /\ started \in Nat /\ MaxLearns \in Nat /\ pc \in [Learners -> {"none", "open", "poll", "callback", "done"}]
        /\ main \in {"export", "direction", "edge", "idle", "create"}
    BY <1>2, GpioAssumption DEF GpioInv, TypeOK
  <2> USE DEF NoneForgotten
  <2>1. CASE start_learn_IR
    BY <1>2, <2>0, <2>1 DEF start_learn_IR
  <2>2. CASE OpenFile \/ WriteFile
    BY <1>2, <2>0, <2>2 DEF OpenFile, WriteFile, After
  <2>3. CASE CreateThread
    <3>1. PICK at \in {"open", "done"} : pc' = [pc EXCEPT ![started] = at]
      BY <2>3 DEF CreateThread
    <3>2. \A n \in Learners : pc[n] # "none" => pc'[n] # "none"
      BY <2>0, <3>1
    <3>3. \A n \in Learners : n = started => pc'[n] # "none"
      BY <2>0, <3>1
    <3> QED
      BY <1>2, <2>3, <3>2, <3>3 DEF CreateThread
  <2>4. ASSUME NEW n \in Learners, Thread(n) PROVE NoneForgotten'
    <3>1. UNCHANGED mainVars
      BY <2>4 DEF Thread, gpio_fd_open, Interference, Capture, EndLearn
    <3>2. UNCHANGED pc \/ \E at \in {"poll", "callback", "done"} : pc' = [pc EXCEPT ![n] = at]
      BY <2>4 DEF Thread, gpio_fd_open, Interference, Capture, EndLearn
    <3>3. \A m \in Learners : pc[m] # "none" => pc'[m] # "none"
      BY <2>0, <3>2
    <3> QED
      BY <1>2, <3>1, <3>3
  <2>5. CASE Others \/ UNCHANGED vars
    BY <1>2, <2>5 DEF Others, vars
  <2> QED
    BY <1>2, <2>1, <2>2, <2>3, <2>4, <2>5 DEF Next
<1> QED
  BY <1>1, <1>2, GpioInit, GpioNext, PTL DEF Spec

LEMMA AheadOfMain == GpioInv => MainAhead \in Nat /\ (main # "idle" => MainAhead >= 1)
  BY DEF GpioInv, TypeOK, MainAhead

(* What a step does to a learn that was asked for. *)
LEMMA LearnStep ==
  ASSUME GpioInv, NoneForgotten, [Next]_vars, NEW n \in Learners, started >= n
  PROVE  IF \/ gpio_fd_open(n)
            \/ pc[n] = "none" /\ (OpenFile \/ WriteFile \/ CreateThread)
         THEN LearnAhead(n)' < LearnAhead(n)
         ELSE LearnAhead(n)' = LearnAhead(n)
<1> USE DEF GpioInv, TypeOK
<1>1. pc[n] = "none" => n = started /\ main # "idle"
  BY DEF NoneForgotten
<1>2. ASSUME gpio_fd_open(n) PROVE LearnAhead(n)' < LearnAhead(n)
  <2>1. pc[n] = "open" /\ pc'[n] = "poll"
    BY <1>2 DEF gpio_fd_open
  <2>2. LearnAhead(n) = 1 /\ LearnAhead(n)' = 0
    BY <2>1 DEF LearnAhead
  <2> QED
    BY <2>2
<1>3. ASSUME pc[n] = "none", OpenFile \/ WriteFile PROVE LearnAhead(n)' < LearnAhead(n)
  <2>1. MainAhead' < MainAhead /\ MainAhead' \in Nat /\ MainAhead \in Nat
    <3>1. CASE OpenFile
      BY <3>1 DEF OpenFile, After, MainAhead
    <3>2. CASE WriteFile
      BY <3>2 DEF WriteFile, After, MainAhead
    <3> QED
      BY <1>3, <3>1, <3>2
  <2>2. pc' = pc
    BY <1>3 DEF OpenFile, WriteFile
  <2> QED
    BY <1>3, <2>1, <2>2 DEF LearnAhead
<1>4. ASSUME pc[n] = "none", CreateThread PROVE LearnAhead(n)' < LearnAhead(n)
  <2>1. pc'[n] \in {"open", "done"}
    BY <1>1, <1>4 DEF CreateThread
  <2>2. main = "create" /\ writing = FALSE
    BY <1>4 DEF CreateThread
  <2>3. MainAhead = 1
    BY <2>2 DEF MainAhead
  <2>4. LearnAhead(n) = 2 /\ LearnAhead(n)' \in {0, 1}
    BY <1>4, <2>1, <2>3 DEF LearnAhead
  <2> QED
    BY <2>4
<1>5. ASSUME ~gpio_fd_open(n), ~(pc[n] = "none" /\ (OpenFile \/ WriteFile \/ CreateThread))
      PROVE  LearnAhead(n)' = LearnAhead(n)
  <2>1. CASE pc[n] = "none"
    <3>1. main # "idle" /\ ~start_learn_IR
      BY <1>1, <2>1 DEF start_learn_IR
    <3>2. \A m \in Learners : ~Thread(m) \/ (pc'[n] = pc[n] /\ UNCHANGED <<main, writing>>)
      BY <2>1 DEF Thread, gpio_fd_open, Interference, Capture, EndLearn
    <3>3. pc'[n] = pc[n] /\ UNCHANGED <<main, writing>>
      BY <1>5, <2>1, <3>1, <3>2 DEF Next, Others, vars
    <3> QED
      BY <3>3 DEF LearnAhead, MainAhead
  <2>2. CASE pc[n] # "none"
    <3>0. ASSUME pc'[n] = pc[n] PROVE LearnAhead(n)' = LearnAhead(n)
      BY <2>2, <3>0 DEF LearnAhead
    <3>1. CASE CreateThread
      <4>1. n # started /\ \E at : pc' = [pc EXCEPT ![started] = at]
        BY <2>2, <3>1 DEF CreateThread
      <4> QED
        BY <3>0, <4>1
    <3>2. CASE UNCHANGED pc
      BY <3>0, <3>2
    <3>3. ASSUME NEW m \in Learners, Thread(m), m # n
          PROVE  LearnAhead(n)' = LearnAhead(n)
      <4>1. pc'[n] = pc[n]
        BY <3>3 DEF Thread, gpio_fd_open, Interference, Capture, EndLearn
      <4> QED
        BY <3>0, <4>1
    <3>4. ASSUME Thread(n) PROVE LearnAhead(n)' = LearnAhead(n)
      <4>1. pc[n] \in {"poll", "callback"} /\ pc'[n] \in {"poll", "callback", "done"}
        BY <1>5, <3>4 DEF Thread, Interference, Capture, EndLearn
      <4> QED
        BY <4>1 DEF LearnAhead
    <3> QED
      BY <3>1, <3>2, <3>3, <3>4
         DEF Next, start_learn_IR, OpenFile, WriteFile, Others, vars
  <2> QED
    BY <2>1, <2>2
<1> QED
  BY <1>2, <1>3, <1>4, <1>5

(* IRReader.cpp:40-52, 162-174, the safety half of LearnPolls: main's and  *)
(* the learner's own steps count down to its poll, and nobody counts up.   *)
THEOREM LearnsAdvance == Spec => LearnAdvances /\ [](\A n \in Learners : LearnAhead(n) \in Nat)
<1>1. GpioInv => \A n \in Learners : LearnAhead(n) \in Nat
  BY AheadOfMain DEF LearnAhead
<1>2. ASSUME GpioInv, NoneForgotten, [Next]_vars
      PROVE  \A n \in Learners : started >= n =>
               IF \/ gpio_fd_open(n)
                  \/ pc[n] = "none" /\ (OpenFile \/ WriteFile \/ CreateThread)
               THEN LearnAhead(n)' < LearnAhead(n)
               ELSE LearnAhead(n)' = LearnAhead(n)
  BY <1>2, LearnStep
<1> QED
  BY <1>1, <1>2, NoneLeft, GpioInit, GpioNext, PTL DEF Spec, LearnAdvances
=============================================================================
