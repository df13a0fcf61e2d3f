---------------------------- MODULE LinkerProofs ----------------------------
(***************************************************************************)
(* Theorems about Linker for every pipe, buffer, message size and number   *)
(* of request and learner threads.                                         *)
(***************************************************************************)
EXTENDS Linker, SequenceTheorems, TLAPS

USE DEF Threads, lockVars, startVars, writeVars, turnVars

(* mpipe.c:22, pylinker.cpp:120-135.  Through the pipe and into the buffer *)
(* bytes keep their order, none is lost, none comes twice, and no message  *)
(* is torn apart by another handler's.                                     *)
StreamIntact ==
    LET stream == (IF at["main"] = "read" THEN buffer ELSE <<>>) \o pipe
    IN  \A i \in 1..(Len(stream) - 1) : Pipe!Follows(stream[i], stream[i + 1])

(* The thread inside the interpreter is the lock's holder, and requests    *)
(* are served only once the web server has its descriptor.                 *)
LockInv ==
    /\ DOMAIN at = Threads
    /\ \A t \in Threads : at[t] \in Places(t)
    /\ gil \in Threads \cup {"none"} /\ current \in Threads \cup {"none"}
    /\ \A t \in Threads : Inside(t) <=> gil = t
    /\ tfd # "unset" => at["web"] \in {"in", "out", "dropped"}
    /\ \A h \in Handlers : at[h] # "dropped" => tfd # "unset"

LEMMA PlacesOf ==
  /\ Places("main") = {"pipe", "request", "queue", "in", "out", "dropped", "sleep", "read"}
  /\ Places("web") = {"request", "queue", "in", "out", "dropped"}
  /\ \A h \in Handlers : Places(h) = {"in", "out", "dropped", "write", "read"}
  /\ \A l \in Learners :
       Places(l) = {"none", "poll", "request", "queue", "in", "out", "dropped", "done"}
<1>1. ASSUME NEW h \in Handlers PROVE Places(h) = {"in", "out", "dropped", "write", "read"}
  <2>1. h # "main" /\ h # "web" /\ h \notin Learners
    BY ThreadAssumption
  <2> QED
    BY <2>1 DEF Places
<1>2. ASSUME NEW l \in Learners
      PROVE  Places(l) = {"none", "poll", "request", "queue", "in", "out", "dropped", "done"}
  <2>1. l # "main" /\ l # "web" /\ l \notin Handlers
    BY ThreadAssumption
  <2> QED
    BY <2>1 DEF Places
<1> QED
  BY <1>1, <1>2, ThreadAssumption DEF Places

LEMMA LockInit == Init => LockInv
<1> SUFFICES ASSUME Init PROVE LockInv
  OBVIOUS
<1>1. \A t \in Threads : t # "none" /\ (t \in Learners => t \notin Handlers)
  BY ThreadAssumption
<1>2. /\ at["main"] = "pipe" /\ at["web"] = "request"
      /\ \A h \in Handlers : at[h] = "dropped"
      /\ \A l \in Learners : at[l] = "none"
  <2>1. /\ \A h \in Handlers : h # "main" /\ h # "web"
        /\ \A l \in Learners : l # "main" /\ l # "web" /\ l \notin Handlers
    BY ThreadAssumption
  <2> QED
    BY <2>1 DEF Init
<1>3. \A t \in Threads : at[t] \in Places(t)
  BY <1>2, PlacesOf
<1>4. \A t \in Threads : ~Inside(t)
  BY <1>2, ThreadAssumption DEF Inside
<1> QED
  BY <1>1, <1>2, <1>3, <1>4 DEF Init, LockInv

(* One thread moves and takes, keeps or releases the lock accordingly. *)
LEMMA LockMove ==
  ASSUME LockInv, NEW t \in Threads, NEW place \in Places(t), Goes(t, place),
         gil' \in Threads \cup {"none"}, current' \in Threads \cup {"none"},
         \/ gil' = gil /\ Inside(t)
              /\ (place = "in" \/ (t \in Handlers /\ place \in {"write", "read"}))
         \/ gil' = gil /\ ~Inside(t) /\ place # "in" /\ t \notin Handlers
         \/ gil = "none" /\ gil' = t /\ place = "in"
         \/ gil = t /\ gil' = "none" /\ place \notin {"in", "write", "read"}
         \/ gil = "main" /\ t = "main" /\ gil' = "none" /\ place = "sleep",
         UNCHANGED tfd, t \in Handlers => tfd # "unset",
         t = "web" /\ tfd # "unset" => place \in {"in", "out", "dropped"}
  PROVE  LockInv'
<1>1. DOMAIN at' = Threads /\ at'[t] = place /\ \A u \in Threads \ {t} : at'[u] = at[u]
  BY DEF Goes, LockInv
<1>2. \A u \in Threads : at'[u] \in Places(u)'
  BY <1>1 DEF LockInv, Places
<1>3. \A u \in Threads : Inside(u)' <=> gil' = u
  <2>1. \A u \in Threads \ {t} : Inside(u)' <=> Inside(u)
    BY <1>1 DEF Inside
  <2>2. Inside(t)' <=> (place = "in" \/ (t \in Handlers /\ place \in {"write", "read"}))
    BY <1>1 DEF Inside
  <2>3. \A u \in Threads : u # "none"
    BY ThreadAssumption
  <2> QED
    BY <2>1, <2>2, <2>3, ThreadAssumption DEF LockInv, Inside
<1> QED
  BY <1>1, <1>2, <1>3, ThreadAssumption DEF LockInv

LEMMA LockNext == LockInv /\ [Next]_vars => LockInv'
<1> SUFFICES ASSUME LockInv, [Next]_vars PROVE LockInv'
  OBVIOUS
<1>0. /\ \A t \in Threads : t # "none" /\ (t \in {"main", "web"} \cup Learners => t \notin Handlers)
      /\ \A t \in Threads : StateOf(t) \in Threads
  BY ThreadAssumption DEF StateOf
<1>s. ASSUME UNCHANGED <<lockVars, tfd>> PROVE LockInv'
  BY <1>s DEF LockInv, Inside, Places
<1>1. ASSUME NEW t \in {"main", "web"} \cup Learners, RequestLock(t) PROVE LockInv'
  <2>1. CASE current = "none"
    BY <1>1, <2>1, <1>s DEF RequestLock, Dies
  <2>2. CASE current # "none"
    <3>1. Goes(t, "queue") /\ gil' = gil /\ current' = current /\ tfd' = tfd /\ at[t] = "request"
      BY <1>1, <2>2 DEF RequestLock
    <3>2. "queue" \in Places(t)
      BY PlacesOf
    <3>3. ~Inside(t)
      BY <3>1, <1>0 DEF Inside
    <3>4. t = "web" => tfd = "unset"
      BY <3>1 DEF LockInv
    <3> QED
      BY <3>1, <3>2, <3>3, <3>4, <1>0, LockMove DEF LockInv
  <2> QED
    BY <2>1, <2>2
<1>2. ASSUME NEW t \in Threads, Takes(t), UNCHANGED tfd, t \in Handlers => tfd # "unset"
      PROVE  LockInv'
  <2>1. "in" \in Places(t)
    BY PlacesOf
  <2> QED
    BY <1>2, <2>1, <1>0, LockMove DEF Takes, LockInv
<1>3. ASSUME NEW t \in Threads, at[t] = "in", NEW place \in {"out", "dropped", "done"},
             place \in Places(t), Releases(t, place), UNCHANGED tfd, t \in Handlers => tfd # "unset",
             t = "web" => place # "done"
      PROVE  LockInv'
  <2>1. gil = t
    BY <1>3 DEF LockInv, Inside
  <2> QED
    BY <1>3, <2>1, LockMove DEF Releases, LockInv
<1>4. CASE MakePipe \/ NoSerial \/ Wake \/ ReadByte \/ ReadFails
  <2>1. PICK place \in {"request", "read", "sleep"} :
          Goes("main", place) /\ gil' = gil /\ current' = current /\ tfd' = tfd
    BY <1>4 DEF MakePipe, NoSerial, Wake, ReadByte, MainReads, AfterRead, ReadFails
  <2>2. at["main"] # "in"
    BY <1>4 DEF MakePipe, NoSerial, Wake, ReadByte, ReadFails
  <2>3. place \in Places("main") /\ ~Inside("main")
    BY <2>2, PlacesOf, ThreadAssumption DEF Inside
  <2> QED
    BY <2>1, <2>3, <1>0, LockMove DEF LockInv
<1>5. CASE Constructed
  <2>1. gil = "main"
    BY <1>5 DEF Constructed, LockInv, Inside
  <2>2. "sleep" \in Places("main")
    BY PlacesOf
  <2> QED
    BY <1>5, <2>1, <2>2, LockMove, ThreadAssumption DEF Constructed, LockInv
<1>6. CASE EndTurn
  <2>1. gil = "main" /\ gil' = "none" /\ current' = "none" /\ tfd' = tfd
    BY <1>6 DEF EndTurn, TurnEnds, LockInv, Inside
  <2>2. CASE Goes("main", "sleep")
    <3>1. "sleep" \in Places("main")
      BY PlacesOf
    <3> QED
      BY <2>1, <2>2, <3>1, LockMove, ThreadAssumption DEF LockInv
  <2>3. ASSUME NEW l \in Learners, at[l] = "none", at' = [at EXCEPT !["main"] = "sleep", ![l] = "poll"]
        PROVE  LockInv'
    <3>1. /\ DOMAIN at' = Threads /\ at'["main"] = "sleep" /\ at'[l] = "poll"
          /\ \A u \in Threads \ {"main", l} : at'[u] = at[u]
      BY <2>3, ThreadAssumption DEF LockInv
    <3>2. \A u \in Threads : at'[u] \in Places(u)'
      <4>1. \A u \in Threads : Places(u)' = Places(u)
        BY DEF Places
      <4> QED
        BY <3>1, <4>1, PlacesOf DEF LockInv
    <3>3. \A u \in Threads : ~Inside(u)'
      <4>1. \A u \in Threads \ {"main", l} : Inside(u)' <=> Inside(u)
        BY <3>1 DEF Inside
      <4> QED
        BY <2>1, <3>1, <4>1, ThreadAssumption DEF LockInv, Inside
    <3> QED
      BY <2>1, <3>1, <3>2, <3>3, <1>0, ThreadAssumption DEF LockInv
  <2> QED
    BY <1>6, <2>2, <2>3 DEF EndTurn, TurnEnds
<1>7. ASSUME NEW l \in Learners, CaptureDone(l) PROVE LockInv'
  <2>1. "request" \in Places(l) /\ ~Inside(l)
    BY <1>7, <1>0, PlacesOf DEF CaptureDone, Inside
  <2> QED
    BY <1>7, <2>1, <1>0, LockMove, ThreadAssumption DEF CaptureDone, LockInv
<1>8. CASE StartWeb
  <2>1. at["web"] = "in" /\ UNCHANGED lockVars
    BY <1>8 DEF StartWeb
  <2> QED
    BY <1>8, <2>1, ThreadAssumption DEF StartWeb, LockInv, Inside, Places
<1>9. ASSUME NEW h \in Handlers,
             WritePipe(h) \/ ReadPipe(h) \/ EndWrite(h) \/ EndForeignWrite(h) \/ EndReadPipe(h)
      PROVE  LockInv'
  <2>1. PICK place \in {"write", "read", "in"} :
          Goes(h, place) /\ gil' = gil /\ current' = current /\ tfd' = tfd
    BY <1>9 DEF WritePipe, ReadPipe, EndWrite, EndForeignWrite, EndReadPipe
  <2>2. at[h] \in {"in", "write", "read"}
    BY <1>9 DEF WritePipe, ReadPipe, EndWrite, EndForeignWrite, EndReadPipe
  <2>3. place \in Places(h) /\ tfd # "unset"
    BY <2>2, PlacesOf DEF LockInv
  <2>4. h \in Threads /\ h # "web" /\ gil' \in Threads \cup {"none"}
        /\ current' \in Threads \cup {"none"}
    BY <2>1, ThreadAssumption DEF LockInv
  <2>5. /\ Inside(h)
        /\ (place = "in" \/ (h \in Handlers /\ place \in {"write", "read"}))
    BY <2>1, <2>2 DEF Inside
  <2> QED
    BY <2>1, <2>3, <2>4, <2>5, LockMove
<1>10. ASSUME NEW t \in Threads, Leave(t) PROVE LockInv'
  <2>1. "out" \in Places(t) /\ "dropped" \in Places(t)
    BY PlacesOf
  <2>2. at[t] = "in" /\ tfd' = tfd /\ (t \in Handlers => tfd # "unset")
    BY <1>10 DEF Leave, LockInv
  <2>3. PICK place \in {"out", "dropped"} : Releases(t, place)
    BY <1>10 DEF Leave
  <2> QED
    BY <2>1, <2>2, <2>3, <1>3
<1>11. ASSUME NEW t \in Threads, Enter(t) \/ Resume(t) PROVE LockInv'
  <2>1. CASE Enter(t)
    <3>1. t \in Handlers => tfd # "unset"
      BY <2>1 DEF Enter, LockInv
    <3> QED
      BY <2>1, <3>1, <1>2 DEF Enter
  <2>2. CASE Resume(t) /\ current = "none"
    BY <2>2, <1>2 DEF Resume
  <2>3. CASE Resume(t) /\ current # "none"
    BY <2>3, <1>s DEF Resume, Dies
  <2> QED
    BY <1>11, <2>1, <2>2, <2>3
<1>12. ASSUME NEW t \in {"main", "web"} \cup Learners, TakeLock(t) PROVE LockInv'
  BY <1>12, <1>0, <1>2 DEF TakeLock
<1>13. ASSUME NEW l \in Learners, EndDetail(l) PROVE LockInv'
  <2>1. "done" \in Places(l) /\ l # "web" /\ l \notin Handlers
    BY PlacesOf, ThreadAssumption
  <2> QED
    BY <1>13, <2>1, <1>3 DEF EndDetail
<1>14. CASE \/ ConstructorFault \/ TurnFault \/ WebFault
            \/ (\E h \in Handlers : WriteSome(h)) \/ UNCHANGED vars
  BY <1>14, <1>s DEF ConstructorFault, TurnFault, WebFault, Dies, WriteSome, vars
<1> QED
  BY <1>1, <1>4, <1>5, <1>6, <1>7, <1>8, <1>9, <1>10, <1>11, <1>12, <1>13, <1>14
     DEF Next, MainStep, WriteStep, Ended, Stopped
-----------------------------------------------------------------------------
(* Until IRProtocol is there nothing is handled, except that a loop without *)
(* it drops what it reads; and what pylinker's constructor left current is  *)
(* current until the web thread first has the lock.                         *)
FirstInv ==
    /\ tfd = "unset" => pipe = <<>>
    /\ ~made /\ at["main"] \notin {"sleep", "read"} => handled = <<>>
    /\ ~made /\ gil = "none" /\ current = "main" =>
         tfd = "unset" /\ \A t \in Threads \ Handlers : at[t] # "dropped"

LEMMA FirstNext == LockInv /\ FirstInv /\ [Next]_vars => FirstInv'
<1> SUFFICES ASSUME LockInv, FirstInv, [Next]_vars PROVE FirstInv'
  OBVIOUS
<1> USE DEF FirstInv
<1>0. /\ DOMAIN at = Threads /\ "main" \in Threads /\ "main" \notin Handlers
      /\ \A t \in Threads : t # "none" /\ StateOf(t) # "none"
  BY ThreadAssumption DEF LockInv, StateOf
<1>s. ASSUME UNCHANGED <<gil, current, made, tfd, pipe, handled>>,
             \A t \in Threads \ Handlers : at'[t] = "dropped" => at[t] = "dropped",
             made \/ at["main"] \notin {"sleep", "read"} \/ at'["main"] \in {"sleep", "read"}
      PROVE  FirstInv'
  BY <1>s
<1>m. ASSUME NEW t \in Threads, NEW place, Goes(t, place), place # "dropped",
             t = "main" => made \/ at[t] \notin {"sleep", "read"} \/ place \in {"sleep", "read"},
             UNCHANGED <<gil, current, made, tfd, pipe, handled>>
      PROVE  FirstInv'
  <2>1. at'[t] = place /\ \A u \in Threads \ {t} : at'[u] = at[u]
    BY <1>0, <1>m DEF Goes
  <2> QED
    BY <1>0, <1>s, <1>m, <2>1
<1>d. ASSUME Dies, UNCHANGED <<startVars, pipe, handled>> PROVE FirstInv'
  BY <1>s, <1>d DEF Dies
<1>1. ASSUME NEW t \in Threads, Takes(t), at[t] \notin {"sleep", "read"} \/ t # "main",
             UNCHANGED <<made, tfd, pipe, handled>>
      PROVE  FirstInv'
  <2>1. gil' # "none" /\ (at["main"] \in {"sleep", "read"} => at'["main"] = at["main"])
    BY <1>0, <1>1 DEF Takes, Goes
  <2> QED
    BY <1>1, <2>1
<1>2. ASSUME NEW t \in Threads, at[t] = "in", NEW place, Releases(t, place),
             UNCHANGED <<made, tfd, pipe, handled>>
      PROVE  FirstInv'
  <2>1. current' = "none" /\ (at["main"] \in {"sleep", "read"} => at'["main"] = at["main"])
    BY <1>0, <1>2 DEF Releases, Goes
  <2> QED
    BY <1>2, <2>1
<1>3. ASSUME NEW t \in {"main", "web"} \cup Learners, RequestLock(t) PROVE FirstInv'
  BY <1>3, <1>d, <1>m DEF RequestLock
<1>4. ASSUME NEW t \in {"main", "web"} \cup Learners, TakeLock(t) PROVE FirstInv'
  BY <1>4, <1>1 DEF TakeLock
<1>5. CASE MakePipe \/ NoSerial \/ Wake \/ ReadFails
  <2>1. PICK place \in {"request", "read", "sleep"} :
          /\ Goes("main", place) /\ UNCHANGED <<gil, current, made, tfd, pipe, handled>>
          /\ made \/ at["main"] \notin {"sleep", "read"} \/ place \in {"sleep", "read"}
    BY <1>5 DEF MakePipe, NoSerial, Wake, AfterRead, ReadFails
  <2> QED
    BY <1>0, <1>m, <2>1
<1>6. CASE ReadByte
  <2>1. /\ tfd # "unset" /\ UNCHANGED <<gil, current, made, tfd>>
        /\ ~made => at'["main"] \in {"sleep", "read"}
        /\ \A u \in Threads \ {"main"} : at'[u] = at[u]
    BY <1>0, <1>6 DEF ReadByte, MainReads, AfterRead, Goes
  <2> QED
    BY <2>1
<1>7. CASE Constructed \/ EndTurn
  BY <1>7 DEF Constructed, EndTurn, TurnEnds
<1>8. CASE StartWeb
  <2>1. gil = "web" /\ at' = at /\ UNCHANGED <<gil, made, pipe, handled>> /\ tfd' # "unset"
    BY <1>8 DEF StartWeb, LockInv, Inside
  <2> QED
    BY <2>1
<1>9. CASE ConstructorFault \/ TurnFault \/ WebFault
  BY <1>9, <1>d DEF ConstructorFault, TurnFault, WebFault
<1>10. ASSUME NEW t \in Threads, Leave(t) \/ Enter(t) \/ Resume(t) PROVE FirstInv'
  <2>1. CASE Leave(t)
    BY <2>1, <1>2 DEF Leave
  <2>2. CASE Enter(t)
    BY <2>2, <1>1 DEF Enter
  <2>3. CASE Resume(t)
    BY <2>3, <1>1, <1>d DEF Resume
  <2> QED
    BY <1>10, <2>1, <2>2, <2>3
<1>11. ASSUME NEW l \in Learners, CaptureDone(l) \/ EndDetail(l) PROVE FirstInv'
  <2>1. l \in Threads /\ l # "main"
    BY ThreadAssumption
  <2> QED
    BY <1>11, <1>m, <1>2, <2>1 DEF CaptureDone, EndDetail
<1>12. ASSUME NEW h \in Handlers,
              \/ WritePipe(h) \/ EndWrite(h) \/ EndForeignWrite(h)
              \/ ReadPipe(h) \/ EndReadPipe(h)
       PROVE  FirstInv'
  <2>1. PICK place \in {"in", "write", "read"} :
          Goes(h, place) /\ UNCHANGED <<gil, current, made, tfd, pipe, handled>>
    BY <1>12 DEF WritePipe, EndWrite, EndForeignWrite, ReadPipe, EndReadPipe
  <2> QED
    BY <1>0, <1>m, <2>1
<1>13. ASSUME NEW h \in Handlers, WriteSome(h) PROVE FirstInv'
  BY <1>13 DEF WriteSome
<1>14. CASE UNCHANGED vars
  BY <1>14, <1>s DEF vars
<1> QED
  BY <1>3, <1>4, <1>5, <1>6, <1>7, <1>8, <1>9, <1>10, <1>11, <1>12, <1>13, <1>14
     DEF Next, MainStep, WriteStep, Ended, Stopped

SwapInv == LockInv /\ FirstInv /\ SwapsMatch

LEMMA SwapNext == SwapInv /\ [Next]_vars => SwapInv'
<1> SUFFICES ASSUME SwapInv, [Next]_vars PROVE SwapInv'
  OBVIOUS
<1>0. LockInv' /\ FirstInv'
  BY LockNext, FirstNext DEF SwapInv
<1> USE DEF SwapInv, SwapsMatch
<1>s. ASSUME UNCHANGED <<gil, current, handled>> PROVE SwapInv'
  BY <1>0, <1>s DEF StateOf
<1>1. ASSUME NEW t \in Threads, Takes(t) PROVE SwapInv'
  <2>1. t # "none" /\ current' = StateOf(t) /\ gil' = t
    BY <1>1, ThreadAssumption DEF Takes
  <2> QED
    BY <1>0, <2>1 DEF StateOf
<1>2. ASSUME gil' = "none", current' = "none" PROVE SwapInv'
  BY <1>0, <1>2
<1>3. CASE \E t \in {"main", "web"} \cup Learners : RequestLock(t)
  BY <1>3, <1>s DEF RequestLock, Dies
<1>4. CASE \E t \in {"main", "web"} \cup Learners : TakeLock(t)
  BY <1>4, <1>1 DEF TakeLock
<1>5. CASE \/ MakePipe \/ NoSerial \/ ConstructorFault \/ Wake \/ ReadFails
           \/ TurnFault \/ StartWeb \/ WebFault
  BY <1>5, <1>s DEF MakePipe, NoSerial, ConstructorFault, Dies, Wake, ReadFails,
                    TurnFault, StartWeb, WebFault
<1>6. CASE Constructed
  <2>1. gil = "main" /\ handled = <<>>
    BY <1>6 DEF Constructed, LockInv, Inside, FirstInv
  <2>2. current = "main"
    BY <2>1, ThreadAssumption DEF StateOf
  <2> QED
    BY <1>0, <1>6, <2>1, <2>2 DEF Constructed
<1>7. CASE EndTurn
  BY <1>7, <1>2 DEF EndTurn, TurnEnds
<1>8. CASE \E t \in Threads : Leave(t) \/ Enter(t) \/ Resume(t)
  <2>1. ASSUME NEW t \in Threads, Leave(t) PROVE SwapInv'
    BY <2>1, <1>2 DEF Leave, Releases
  <2>2. ASSUME NEW t \in Threads, Enter(t) PROVE SwapInv'
    BY <2>2, <1>1 DEF Enter
  <2>3. ASSUME NEW t \in Threads, Resume(t) PROVE SwapInv'
    BY <2>3, <1>1, <1>s DEF Resume, Dies
  <2> QED
    BY <1>8, <2>1, <2>2, <2>3
<1>9. CASE \E l \in Learners : CaptureDone(l) \/ EndDetail(l)
  BY <1>9, <1>s, <1>2 DEF CaptureDone, EndDetail, Releases
<1>10. CASE \E h \in Handlers : \/ WritePipe(h) \/ WriteStep(h) \/ EndForeignWrite(h)
                                \/ ReadPipe(h) \/ EndReadPipe(h)
  BY <1>10, <1>s DEF WritePipe, WriteStep, WriteSome, EndWrite, EndForeignWrite, ReadPipe, EndReadPipe
<1>11. CASE ReadByte
  <2>1. UNCHANGED <<gil, current>> /\ tfd # "unset" /\ (made => UNCHANGED handled)
    BY <1>11 DEF ReadByte, MainReads, FirstInv
  <2> QED
    BY <1>0, <1>s, <2>1 DEF FirstInv, StateOf
<1>12. CASE UNCHANGED vars
  BY <1>12, <1>s DEF vars
<1> QED
  BY <1>3, <1>4, <1>5, <1>6, <1>7, <1>8, <1>9, <1>10, <1>11, <1>12
     DEF Next, MainStep, Ended, Stopped

LEMMA SwapAlways == Spec => []SwapInv
<1>1. Init => SwapInv
  <2> SUFFICES ASSUME Init PROVE SwapInv
    OBVIOUS
  <2>1. \A t \in Threads \ Handlers : at[t] # "dropped"
    BY ThreadAssumption DEF Init
  <2> QED
    BY <2>1, LockInit DEF Init, SwapInv, FirstInv, SwapsMatch
<1> QED
  BY <1>1, SwapNext, PTL DEF Spec

(* The lock's holder has its own state current, and a state is left behind *)
(* by nobody but the constructor.                                          *)
THEOREM SwapsCorrect == Spec => []SwapsMatch
  BY SwapAlways, PTL DEF SwapInv

LEMMA LockStep ==
  ASSUME LockInv, [Next]_vars
  PROVE  [~dead /\ (Lock!Take \/ Lock!Give \/ Lock!Leave \/ Lock!End)]_(Lock!lockState)
<1> DEFINE Kept == [~dead /\ (Lock!Take \/ Lock!Give \/ Lock!Leave \/ Lock!End)]_(Lock!lockState)
<1>0. \A t \in Threads : t # "none" /\ StateOf(t) # "none"
  BY ThreadAssumption DEF StateOf
<1>1. ASSUME ~dead, NEW t \in Threads, Takes(t), UNCHANGED <<made, dead>> PROVE Kept
  <2>1. gil = "none" /\ gil' = t /\ current' = StateOf(t) /\ t # "none" /\ StateOf(t) # "none"
    BY <1>0, <1>1 DEF Takes
  <2>2. Lock!Take
    BY <1>1, <2>1 DEF Lock!Take, StateOf
  <2> QED
    BY <1>1, <2>2
<1>2. ASSUME ~dead, NEW t \in Threads, at[t] = "in", gil' = "none", current' = "none",
             UNCHANGED <<made, dead>>
      PROVE  Kept
  <2>1. gil = t /\ t # "none" /\ StateOf(t) # "none"
    BY <1>0, <1>2 DEF LockInv, Inside
  <2>2. Lock!Give
    BY <1>2, <2>1 DEF Lock!Give
  <2> QED
    BY <1>2, <2>2
<1>3. ASSUME ~dead, Dies, UNCHANGED made PROVE Kept
  <2>1. Lock!End
    BY <1>3 DEF Dies, Lock!End, StateOf
  <2> QED
    BY <1>3, <2>1
<1>4. ASSUME UNCHANGED <<gil, current, made, dead>> PROVE Kept
  BY <1>4 DEF Lock!lockState, StateOf
<1>5. CASE \E t \in {"main", "web"} \cup Learners : RequestLock(t)
  <2>1. ~dead /\ UNCHANGED made /\ (Dies \/ UNCHANGED <<gil, current, dead>>)
    BY <1>5 DEF RequestLock
  <2> QED
    BY <1>3, <1>4, <2>1
<1>6. CASE \E t \in {"main", "web"} \cup Learners : TakeLock(t)
  <2>1. PICK t \in Threads : ~dead /\ Takes(t) /\ UNCHANGED <<made, dead>>
    BY <1>6 DEF TakeLock
  <2> QED
    BY <1>1, <2>1
<1>7. CASE MakePipe \/ NoSerial \/ Wake \/ ReadByte \/ ReadFails \/ StartWeb
  <2>1. UNCHANGED <<gil, current, made, dead>>
    BY <1>7 DEF MakePipe, NoSerial, Wake, ReadByte, MainReads, ReadFails, StartWeb
  <2> QED
    BY <1>4, <2>1
<1>8. CASE Constructed
  <2>1. gil = "main"
    BY <1>8 DEF Constructed, LockInv, Inside
  <2>2. Lock!Leave
    BY <1>0, <1>8, <2>1 DEF Constructed, Lock!Leave
  <2> QED
    BY <1>8, <2>2 DEF Constructed
<1>9. CASE ConstructorFault \/ TurnFault \/ WebFault
  BY <1>3, <1>9 DEF ConstructorFault, TurnFault, WebFault
<1>10. CASE EndTurn
  <2>1. /\ ~dead /\ at["main"] = "in" /\ gil' = "none" /\ current' = "none"
        /\ UNCHANGED <<made, dead>>
    BY <1>10 DEF EndTurn, TurnEnds
  <2> QED
    BY <1>2, <2>1
<1>11. CASE \E t \in Threads : Leave(t) \/ Enter(t) \/ Resume(t)
  <2>1. PICK t \in Threads : Leave(t) \/ Enter(t) \/ Resume(t)
    BY <1>11
  <2>2. CASE Leave(t)
    <3>1. /\ ~dead /\ at[t] = "in" /\ gil' = "none" /\ current' = "none"
          /\ UNCHANGED <<made, dead>>
      BY <2>2 DEF Leave, Releases
    <3> QED
      BY <1>2, <3>1
  <2>3. CASE Enter(t)
    <3>1. ~dead /\ Takes(t) /\ UNCHANGED <<made, dead>>
      BY <2>3 DEF Enter
    <3> QED
      BY <1>1, <3>1
  <2>4. CASE Resume(t)
    <3>1. ~dead /\ UNCHANGED made /\ (Dies \/ (Takes(t) /\ UNCHANGED dead))
      BY <2>4 DEF Resume
    <3> QED
      BY <1>1, <1>3, <3>1
  <2> QED
    BY <2>1, <2>2, <2>3, <2>4
<1>12. ASSUME NEW l \in Learners, CaptureDone(l) \/ EndDetail(l) PROVE Kept
  <2>1. CASE CaptureDone(l)
    BY <1>4, <2>1 DEF CaptureDone
  <2>2. CASE EndDetail(l)
    <3>1. /\ ~dead /\ at[l] = "in" /\ gil' = "none" /\ current' = "none"
          /\ UNCHANGED <<made, dead>>
      BY <2>2 DEF EndDetail, Releases
    <3> QED
      BY <1>2, <3>1
  <2> QED
    BY <1>12, <2>1, <2>2
<1>13. ASSUME NEW h \in Handlers,
              \/ WritePipe(h) \/ WriteStep(h) \/ EndForeignWrite(h)
              \/ ReadPipe(h) \/ EndReadPipe(h)
       PROVE  Kept
  <2>1. UNCHANGED <<gil, current, made, dead>>
    BY <1>13 DEF WritePipe, WriteStep, WriteSome, EndWrite, EndForeignWrite, ReadPipe, EndReadPipe
  <2> QED
    BY <1>4, <2>1
<1>14. CASE UNCHANGED vars
  BY <1>4, <1>14 DEF vars
<1> QED
  BY <1>5, <1>6, <1>7, <1>8, <1>9, <1>10, <1>11, <1>12, <1>13, <1>14
     DEF Next, MainStep, Ended, Stopped

(* All of the program's threads together keep to the lock: taken when free,*)
(* given up by its holder, the state left behind only by the constructor.  *)
THEOREM LockImplemented == Spec => LockKept
<1>1. Init => Lock!Init
  BY DEF Init, Lock!Init
<1> QED
  BY <1>1, LockInit, LockNext, LockStep, PTL DEF Spec, LockKept, Lock!Spec

(* Only AcquireLock, with a current state to see, puts a thread in the     *)
(* queue.                                                                  *)
LEMMA QueueStep ==
  ASSUME LockInv, [Next]_vars, NEW t \in Threads, at[t] = "request", at'[t] = "queue"
  PROVE  current # "none"
<1>1. ASSUME NEW u \in Threads, NEW place, Goes(u, place), place # "queue" PROVE FALSE
  BY <1>1 DEF Goes, LockInv
<1>2. at' # at
  OBVIOUS
<1>3. ASSUME NEW u \in {"main", "web"} \cup Learners, RequestLock(u) PROVE current # "none"
  BY <1>2, <1>3 DEF RequestLock, Dies
<1>4. ~(\/ MakePipe \/ NoSerial \/ Constructed \/ ConstructorFault \/ Wake \/ ReadByte
        \/ ReadFails \/ TurnFault \/ StartWeb \/ WebFault)
  BY <1>1, <1>2 DEF MakePipe, NoSerial, Constructed, ConstructorFault, Dies, Wake, ReadByte,
                    MainReads, AfterRead, ReadFails, TurnFault, StartWeb, WebFault
<1>5. ~EndTurn
  BY <1>1 DEF EndTurn, TurnEnds, Goes, LockInv
<1>6. ASSUME NEW u \in Threads PROVE ~Takes(u) /\ \A place \in {"out", "dropped", "done"} : ~Releases(u, place)
  BY <1>1 DEF Takes, Releases
<1>7. ASSUME NEW u \in Threads PROVE ~TakeLock(u) /\ ~Leave(u) /\ ~Enter(u) /\ ~Resume(u) /\ ~EndDetail(u)
  BY <1>2, <1>6 DEF TakeLock, Leave, Enter, Resume, Dies, EndDetail
<1>8. ASSUME NEW l \in Learners PROVE ~CaptureDone(l)
  BY <1>1 DEF CaptureDone
<1>9. ASSUME NEW h \in Handlers
      PROVE  /\ ~WritePipe(h) /\ ~WriteStep(h) /\ ~EndForeignWrite(h)
             /\ ~ReadPipe(h) /\ ~EndReadPipe(h)
  BY <1>1, <1>2 DEF WritePipe, WriteStep, WriteSome, EndWrite, EndForeignWrite, ReadPipe, EndReadPipe
<1> QED
  BY <1>2, <1>3, <1>4, <1>5, <1>7, <1>8, <1>9 DEF Next, MainStep, Ended, Stopped, vars

(* Asking for the lock, after the first command, takes another thread      *)
(* inside the interpreter.                                                 *)
THEOREM Company == Spec => AsksInCompany
<1>1. ASSUME SwapInv, [Next]_vars
      PROVE  \A t \in {"main", "web"} \cup Learners :
               at[t] = "request" /\ at'[t] = "queue" /\ handled # <<>> => gil # "none"
  BY <1>1, QueueStep DEF SwapInv, SwapsMatch
<1> QED
  BY <1>1, SwapAlways, PTL DEF Spec, AsksInCompany

(* The process ends in a fault of main's turn or of a start-up, or at the   *)
(* lock: asked for with nobody inside, or had back with the constructor's   *)
(* state still current.                                                     *)
THEOREM Deaths == Spec => DeathsExplained
<1> DEFINE Explained ==
      \/ at["main"] = "in"
      \/ at["web"] = "in" /\ tfd = "unset"
      \/ gil = "none" /\ current = "none" /\ \E t \in Threads : at[t] = "request"
      \/ /\ gil = "none" /\ current = "main" /\ made /\ handled = <<>>
         /\ \E t \in Threads : at[t] = "dropped"
<1>1. ASSUME SwapInv, [Next]_vars, ~dead, dead' PROVE Explained
  <2>1. ASSUME NEW t \in {"main", "web"} \cup Learners, RequestLock(t) PROVE Explained
    <3>1. at[t] = "request" /\ current = "none"
      BY <1>1, <2>1 DEF RequestLock
    <3>2. gil = "none"
      <4>1. gil # "none" => StateOf(gil) # "none"
        BY <1>1, ThreadAssumption DEF StateOf, SwapInv, LockInv
      <4> QED
        BY <1>1, <3>1, <4>1 DEF SwapInv, SwapsMatch
    <3> QED
      BY <3>1, <3>2
  <2>2. ASSUME NEW t \in Threads, Resume(t) PROVE Explained
    <3>1. /\ at[t] = "dropped" /\ gil = "none" /\ current # "none"
          /\ t \in Handlers => tfd # "unset"
      BY <1>1, <2>2 DEF Resume
    <3>2. current = "main" /\ handled = <<>>
      BY <1>1, <3>1 DEF SwapInv, SwapsMatch
    <3>3. made
      BY <1>1, <3>1, <3>2 DEF SwapInv, FirstInv
    <3> QED
      BY <3>1, <3>2, <3>3
  <2>3. CASE ConstructorFault \/ TurnFault \/ WebFault
    BY <2>3 DEF ConstructorFault, TurnFault, WebFault
  <2>4. ~(\/ MakePipe \/ NoSerial \/ Constructed \/ Wake \/ ReadByte \/ ReadFails \/ EndTurn
          \/ StartWeb \/ Ended \/ Stopped \/ UNCHANGED vars)
    BY <1>1 DEF MakePipe, NoSerial, Constructed, Wake, ReadByte, MainReads, ReadFails, EndTurn,
                TurnEnds, StartWeb, Ended, Stopped, vars
  <2>5. \A t \in Threads : ~TakeLock(t) /\ ~Leave(t) /\ ~Enter(t) /\ ~CaptureDone(t) /\ ~EndDetail(t)
    BY <1>1 DEF TakeLock, Leave, Enter, CaptureDone, EndDetail
  <2>6. \A h \in Handlers : /\ ~WritePipe(h) /\ ~WriteStep(h) /\ ~EndForeignWrite(h)
                            /\ ~ReadPipe(h) /\ ~EndReadPipe(h)
    BY <1>1 DEF WritePipe, WriteStep, WriteSome, EndWrite, EndForeignWrite, ReadPipe, EndReadPipe
  <2> QED
    BY <1>1, <2>1, <2>2, <2>3, <2>4, <2>5, <2>6 DEF Next, MainStep
<1> QED
  BY <1>1, SwapAlways, PTL DEF Spec, DeathsExplained

(* While one thread is inside the interpreter no other is. *)
LEMMA OnlyHolder ==
  ASSUME LockInv, NEW h \in Handlers, Inside(h)
  PROVE  /\ gil = h /\ gil # "none" /\ gil # "main" /\ tfd # "unset"
         /\ \A t \in Threads : at[t] = "in" => t = h
         /\ \A g \in Handlers : at[g] \in {"write", "read"} => g = h
<1>1. h \in Threads /\ h # "none" /\ h # "main"
  BY ThreadAssumption
<1>2. gil = h
  BY <1>1 DEF LockInv
<1>3. \A t \in Threads : Inside(t) => t = h
  BY <1>2 DEF LockInv
<1> QED
  BY <1>1, <1>2, <1>3 DEF Inside, LockInv

(* A handler in readpipe keeps every other thread out, and main's turns    *)
(* and the other handlers' calls with them.                                *)
THEOREM ReadStops == Spec => ReadStopsOthers
<1>1. ASSUME LockInv, [Next]_vars
      PROVE  \A h \in Handlers :
               at[h] = "read" /\ at'[h] = "read" =>
                 UNCHANGED <<gil, sent>> /\ (made => UNCHANGED turnVars)
  <2> SUFFICES ASSUME NEW h \in Handlers, at[h] = "read", at'[h] = "read"
               PROVE  UNCHANGED <<gil, sent>> /\ (made => UNCHANGED turnVars)
    OBVIOUS
  <2>1. /\ gil = h /\ gil # "none" /\ tfd # "unset"
        /\ \A t \in Threads : at[t] = "in" => t = h
    BY <1>1, OnlyHolder DEF Inside
  <2>2. \A t \in Threads : ~TakeLock(t) /\ ~Leave(t) /\ ~Enter(t) /\ ~Resume(t) /\ ~EndDetail(t)
    BY <2>1 DEF TakeLock, Takes, Leave, Enter, Resume, EndDetail
  <2>3. ~Constructed /\ ~EndTurn /\ ~StartWeb
    BY <2>1, ThreadAssumption DEF Constructed, EndTurn, TurnEnds, StartWeb
  <2>4. \A g \in Handlers : ~WritePipe(g) /\ ~ReadPipe(g)
    BY <2>1 DEF WritePipe, ReadPipe
  <2>5. ASSUME \/ MakePipe \/ NoSerial \/ ConstructorFault \/ Wake \/ ReadByte \/ ReadFails
               \/ TurnFault \/ WebFault
               \/ \E t \in {"main", "web"} \cup Learners : RequestLock(t)
               \/ \E l \in Learners : CaptureDone(l)
               \/ \E g \in Handlers : WriteStep(g) \/ EndForeignWrite(g) \/ EndReadPipe(g)
               \/ UNCHANGED vars
        PROVE  UNCHANGED <<gil, sent>> /\ (made => UNCHANGED turnVars)
    BY <2>5 DEF MakePipe, NoSerial, ConstructorFault, Dies, Wake, ReadByte, MainReads, ReadFails,
                TurnFault, WebFault, RequestLock, CaptureDone, WriteStep, WriteSome, EndWrite,
                EndForeignWrite, EndReadPipe, vars
  <2> QED
    BY <1>1, <2>2, <2>3, <2>4, <2>5 DEF Next, MainStep, Ended, Stopped
<1> QED
  BY <1>1, LockInit, LockNext, PTL DEF Spec, ReadStopsOthers

(* Once main waits for a lock whose holder waits for room in the pipe,     *)
(* neither ever goes on, and nothing but captures ever does.               *)
THEOREM BlockedStays == Spec => BlockedForGood
<1>1. ASSUME SwapInv, [Next]_vars
      PROVE  \A h \in Handlers : Blocked(h) =>
               Blocked(h)' /\ UNCHANGED <<gil, current, writeVars, pipe, buffer, turnVars, dead>>
  <2> SUFFICES ASSUME NEW h \in Handlers, Blocked(h)
               PROVE  Blocked(h)' /\ UNCHANGED <<gil, current, writeVars, pipe, buffer, turnVars, dead>>
    OBVIOUS
  <2>1. /\ gil = h /\ gil # "none" /\ tfd # "unset" /\ current = h
        /\ \A t \in Threads : at[t] = "in" => t = h
        /\ \A g \in Handlers : at[g] \in {"write", "read"} => g = h
        /\ at[h] = "write" /\ h # "main" /\ h # "web"
    BY <1>1, OnlyHolder, ThreadAssumption DEF Blocked, Inside, SwapInv, SwapsMatch, StateOf
  <2>2. \A t \in Threads : ~TakeLock(t) /\ ~Leave(t) /\ ~Enter(t) /\ ~Resume(t) /\ ~EndDetail(t)
    BY <2>1 DEF TakeLock, Takes, Leave, Enter, Resume, EndDetail
  <2>3. ~MainStep /\ ~ReadFails /\ ~StartWeb /\ ~WebFault /\ ~RequestLock("web")
    BY <1>1, <2>1 DEF MainStep, RequestLock, MakePipe, NoSerial, Constructed, ConstructorFault,
                      Wake, ReadByte, ReadFails, EndTurn, TurnEnds, TurnFault, StartWeb, WebFault,
                      Blocked, SwapInv, LockInv
  <2>4. \A g \in Handlers : /\ ~WritePipe(g) /\ ~ReadPipe(g) /\ ~EndReadPipe(g)
                            /\ ~WriteStep(g) /\ ~EndForeignWrite(g)
    <3>1. ~WriteSome(h) /\ ~EndWrite(h) /\ ~EndForeignWrite(h)
      BY DEF WriteSome, EndWrite, EndForeignWrite, Blocked
    <3> QED
      BY <2>1, <3>1 DEF WritePipe, ReadPipe, EndReadPipe, WriteStep, WriteSome, EndWrite,
                        EndForeignWrite
  <2>5. ASSUME NEW l \in Learners, RequestLock(l) \/ CaptureDone(l)
        PROVE  /\ at'["main"] = at["main"] /\ at'[h] = at[h]
               /\ UNCHANGED <<gil, current, startVars, writeVars, pipe, buffer, turnVars, dead>>
    <3>1. current # "none" /\ l # "main" /\ l # h
      BY <2>1, ThreadAssumption
    <3> QED
      BY <1>1, <2>5, <3>1 DEF RequestLock, CaptureDone, Goes, SwapInv, LockInv
  <2>6. ASSUME at'["main"] = at["main"], at'[h] = at[h],
               UNCHANGED <<gil, current, startVars, writeVars, pipe, buffer, turnVars, dead>>
        PROVE  Blocked(h)' /\ UNCHANGED <<gil, current, writeVars, pipe, buffer, turnVars, dead>>
    BY <2>6 DEF Blocked, Room, Portion
  <2>7. CASE UNCHANGED vars
    BY <2>6, <2>7 DEF vars
  <2> QED
    BY <1>1, <2>2, <2>3, <2>4, <2>5, <2>6, <2>7 DEF Next, Ended, Stopped
<1> QED
  BY <1>1, SwapAlways, PTL DEF Spec, BlockedForGood
-----------------------------------------------------------------------------
(* From here on: the bytes.  They follow each other from the byte read     *)
(* last through the pipe to where the writing is.                          *)
Follows(b, c) == Pipe!Follows(b, c)

AnyByte == [no : Int, pos : Int, nul : BOOLEAN]
SentByte == [no : 1..sent, pos : Nat, nul : BOOLEAN]

Intact(s) == \A i \in 1..(Len(s) - 1) : Follows(s[i], s[i + 1])

LastOf(s) == s[Len(s)]

LastHandled == IF handled # <<>> THEN LastOf(LastOf(handled)) ELSE Pipe!Nothing

(* The byte written last, wherever it is by now. *)
LastWritten == IF pipe # <<>> THEN LastOf(pipe) ELSE LastRead

WriteInv ==
    /\ sent \in 0..MaxSent /\ (tfd = "unset" => sent = 0)
    /\ size \in [Handlers -> Nat] /\ done \in [Handlers -> Nat] /\ no \in [Handlers -> Nat]
    /\ \A h \in Handlers : done[h] <= size[h] /\ no[h] <= sent
    /\ \A h \in Handlers : at[h] = "write" =>
         /\ no[h] = sent /\ sent >= 1 /\ size[h] >= 1
         /\ size[h] <= PipeBuf => done[h] = 0 \/ done[h] = size[h]

(* Where main is while the turn's buffer waits to be handled. *)
Asking == {"request", "queue", "in", "out", "dropped"}

StartInv ==
    /\ made \in BOOLEAN /\ dead \in BOOLEAN
    /\ rpy \in {"unset", "open", "failed"} /\ tfd \in {"unset", "pipe", "garbage"}
    /\ tfd # "pipe" => pipe = <<>> /\ buffer = <<>> /\ handled = <<>>
    /\ tfd = "pipe" => rpy = "open"
    /\ at["main"] = "pipe" => rpy = "unset" /\ ~made
    /\ ~made /\ at["main"] \notin {"sleep", "read"} => buffer = <<>> /\ handled = <<>>
    /\ made /\ at["main"] \in Asking /\ buffer = <<>> => rpy = "failed"

(* What m_read_pipe_pre has stored, by where main is. *)
BufferInv ==
    /\ buffer \in Seq(SentByte) /\ Len(buffer) <= BufferSize
    /\ \A i \in 1..(Len(buffer) - 1) : ~buffer[i].nul /\ Follows(buffer[i], buffer[i + 1])
    /\ buffer # <<>> =>
         /\ IF at["main"] = "read" THEN ~LastOf(buffer).nul /\ Len(buffer) < BufferSize
            ELSE LastOf(buffer).nul \/ Len(buffer) = BufferSize
         /\ IF at["main"] = "sleep" THEN handled # <<>> /\ LastOf(handled) = buffer
            ELSE Follows(LastHandled, buffer[1])

TurnsInv == handled \in Seq(Seq(AnyByte)) /\ astray \in BOOLEAN /\ TurnsTile

PipeInv ==
    /\ pipe \in Seq(SentByte) /\ Len(pipe) <= Capacity /\ Intact(pipe)
    /\ pipe # <<>> => Follows(LastRead, pipe[1])

(* b is the NUL of message n ... *)
EndsMessage(b, n) == b.nul /\ b.no = n

(* ... or its p-th byte, which is not the NUL. *)
EndsInside(b, n, p) == ~b.nul /\ b.no = n /\ b.pos = p

EndInv ==
    tfd = "pipe" =>
      /\ (\A h \in Handlers : at[h] # "write") => EndsMessage(LastWritten, sent)
      /\ \A h \in Handlers : at[h] = "write" =>
           CASE done[h] = 0       -> EndsMessage(LastWritten, sent - 1)
             [] done[h] = size[h] -> EndsMessage(LastWritten, sent)
             [] OTHER             -> EndsInside(LastWritten, sent, done[h])

StreamInv ==
    LockInv /\ WriteInv /\ StartInv /\ BufferInv /\ TurnsInv /\ PipeInv /\ EndInv

LEMMA StreamInit == Init => StreamInv
<1> SUFFICES ASSUME Init PROVE StreamInv
  OBVIOUS
<1>1. LockInv
  BY LockInit
<1>2. at["main"] = "pipe" /\ \A h \in Handlers : at[h] # "write"
  BY ThreadAssumption DEF Init
<1>3. WriteInv
  BY <1>2, SizeAssumption DEF Init, WriteInv
<1>6. StartInv
  BY <1>2 DEF Init, StartInv, Asking
<1>4. BufferInv /\ TurnsInv /\ PipeInv
  <2>1. BufferInv /\ PipeInv
    BY EmptySeq, SizeAssumption DEF Init, BufferInv, PipeInv, Intact
  <2>2. handled = <<>> /\ DOMAIN handled = {} /\ astray = FALSE
    BY DEF Init
  <2>3. handled \in Seq(Seq(AnyByte))
    BY <2>2
  <2> QED
    BY <2>1, <2>2, <2>3, Zenon DEF TurnsInv, TurnsTile, Torn
<1>5. EndInv
  BY DEF Init, EndInv
<1> QED
  BY <1>1, <1>3, <1>4, <1>5, <1>6 DEF StreamInv

Delivers == Pipe!Accept \/ Pipe!Deliver \/ UNCHANGED <<sent, LastRead>>

(* A step that only moves threads about. *)
LEMMA StreamQuiet ==
  ASSUME StreamInv, LockInv', UNCHANGED <<startVars, writeVars, pipe, buffer, turnVars>>,
         \A h \in Handlers : at'[h] = "write" <=> at[h] = "write",
         at'["main"] = at["main"] \/ (at["main"] \in Asking /\ at'["main"] \in Asking),
         dead' \in BOOLEAN
  PROVE  StreamInv' /\ Delivers
<1> USE DEF StreamInv
<1>1. WriteInv'
  BY DEF WriteInv
<1>2. StartInv'
  BY DEF StartInv, Asking
<1>3. BufferInv'
  BY DEF BufferInv, Asking, SentByte, LastHandled
<1>4. TurnsInv'
  BY DEF TurnsInv, TurnsTile, Torn
<1>5. LastRead' = LastRead
  BY DEF LastRead
<1>6. PipeInv'
  BY <1>5 DEF PipeInv, SentByte, Intact
<1>7. EndInv'
  BY <1>5 DEF EndInv, LastWritten
<1> QED
  BY <1>1, <1>2, <1>3, <1>4, <1>5, <1>6, <1>7 DEF Delivers

LEMMA StreamMove ==
  ASSUME StreamInv, LockInv', UNCHANGED <<startVars, writeVars, pipe, buffer, turnVars>>,
         NEW t \in Threads, NEW place, Goes(t, place), at[t] # "write", place # "write",
         t = "main" => at[t] \in Asking /\ place \in Asking, dead' \in BOOLEAN
  PROVE  StreamInv' /\ Delivers
<1>1. \A h \in Handlers : at'[h] = "write" <=> at[h] = "write"
  BY DEF Goes, StreamInv, LockInv
<1>2. at'["main"] = at["main"] \/ (at["main"] \in Asking /\ at'["main"] \in Asking)
  BY DEF Goes, StreamInv, LockInv
<1> QED
  BY <1>1, <1>2, StreamQuiet

LEMMA Joined ==
  ASSUME NEW s \in Seq(AnyByte), NEW t \in Seq(AnyByte), Intact(s), Intact(t),
         t # <<>>, s # <<>> => Follows(s[Len(s)], t[1])
  PROVE  /\ s \o t \in Seq(AnyByte) /\ Intact(s \o t)
         /\ s \o t # <<>> /\ (s \o t)[Len(s \o t)] = t[Len(t)]
<1>1. /\ Len(s) \in Nat /\ Len(t) \in Nat /\ Len(t) >= 1
      /\ s \o t \in Seq(AnyByte) /\ Len(s \o t) = Len(s) + Len(t)
      /\ \A i \in 1..(Len(s) + Len(t)) :
           (s \o t)[i] = IF i <= Len(s) THEN s[i] ELSE t[i - Len(s)]
  BY EmptySeq, LenProperties, ConcatProperties
<1>2. ASSUME NEW i \in 1..(Len(s \o t) - 1) PROVE Follows((s \o t)[i], (s \o t)[i + 1])
  <2>1. CASE i < Len(s)
    <3>1. (s \o t)[i] = s[i] /\ (s \o t)[i + 1] = s[i + 1] /\ i \in 1..(Len(s) - 1)
      BY <1>1, <2>1
    <3> QED
      BY <3>1 DEF Intact
  <2>2. CASE i = Len(s)
    <3>1. (s \o t)[i] = s[Len(s)] /\ (s \o t)[i + 1] = t[1] /\ s # <<>>
      BY <1>1, <2>2
    <3> QED
      BY <3>1
  <2>3. CASE i > Len(s)
    <3> DEFINE k == i - Len(s)
    <3>1. (s \o t)[i] = t[k] /\ (s \o t)[i + 1] = t[k + 1] /\ k \in 1..(Len(t) - 1)
      BY <1>1, <2>3
    <3> QED
      BY <3>1 DEF Intact
  <2> QED
    BY <1>1, <2>1, <2>2, <2>3
<1> QED
  BY <1>1, <1>2 DEF Intact

LEMMA Retyped ==
  ASSUME NEW S, NEW T, NEW s \in Seq(S), \A i \in 1..Len(s) : s[i] \in T
  PROVE  s \in Seq(T)
<1>1. s \in [1..Len(s) -> T] /\ Len(s) \in Nat
  BY LenProperties
<1> QED
  BY <1>1, SeqDef

(* The k bytes of message n with z bytes that follow its first d. *)
Stretch(n, d, z, k) == [i \in 1..k |-> [no |-> n, pos |-> d + i, nul |-> d + i = z]]

IsStretch(t, n, d, z, k) ==
    /\ t \in Seq(AnyByte) /\ t # <<>> /\ Len(t) = k /\ Intact(t)
    /\ t[1] = [no |-> n, pos |-> d + 1, nul |-> d + 1 = z]
    /\ t[k] = [no |-> n, pos |-> d + k, nul |-> d + k = z]

LEMMA PortionIntact ==
  ASSUME NEW n \in Int, NEW d \in Nat, NEW z \in Nat, NEW k \in Nat \ {0}, d + k <= z
  PROVE  IsStretch(Stretch(n, d, z, k), n, d, z, k)
<1> DEFINE t == [i \in 1..k |-> [no |-> n, pos |-> d + i, nul |-> d + i = z]]
<1>1. t \in Seq(AnyByte) /\ Len(t) = k
  <2>1. \A i \in 1..k : t[i] \in AnyByte
    BY DEF AnyByte
  <2> QED
    BY <2>1
<1>2. t # <<>>
  BY <1>1
<1>3. ASSUME NEW i \in 1..(k - 1) PROVE Follows(t[i], t[i + 1])
  <2>1. i \in 1..k /\ i + 1 \in 1..k /\ d + i # z /\ d + (i + 1) = (d + i) + 1
    OBVIOUS
  <2>2. /\ t[i] = [no |-> n, pos |-> d + i, nul |-> d + i = z]
        /\ t[i + 1] = [no |-> n, pos |-> d + (i + 1), nul |-> d + (i + 1) = z]
    BY <2>1
  <2> HIDE DEF t
  <2>3. ~t[i].nul /\ t[i + 1].no = t[i].no /\ t[i + 1].pos = t[i].pos + 1
    <3>1. t[i].no = n /\ t[i].pos = d + i /\ t[i + 1].no = n /\ t[i + 1].pos = d + (i + 1)
      BY <2>2
    <3>2. t[i].nul = (d + i = z)
      BY <2>2
    <3>3. ~t[i].nul
      BY <3>2, <2>1
    <3> QED
      BY <3>1, <3>3, <2>1
  <2> QED
    BY <2>3 DEF Follows, Pipe!Follows
<1>4. /\ t[1] = [no |-> n, pos |-> d + 1, nul |-> d + 1 = z]
      /\ t[k] = [no |-> n, pos |-> d + k, nul |-> d + k = z]
  <2>1. 1 \in 1..k /\ k \in 1..k
    OBVIOUS
  <2> QED
    BY <2>1
<1> HIDE DEF t
<1>5. Intact(t)
  BY <1>1, <1>3 DEF Intact
<1>6. Stretch(n, d, z, k) = t
  BY DEF t, Stretch
<1> QED
  BY <1>1, <1>2, <1>4, <1>5, <1>6 DEF IsStretch


LEMMA StreamStart ==
  StreamInv /\ LockInv' /\ (MakePipe \/ NoSerial \/ Constructed \/ ReadFails \/ StartWeb)
    => StreamInv' /\ Delivers
<1> SUFFICES ASSUME StreamInv, LockInv', MakePipe \/ NoSerial \/ Constructed \/ ReadFails \/ StartWeb
             PROVE  StreamInv' /\ Delivers
  OBVIOUS
<1> USE DEF StreamInv
<1>1. /\ buffer = <<>> /\ handled = <<>>
      /\ UNCHANGED <<writeVars, pipe, buffer, turnVars>>
  <2>1. CASE MakePipe
    BY <2>1 DEF MakePipe, StartInv
  <2>2. CASE Constructed
    BY <2>2 DEF Constructed, StartInv
  <2>3. CASE ReadFails
    BY <2>3 DEF ReadFails, StartInv
  <2>4. CASE StartWeb
    BY <2>4 DEF StartWeb, StartInv
  <2>5. CASE NoSerial
    BY <2>5 DEF NoSerial, StartInv
  <2> QED
    BY <2>1, <2>2, <2>3, <2>4, <2>5
<1>2. \A h \in Handlers : at'[h] = at[h]
  BY ThreadAssumption DEF MakePipe, NoSerial, Constructed, ReadFails, StartWeb, Goes, LockInv
<1>3. WriteInv'
  <2>1. tfd' = "unset" => tfd = "unset"
    BY DEF MakePipe, NoSerial, Constructed, ReadFails, StartWeb
  <2> QED
    BY <1>1, <1>2, <2>1 DEF WriteInv
<1>4. StartInv'
  <2>1. CASE MakePipe
    BY <1>1, <2>1 DEF MakePipe, StartInv, Goes, LockInv
  <2>2. CASE Constructed
    BY <1>1, <2>2 DEF Constructed, StartInv, Asking, Goes, LockInv
  <2>3. CASE ReadFails
    BY <1>1, <2>3 DEF ReadFails, AfterRead, StartInv, Goes, LockInv
  <2>4. CASE StartWeb
    BY <1>1, <2>4 DEF StartWeb, StartInv
  <2>5. CASE NoSerial
    BY <1>1, <2>5 DEF NoSerial, StartInv, Goes, LockInv
  <2> QED
    BY <2>1, <2>2, <2>3, <2>4, <2>5
<1>5. BufferInv' /\ TurnsInv'
  <2>1. BufferInv'
    BY <1>1, EmptySeq, SizeAssumption DEF BufferInv
  <2>2. TurnsInv'
    <3>1. rpy = "failed" => rpy' = "failed"
      BY DEF MakePipe, NoSerial, Constructed, ReadFails, StartWeb, StartInv
    <3> QED
      BY <1>1, <3>1 DEF TurnsInv, TurnsTile, Torn
  <2> QED
    BY <2>1, <2>2
<1>6. LastRead' = LastRead
  BY <1>1 DEF LastRead
<1>7. PipeInv'
  BY <1>1, <1>6 DEF PipeInv, SentByte, Intact
<1>8. EndInv'
  <2>1. CASE StartWeb
    <3>1. pipe = <<>> /\ sent = 0 /\ \A h \in Handlers : at[h] # "write"
      BY <2>1 DEF StartWeb, StartInv, WriteInv, LockInv
    <3> QED
      BY <1>1, <1>2, <3>1 DEF EndInv, LastWritten, LastRead, EndsMessage
  <2>2. CASE MakePipe \/ NoSerial \/ Constructed \/ ReadFails
    <3>1. tfd' = tfd /\ LastWritten' = LastWritten
      BY <1>1, <1>6, <2>2 DEF MakePipe, NoSerial, Constructed, ReadFails, LastWritten
    <3> QED
      BY <1>1, <1>2, <3>1 DEF EndInv
  <2> QED
    BY <2>1, <2>2
<1> QED
  BY <1>1, <1>3, <1>4, <1>5, <1>6, <1>7, <1>8 DEF Delivers

LEMMA StreamWake == StreamInv /\ LockInv' /\ Wake => StreamInv' /\ Delivers
<1> SUFFICES ASSUME StreamInv, LockInv', Wake PROVE StreamInv' /\ Delivers
  OBVIOUS
<1> USE DEF StreamInv
<1>1. /\ at["main"] = "sleep" /\ at'["main"] = "read" /\ \A h \in Handlers : at'[h] = at[h]
      /\ buffer' = <<>> /\ UNCHANGED <<startVars, writeVars, pipe, turnVars, dead>>
  BY ThreadAssumption DEF Wake, Goes, LockInv
<1>2. LastRead' = LastRead
  BY <1>1 DEF LastRead, BufferInv, LastOf
<1>3. WriteInv' /\ StartInv'
  BY <1>1 DEF WriteInv, StartInv, Asking
<1>4. BufferInv'
  BY <1>1, EmptySeq, SizeAssumption DEF BufferInv
<1>5. TurnsInv'
  BY <1>1 DEF TurnsInv, TurnsTile, Torn
<1>6. PipeInv' /\ EndInv'
  BY <1>1, <1>2 DEF PipeInv, SentByte, Intact, EndInv, LastWritten
<1> QED
  BY <1>1, <1>2, <1>3, <1>4, <1>5, <1>6 DEF Delivers

(* Main is done with a piece: the turns still tile the stream. *)
LEMMA PieceTiles ==
  ASSUME StreamInv, NEW piece \in Seq(AnyByte), piece # <<>>,
         handled' = Append(handled, piece), rpy' = rpy, made' = made, astray' \in BOOLEAN,
         \A i \in 1..(Len(piece) - 1) : ~piece[i].nul /\ Follows(piece[i], piece[i + 1]),
         LastOf(piece).nul \/ Len(piece) = BufferSize,
         Follows(LastHandled, piece[1]),
         IF made THEN astray' <=> (astray \/ ~LastOf(piece).nul) ELSE astray' = astray
  PROVE  TurnsInv' /\ handled' # <<>> /\ LastOf(handled') = piece
<1> USE DEF StreamInv
<1>4. /\ handled' \in Seq(Seq(AnyByte)) /\ handled' # <<>> /\ Len(handled') = Len(handled) + 1
      /\ \A i \in 1..Len(handled) : handled'[i] = handled[i]
      /\ handled'[Len(handled) + 1] = piece
      /\ DOMAIN handled = 1..Len(handled) /\ DOMAIN handled' = 1..(Len(handled) + 1)
      /\ Len(handled) \in Nat /\ (handled = <<>> <=> Len(handled) = 0)
  BY AppendProperties, LenProperties, EmptySeq DEF TurnsInv
<1>5. ASSUME NEW k \in DOMAIN handled'
      PROVE  /\ \A i \in 1..(Len(handled'[k]) - 1) :
                  ~handled'[k][i].nul /\ Follows(handled'[k][i], handled'[k][i + 1])
             /\ handled'[k][Len(handled'[k])].nul \/ Len(handled'[k]) = BufferSize
             /\ Follows(IF k = 1 THEN Pipe!Nothing
                        ELSE handled'[k - 1][Len(handled'[k - 1])], handled'[k][1])
  <3>1. CASE k <= Len(handled)
    <4>0. k \in 1..Len(handled) /\ (k # 1 => k - 1 \in 1..Len(handled))
      BY <1>4, <3>1
    <4>1. k \in DOMAIN handled /\ handled'[k] = handled[k]
          /\ (k # 1 => handled'[k - 1] = handled[k - 1])
      BY <1>4, <4>0
    <4> QED
      BY <4>1 DEF TurnsInv, TurnsTile, Follows
  <3>2. CASE k = Len(handled) + 1
    <4>1. handled'[k] = piece
      BY <1>4, <3>2
    <4>2. LastHandled = IF k = 1 THEN Pipe!Nothing ELSE handled'[k - 1][Len(handled'[k - 1])]
      <5>1. CASE k = 1
        <6>1. Len(handled) = 0
          BY <1>4, <3>2, <5>1
        <6>2. handled = <<>>
          BY <1>4, <6>1
        <6> QED
          BY <5>1, <6>2, Zenon DEF LastHandled
      <5>2. CASE k # 1
        <6>1. k - 1 = Len(handled) /\ Len(handled) \in 1..Len(handled)
          BY <1>4, <3>2, <5>2
        <6>2. handled # <<>> /\ handled'[k - 1] = handled[Len(handled)]
          BY <1>4, <6>1
        <6>3. LastHandled = handled[Len(handled)][Len(handled[Len(handled)])]
          BY <6>2 DEF LastHandled, LastOf
        <6> QED
          BY <5>2, <6>2, <6>3, Zenon
      <5> QED
        BY <5>1, <5>2
    <4> QED
      BY <4>1, <4>2 DEF LastOf
  <3>3. k \in 1..(Len(handled) + 1) /\ Len(handled) \in Nat
    BY <1>4, <1>5
  <3>4. k <= Len(handled) \/ k = Len(handled) + 1
    BY <3>3
  <3> QED
    BY <3>1, <3>2, <3>4
<1>6. Torn' <=> (Torn \/ ~LastOf(piece).nul)
  <2>1. Torn' <=> \E k \in 1..(Len(handled) + 1) : ~handled'[k][Len(handled'[k])].nul
    BY <1>4 DEF Torn
  <2>2. Torn <=> \E k \in 1..Len(handled) : ~handled'[k][Len(handled'[k])].nul
    BY <1>4 DEF Torn
  <2>3. \A k \in 1..(Len(handled) + 1) : k \in 1..Len(handled) \/ k = Len(handled) + 1
    BY <1>4
  <2>4. 1..Len(handled) \subseteq 1..(Len(handled) + 1) /\ Len(handled) + 1 \in 1..(Len(handled) + 1)
    BY <1>4
  <2> QED
    BY <1>4, <2>1, <2>2, <2>3, <2>4, Zenon DEF LastOf
<1>7. (made /\ Torn => astray)' /\ (astray => Torn \/ rpy = "failed")'
  BY <1>6 DEF TurnsInv, TurnsTile
<1> QED
  BY <1>4, <1>5, <1>7 DEF TurnsInv, TurnsTile, Follows, LastOf

LEMMA StreamTurn == StreamInv /\ LockInv' /\ EndTurn => StreamInv' /\ Delivers
<1> SUFFICES ASSUME StreamInv, LockInv', EndTurn PROVE StreamInv' /\ Delivers
  OBVIOUS
<1> USE DEF StreamInv
<1>1. /\ at["main"] = "in" /\ made /\ UNCHANGED <<startVars, writeVars, pipe, buffer, dead>>
      /\ handled' = IF buffer = <<>> THEN handled ELSE Append(handled, buffer)
      /\ astray' = (astray \/ ~Terminated)
  BY DEF EndTurn, TurnEnds
<1>2. at'["main"] = "sleep" /\ \A h \in Handlers : at'[h] = "write" <=> at[h] = "write"
  <2>1. CASE Goes("main", "sleep")
    BY <2>1, ThreadAssumption DEF Goes, LockInv
  <2>2. ASSUME NEW l \in Learners, at' = [at EXCEPT !["main"] = "sleep", ![l] = "poll"]
        PROVE  at'["main"] = "sleep" /\ \A h \in Handlers : at'[h] = "write" <=> at[h] = "write"
    BY <2>2, ThreadAssumption DEF LockInv
  <2> QED
    BY <2>1, <2>2 DEF EndTurn, TurnEnds
<1>3. buffer \in Seq(AnyByte)
  <2>1. SentByte \subseteq AnyByte
    BY DEF SentByte, AnyByte
  <2> QED
    BY <2>1, SeqMonotonic DEF BufferInv
<1>4. TurnsInv' /\ (buffer # <<>> => handled' # <<>> /\ LastOf(handled') = buffer)
  <2>0. astray \in BOOLEAN /\ astray' \in BOOLEAN
    BY <1>1 DEF TurnsInv
  <2>1. CASE buffer = <<>>
    <3>1. rpy = "failed" /\ rpy' = rpy /\ made' = made /\ handled' = handled /\ astray'
      BY <1>1, <2>1 DEF StartInv, Asking, Terminated
    <3> QED
      BY <2>0, <2>1, <3>1 DEF TurnsInv, TurnsTile, Torn
  <2>2. CASE buffer # <<>>
    <3>1. Terminated <=> LastOf(buffer).nul
      BY <2>2 DEF Terminated, LastOf
    <3>2. /\ handled' = Append(handled, buffer) /\ rpy' = rpy /\ made' = made
          /\ IF made THEN astray' <=> (astray \/ ~LastOf(buffer).nul) ELSE astray' = astray
      BY <1>1, <2>0, <2>2, <3>1
    <3>3. /\ \A i \in 1..(Len(buffer) - 1) : ~buffer[i].nul /\ Follows(buffer[i], buffer[i + 1])
          /\ LastOf(buffer).nul \/ Len(buffer) = BufferSize
          /\ Follows(LastHandled, buffer[1])
      BY <1>1, <2>2 DEF BufferInv
    <3> QED
      BY <1>3, <2>0, <2>2, <3>2, <3>3, PieceTiles
  <2> QED
    BY <2>1, <2>2
<1>5. LastRead' = LastRead
  BY <1>1 DEF LastRead
<1>6. WriteInv' /\ StartInv'
  BY <1>1, <1>2 DEF WriteInv, StartInv, Asking, EndTurn
<1>7. BufferInv'
  <2>1. buffer' \in Seq(SentByte)'
    BY <1>1 DEF BufferInv, SentByte
  <2> QED
    BY <1>1, <1>2, <1>4, <2>1 DEF BufferInv
<1>9. PipeInv' /\ EndInv'
  BY <1>1, <1>2, <1>5 DEF PipeInv, SentByte, Intact, EndInv, LastWritten
<1> QED
  BY <1>1, <1>4, <1>5, <1>6, <1>7, <1>9 DEF Delivers

LEMMA StreamRead == StreamInv /\ LockInv' /\ ReadByte => StreamInv' /\ Delivers
<1> SUFFICES ASSUME StreamInv, LockInv', ReadByte PROVE StreamInv' /\ Delivers
  OBVIOUS
<1> USE DEF StreamInv
<1> DEFINE b == Head(pipe)
<1>1. /\ at["main"] = "read" /\ pipe # <<>> /\ pipe \in Seq(SentByte) /\ buffer \in Seq(SentByte)
      /\ UNCHANGED <<startVars, writeVars, astray, dead>>
      /\ pipe' = Tail(pipe) /\ buffer' = Append(buffer, b)
      /\ at'["main"] = IF ~(b.nul \/ Len(buffer') = BufferSize) THEN "read"
                       ELSE IF made THEN "request" ELSE "sleep"
      /\ handled' = IF at'["main"] = "sleep" THEN Append(handled, buffer') ELSE handled
      /\ at'["main"] = "sleep" => ~made
      /\ \A h \in Handlers : at'[h] = at[h]
  BY ThreadAssumption DEF ReadByte, MainReads, AfterRead, Goes, LockInv, PipeInv, BufferInv, StartInv
<1>2. /\ b \in SentByte /\ b = pipe[1] /\ Len(pipe) \in Nat /\ Len(pipe) >= 1
      /\ Tail(pipe) \in Seq(SentByte) /\ Len(Tail(pipe)) = Len(pipe) - 1
      /\ \A i \in 1..(Len(pipe) - 1) : Tail(pipe)[i] = pipe[i + 1]
      /\ Tail(pipe) # <<>> <=> Len(pipe) > 1
  BY <1>1, HeadTailProperties, LenProperties, EmptySeq
<1> HIDE DEF b
<1>3. /\ buffer' \in Seq(SentByte) /\ buffer' # <<>> /\ Len(buffer') = Len(buffer) + 1
      /\ \A i \in 1..Len(buffer) : buffer'[i] = buffer[i]
      /\ buffer'[Len(buffer')] = b /\ Len(buffer) \in Nat
      /\ (buffer = <<>> <=> Len(buffer) = 0)
  BY <1>1, <1>2, AppendProperties, LenProperties, EmptySeq
<1>4. LastRead' = b /\ Follows(LastRead, b) /\ SentByte' = SentByte
  BY <1>1, <1>2, <1>3 DEF LastRead, PipeInv, SentByte
<1>5. WriteInv' /\ StartInv'
  <2>1. tfd = "pipe"
    BY <1>1 DEF StartInv
  <2>2. ~made => at'["main"] \in {"sleep", "read"}
    BY <1>1
  <2> QED
    BY <1>1, <1>3, <2>1, <2>2 DEF WriteInv, StartInv
<1>6. BufferInv' /\ TurnsInv'
  <2>1. buffer # <<>> => /\ LastRead = LastOf(buffer) /\ ~LastOf(buffer).nul
                         /\ Len(buffer) < BufferSize /\ Follows(LastHandled, buffer[1])
    BY <1>1 DEF BufferInv, LastRead, LastOf
  <2>2. Len(buffer') <= BufferSize
    BY <1>3, <2>1, SizeAssumption
  <2>3. ASSUME NEW i \in 1..(Len(buffer') - 1)
        PROVE  ~buffer'[i].nul /\ Follows(buffer'[i], buffer'[i + 1])
    <3>1. CASE i < Len(buffer)
      <4>1. i \in 1..(Len(buffer) - 1) /\ buffer'[i] = buffer[i] /\ buffer'[i + 1] = buffer[i + 1]
        BY <1>3, <3>1
      <4> QED
        BY <4>1 DEF BufferInv
    <3>2. CASE i = Len(buffer)
      <4>1. buffer # <<>> /\ buffer'[i] = LastOf(buffer) /\ buffer'[i + 1] = b
        BY <1>3, <3>2 DEF LastOf
      <4> QED
        BY <1>4, <2>1, <4>1
    <3> QED
      BY <1>3, <3>1, <3>2
  <2>4. Follows(LastHandled, buffer'[1])
    <3>1. CASE buffer = <<>>
      <4>1. buffer'[1] = b /\ LastRead = LastHandled
        BY <1>3, <3>1 DEF LastRead, LastHandled, LastOf, Pipe!Nothing
      <4> QED
        BY <1>4, <4>1
    <3>2. CASE buffer # <<>>
      <4>1. buffer'[1] = buffer[1]
        BY <1>3, <3>2
      <4> QED
        BY <2>1, <3>2, <4>1
    <3> QED
      BY <3>1, <3>2
  <2>5. LastOf(buffer') = b
    BY <1>3 DEF LastOf
  <2>6. Len(buffer') # BufferSize => Len(buffer') < BufferSize
    BY <1>3, <2>2, SizeAssumption
  <2>7. CASE at'["main"] = "sleep"
    <3>1. buffer' \in Seq(AnyByte)
      <4>1. SentByte \subseteq AnyByte
        BY DEF SentByte, AnyByte
      <4> QED
        BY <1>3, <4>1, SeqMonotonic
    <3>2. /\ handled' = Append(handled, buffer') /\ ~made /\ rpy' = rpy /\ made' = made
          /\ astray' = astray /\ astray' \in BOOLEAN /\ (b.nul \/ Len(buffer') = BufferSize)
      BY <1>1, <2>7 DEF TurnsInv
    <3>3. TurnsInv' /\ handled' # <<>> /\ LastOf(handled') = buffer'
      BY <1>3, <2>3, <2>4, <2>5, <3>1, <3>2, PieceTiles
    <3> QED
      BY <1>3, <1>4, <2>2, <2>3, <2>5, <2>7, <3>2, <3>3 DEF BufferInv
  <2>8. CASE at'["main"] # "sleep"
    <3>1. handled' = handled /\ LastHandled' = LastHandled
      BY <1>1, <2>8 DEF LastHandled
    <3>2. IF at'["main"] = "read" THEN ~b.nul /\ Len(buffer') # BufferSize
          ELSE b.nul \/ Len(buffer') = BufferSize
      BY <1>1, <2>8
    <3>3. BufferInv'
      BY <1>3, <1>4, <2>2, <2>3, <2>4, <2>5, <2>6, <2>8, <3>1, <3>2 DEF BufferInv
    <3>4. TurnsInv'
      BY <1>1, <3>1 DEF TurnsInv, TurnsTile, Torn
    <3> QED
      BY <3>3, <3>4
  <2> QED
    BY <2>7, <2>8
<1>8. PipeInv'
  <2>1. ASSUME NEW i \in 1..(Len(Tail(pipe)) - 1) PROVE Follows(Tail(pipe)[i], Tail(pipe)[i + 1])
    <3>1. /\ Tail(pipe)[i] = pipe[i + 1] /\ Tail(pipe)[i + 1] = pipe[(i + 1) + 1]
          /\ i + 1 \in 1..(Len(pipe) - 1)
      BY <1>2
    <3> QED
      BY <3>1 DEF PipeInv, Intact
  <2>2. Tail(pipe) # <<>> => Follows(b, Tail(pipe)[1])
    <3>1. Len(pipe) > 1 => Tail(pipe)[1] = pipe[1 + 1] /\ Follows(pipe[1], pipe[1 + 1])
      BY <1>2 DEF PipeInv, Intact
    <3> QED
      BY <1>2, <3>1
  <2>3. Len(Tail(pipe)) <= Capacity
    BY <1>2, SizeAssumption DEF PipeInv
  <2> QED
    BY <1>1, <1>2, <1>4, <2>1, <2>2, <2>3 DEF PipeInv, Intact
<1>9. EndInv'
  <2>1. LastWritten' = LastWritten
    <3>1. CASE Len(pipe) = 1
      BY <1>1, <1>2, <1>4, <3>1 DEF LastWritten, LastOf
    <3>2. CASE Len(pipe) > 1
      <4>1. Tail(pipe)[Len(pipe) - 1] = pipe[Len(pipe)]
        BY <1>2, <3>2
      <4> QED
        BY <1>1, <1>2, <3>2, <4>1 DEF LastWritten, LastOf
    <3> QED
      BY <1>2, <3>1, <3>2
  <2> QED
    BY <1>1, <2>1 DEF EndInv
<1>10. Delivers
  BY <1>1, <1>2, <1>4 DEF Delivers, Pipe!Deliver, SentByte, Follows
<1> QED
  BY <1>5, <1>6, <1>8, <1>9, <1>10

LEMMA StreamCall ==
  ASSUME NEW h \in Handlers, StreamInv, LockInv', WritePipe(h)
  PROVE  StreamInv' /\ Delivers
<1> USE DEF StreamInv
<1>1. /\ at[h] = "in" /\ sent < MaxSent /\ sent' = sent + 1 /\ done' = [done EXCEPT ![h] = 0]
      /\ no' = [no EXCEPT ![h] = sent + 1] /\ Goes(h, "write")
      /\ UNCHANGED <<startVars, pipe, buffer, turnVars, dead>>
  BY DEF WritePipe
<1>2. PICK length \in Lengths : size' = [size EXCEPT ![h] = length]
  BY DEF WritePipe
<1>3. length \in Nat /\ length >= 1 /\ sent \in Nat /\ MaxSent \in Nat
  BY SizeAssumption DEF WriteInv
<1>4. /\ \A g \in Handlers : at[g] # "write"
      /\ \A g \in Handlers : at'[g] = "write" <=> g = h
      /\ at'["main"] = at["main"] /\ tfd # "unset"
  <2>1. tfd # "unset" /\ \A g \in Handlers : at[g] # "write"
    BY <1>1, OnlyHolder DEF Inside
  <2> QED
    BY <1>1, <2>1, ThreadAssumption DEF Goes, LockInv
<1>5. WriteInv'
  BY <1>1, <1>2, <1>3, <1>4 DEF WriteInv
<1>6. StartInv' /\ TurnsInv'
  BY <1>1, <1>4 DEF StartInv, TurnsInv, TurnsTile, Torn
<1>7. SentByte \subseteq SentByte'
  BY <1>1, <1>3 DEF SentByte
<1>8. BufferInv'
  <2>1. buffer' \in Seq(SentByte')
    BY <1>1, <1>7, SeqMonotonic DEF BufferInv
  <2>2. LastHandled' = LastHandled
    BY <1>1 DEF LastHandled
  <2> QED
    BY <1>1, <1>4, <2>1, <2>2 DEF BufferInv
<1>9. LastRead' = LastRead
  BY <1>1 DEF LastRead
<1>10. PipeInv'
  <2>1. pipe' \in Seq(SentByte')
    BY <1>1, <1>7, SeqMonotonic DEF PipeInv
  <2> QED
    BY <1>1, <1>9, <2>1 DEF PipeInv, Intact
<1>11. EndInv'
  <2>1. LastWritten' = LastWritten
    BY <1>1, <1>9 DEF LastWritten
  <2>2. done'[h] = 0 /\ sent' - 1 = sent
    BY <1>1, <1>3 DEF WriteInv
  <2>3. tfd = "pipe" => EndsMessage(LastWritten, sent)
    BY <1>4 DEF EndInv
  <2>4. tfd = "pipe" => EndsMessage(LastWritten', sent' - 1)
    BY <2>1, <2>2, <2>3
  <2>5. tfd' = tfd /\ at'[h] = "write"
    BY <1>1, <1>4
  <2>6. \A g \in Handlers : at'[g] = "write" => done'[g] = 0 /\ size'[g] # 0
    BY <1>4, <1>5, <2>2 DEF WriteInv
  <2> QED
    BY <2>4, <2>5, <2>6 DEF EndInv
<1>12. Delivers
  BY <1>1, <1>9 DEF Delivers, Pipe!Accept
<1> QED
  BY <1>5, <1>6, <1>8, <1>10, <1>11, <1>12

LEMMA StreamWrite ==
  ASSUME NEW h \in Handlers, StreamInv, LockInv', WriteSome(h)
  PROVE  StreamInv' /\ Delivers
<1> USE DEF StreamInv
<1> DEFINE k == Portion(h)
           t == Stretch(no[h], done[h], size[h], k)
<1>1. /\ at' = at /\ at[h] = "write" /\ done[h] < size[h] /\ tfd = "pipe"
      /\ UNCHANGED <<startVars, sent, size, no, buffer, turnVars, dead>> /\ Room(h)
      /\ pipe' = pipe \o t /\ done' = [done EXCEPT ![h] = done[h] + k]
  BY DEF WriteSome, Stretch
<1>2. /\ no[h] = sent /\ sent \in Nat /\ sent >= 1 /\ done[h] \in Nat /\ size[h] \in Nat
      /\ k \in Nat \ {0} /\ done[h] + k <= size[h]
      /\ size[h] <= PipeBuf => done[h] = 0 /\ k = size[h]
  BY <1>1, SizeAssumption DEF WriteInv, Portion
<1>3. \A g \in Handlers : g # h => at[g] # "write"
  BY <1>1, OnlyHolder DEF Inside
<1>r. Room(h) => Len(pipe) + k <= Capacity
  BY DEF Room
<1> HIDE DEF k
<1>4. IsStretch(t, no[h], done[h], size[h], k)
  <2>1. /\ no[h] \in Int /\ done[h] \in Nat /\ size[h] \in Nat /\ k \in Nat \ {0}
        /\ done[h] + k <= size[h]
    BY <1>2
  <2> HIDE DEF StreamInv
  <2> QED
    BY <2>1, PortionIntact, Zenon
<1> HIDE DEF t
<1>5. /\ t # <<>> /\ Len(t) = k /\ Intact(t) /\ t \in Seq(AnyByte)
      /\ t[1] = [no |-> sent, pos |-> done[h] + 1, nul |-> done[h] + 1 = size[h]]
      /\ LastOf(t) = [no |-> sent, pos |-> done[h] + k, nul |-> done[h] + k = size[h]]
  BY <1>2, <1>4 DEF IsStretch, LastOf
<1>6. t \in Seq(SentByte)
  <2>1. \A i \in 1..k : [no |-> sent, pos |-> done[h] + i, nul |-> done[h] + i = size[h]] \in SentByte
    BY <1>2 DEF SentByte
  <2>2. \A i \in 1..k : t[i] \in SentByte
    BY <1>2, <2>1 DEF t, Stretch
  <2> QED
    BY <1>5, <2>2, Retyped
<1>7. pipe \in Seq(SentByte) /\ pipe \in Seq(AnyByte) /\ Intact(pipe) /\ Len(pipe) \in Nat
  <2>1. SentByte \subseteq AnyByte
    BY DEF SentByte, AnyByte
  <2> QED
    BY <2>1, SeqMonotonic, LenProperties DEF PipeInv
<1>8. Follows(LastWritten, t[1])
  <2>1. CASE done[h] = 0
    <3>1. EndsMessage(LastWritten, sent - 1)
      BY <1>1, <2>1 DEF EndInv
    <3> QED
      BY <1>2, <1>5, <2>1, <3>1 DEF EndsMessage, Follows, Pipe!Follows
  <2>2. CASE done[h] # 0
    <3>1. EndsInside(LastWritten, sent, done[h])
      BY <1>1, <1>2, <2>2 DEF EndInv
    <3> QED
      BY <1>5, <3>1 DEF EndsInside, Follows, Pipe!Follows
  <2> QED
    BY <2>1, <2>2
<1>9. /\ pipe' \in Seq(SentByte) /\ Intact(pipe') /\ pipe' # <<>> /\ LastOf(pipe') = LastOf(t)
      /\ Len(pipe') = Len(pipe) + k
      /\ pipe'[1] = IF pipe = <<>> THEN t[1] ELSE pipe[1]
  <2>1. pipe # <<>> => Follows(pipe[Len(pipe)], t[1])
    BY <1>8 DEF LastWritten, LastOf
  <2>2. /\ Intact(pipe \o t) /\ pipe \o t # <<>> /\ LastOf(pipe \o t) = LastOf(t)
    BY <1>5, <1>7, <2>1, Joined DEF LastOf
  <2>3. /\ pipe \o t \in Seq(SentByte) /\ Len(pipe \o t) = Len(pipe) + k
        /\ (1 \in 1..(Len(pipe) + Len(t)) =>
             (pipe \o t)[1] = IF 1 <= Len(pipe) THEN pipe[1] ELSE t[1 - Len(pipe)])
    BY <1>5, <1>6, <1>7, ConcatProperties
  <2>4. pipe = <<>> <=> Len(pipe) = 0
    BY <1>7, EmptySeq
  <2> QED
    BY <1>1, <1>2, <1>5, <1>7, <2>2, <2>3, <2>4
<1>10. LastRead' = LastRead /\ SentByte' = SentByte
  BY <1>1 DEF LastRead, SentByte
<1>11. PipeInv'
  <2>1. pipe = <<>> => Follows(LastRead, t[1])
    BY <1>8 DEF LastWritten
  <2>2. Follows(LastRead, pipe'[1])
    BY <1>9, <2>1 DEF PipeInv
  <2> QED
    BY <1>1, <1>9, <1>10, <1>r, <2>2 DEF PipeInv, Intact
<1>12. done' \in [Handlers -> Nat] /\ done'[h] = done[h] + k /\ \A g \in Handlers : g # h => done'[g] = done[g]
  BY <1>1, <1>2 DEF WriteInv
<1>13. WriteInv'
  BY <1>1, <1>2, <1>3, <1>12 DEF WriteInv
<1>14. StartInv' /\ TurnsInv'
  BY <1>1 DEF StartInv, TurnsInv, TurnsTile, Torn
<1>15. BufferInv'
  <2>1. LastHandled' = LastHandled
    BY <1>1 DEF LastHandled
  <2> QED
    BY <1>1, <1>10, <2>1 DEF BufferInv
<1>16. EndInv'
  <2>1. LastWritten' = LastOf(t)
    BY <1>9 DEF LastWritten
  <2>2. /\ LastOf(t).no = sent /\ LastOf(t).pos = done'[h]
        /\ LastOf(t).nul = (done'[h] = size[h])
    BY <1>2, <1>5, <1>12
  <2>3. \A g \in Handlers : at'[g] = "write" <=> g = h
    BY <1>1, <1>3
  <2>4. done'[h] # 0
    BY <1>2, <1>12
  <2>5. done'[h] = size'[h] => EndsMessage(LastWritten', sent')
    BY <1>1, <2>1, <2>2 DEF EndsMessage
  <2>6. done'[h] # size'[h] => EndsInside(LastWritten', sent', done'[h])
    BY <1>1, <2>1, <2>2 DEF EndsInside
  <2> QED
    BY <2>3, <2>4, <2>5, <2>6 DEF EndInv
<1> QED
  BY <1>1, <1>10, <1>11, <1>13, <1>14, <1>15, <1>16 DEF Delivers

LEMMA StreamReturn ==
  ASSUME NEW h \in Handlers, StreamInv, LockInv', EndWrite(h) \/ EndForeignWrite(h)
  PROVE  StreamInv' /\ Delivers
<1> USE DEF StreamInv
<1>1. /\ at[h] = "write" /\ Goes(h, "in") /\ (tfd = "garbage" \/ done[h] = size[h])
      /\ UNCHANGED <<startVars, writeVars, pipe, buffer, turnVars, dead>>
  BY DEF EndWrite, EndForeignWrite
<1>2. at'["main"] = at["main"] /\ \A g \in Handlers : at'[g] # "write"
  <2>1. \A g \in Handlers : at[g] = "write" => g = h
    BY <1>1, OnlyHolder DEF Inside
  <2> QED
    BY <1>1, <2>1, ThreadAssumption DEF Goes, LockInv
<1>3. LastRead' = LastRead /\ LastWritten' = LastWritten /\ LastHandled' = LastHandled
  BY <1>1 DEF LastRead, LastWritten, LastHandled
<1>4. WriteInv' /\ StartInv' /\ TurnsInv'
  BY <1>1, <1>2 DEF WriteInv, StartInv, TurnsInv, TurnsTile, Torn
<1>5. BufferInv' /\ PipeInv'
  BY <1>1, <1>2, <1>3 DEF BufferInv, PipeInv, SentByte, Intact
<1>6. EndInv'
  <2>1. tfd = "pipe" => EndsMessage(LastWritten, sent)
    <3>1. size[h] >= 1 /\ size[h] \in Nat
      BY <1>1 DEF WriteInv
    <3> QED
      BY <1>1, <3>1 DEF EndInv
  <2> QED
    BY <1>1, <1>2, <1>3, <2>1 DEF EndInv
<1> QED
  BY <1>1, <1>3, <1>4, <1>5, <1>6 DEF Delivers

LEMMA StreamNext == StreamInv /\ [Next]_vars => StreamInv' /\ Delivers
<1> SUFFICES ASSUME StreamInv, [Next]_vars PROVE StreamInv' /\ Delivers
  OBVIOUS
<1>0. LockInv' /\ dead \in BOOLEAN
  BY LockNext DEF StreamInv, StartInv
<1>d. ASSUME Dies, UNCHANGED <<startVars, writeVars, pipe, buffer, turnVars>>
      PROVE  StreamInv' /\ Delivers
  BY <1>0, <1>d, StreamQuiet DEF Dies
<1>t. ASSUME NEW t \in Threads, Takes(t), at[t] \in {"queue", "out", "dropped"},
             UNCHANGED <<startVars, writeVars, pipe, buffer, turnVars, dead>>
      PROVE  StreamInv' /\ Delivers
  BY <1>0, <1>t, StreamMove DEF Takes, Asking
<1>1. ASSUME NEW t \in {"main", "web"} \cup Learners, RequestLock(t)
      PROVE  StreamInv' /\ Delivers
  BY <1>0, <1>1, <1>d, StreamMove DEF RequestLock, Asking
<1>2. ASSUME NEW t \in {"main", "web"} \cup Learners, TakeLock(t)
      PROVE  StreamInv' /\ Delivers
  BY <1>2, <1>t DEF TakeLock
<1>3. CASE MakePipe \/ NoSerial \/ Constructed \/ ReadFails \/ StartWeb
  BY <1>0, <1>3, StreamStart
<1>4. CASE ConstructorFault \/ TurnFault \/ WebFault
  BY <1>4, <1>d DEF ConstructorFault, TurnFault, WebFault
<1>5. CASE Wake \/ ReadByte \/ EndTurn
  BY <1>0, <1>5, StreamWake, StreamRead, StreamTurn
<1>6. ASSUME NEW t \in Threads, Leave(t) PROVE StreamInv' /\ Delivers
  <2>1. PICK place \in {"out", "dropped"} : Goes(t, place)
    BY <1>6 DEF Leave, Releases
  <2>2. at[t] = "in" /\ UNCHANGED <<startVars, writeVars, pipe, buffer, turnVars, dead>>
    BY <1>6 DEF Leave
  <2> QED
    BY <1>0, <2>1, <2>2, StreamMove DEF Asking
<1>7. ASSUME NEW t \in Threads, Enter(t) \/ Resume(t) PROVE StreamInv' /\ Delivers
  <2>1. CASE Enter(t)
    BY <2>1, <1>t DEF Enter
  <2>2. CASE Resume(t)
    BY <2>2, <1>t, <1>d DEF Resume
  <2> QED
    BY <1>7, <2>1, <2>2
<1>8. ASSUME NEW l \in Learners, CaptureDone(l) \/ EndDetail(l) PROVE StreamInv' /\ Delivers
  <2>1. PICK place \in {"request", "done"} : Goes(l, place)
    BY <1>8 DEF CaptureDone, EndDetail, Releases
  <2>2. /\ at[l] # "write" /\ l # "main" /\ l \in Threads
        /\ UNCHANGED <<startVars, writeVars, pipe, buffer, turnVars, dead>>
    BY <1>8, ThreadAssumption DEF CaptureDone, EndDetail
  <2> QED
    BY <1>0, <2>1, <2>2, StreamMove
<1>9. ASSUME NEW h \in Handlers, ReadPipe(h) \/ EndReadPipe(h) PROVE StreamInv' /\ Delivers
  <2>1. PICK place \in {"read", "in"} : Goes(h, place)
    BY <1>9 DEF ReadPipe, EndReadPipe
  <2>2. /\ at[h] # "write" /\ h # "main" /\ h \in Threads
        /\ UNCHANGED <<startVars, writeVars, pipe, buffer, turnVars, dead>>
    BY <1>9, ThreadAssumption DEF ReadPipe, EndReadPipe
  <2> QED
    BY <1>0, <2>1, <2>2, StreamMove
<1>10. ASSUME NEW h \in Handlers, WritePipe(h) \/ WriteStep(h) \/ EndForeignWrite(h)
       PROVE  StreamInv' /\ Delivers
  BY <1>0, <1>10, StreamCall, StreamWrite, StreamReturn DEF WriteStep
<1>11. CASE UNCHANGED vars
  BY <1>0, <1>11, StreamQuiet DEF vars
<1> QED
  BY <1>1, <1>2, <1>3, <1>4, <1>5, <1>6, <1>7, <1>8, <1>9, <1>10, <1>11
     DEF Next, MainStep, Ended, Stopped

LEMMA StreamAlways == Spec => []StreamInv
  BY StreamInit, StreamNext, PTL DEF Spec

(* mpipe.c:22 and pylinker.cpp:120-135: whatever the sizes, no byte of the *)
(* stream is lost, doubled or out of place, and messages do not mix; the   *)
(* interpreter lock, held during write, is what the argument rests on.     *)
THEOREM StreamCorrect == Spec => []StreamIntact
<1>1. StreamInv => StreamIntact
  <2> SUFFICES ASSUME StreamInv PROVE StreamIntact
    OBVIOUS
  <2> USE DEF StreamInv
  <2>1. buffer \in Seq(AnyByte) /\ pipe \in Seq(AnyByte) /\ <<>> \in Seq(AnyByte)
    <3>1. SentByte \subseteq AnyByte
      BY DEF SentByte, AnyByte, WriteInv
    <3> QED
      BY <3>1, SeqMonotonic, EmptySeq DEF BufferInv, PipeInv
  <2> DEFINE b == IF at["main"] = "read" THEN buffer ELSE <<>>
  <2>2. b \in Seq(AnyByte) /\ Intact(b) /\ (b # <<>> => LastOf(b) = LastRead)
    BY <2>1 DEF BufferInv, Intact, LastRead, LastOf
  <2> HIDE DEF b
  <2>3. Intact(b \o pipe)
    <3>1. CASE pipe = <<>>
      BY <2>1, <2>2, <3>1, ConcatEmptySeq
    <3>2. CASE pipe # <<>>
      BY <2>1, <2>2, <3>2, Joined DEF PipeInv, LastOf
    <3> QED
      BY <3>1, <3>2
  <2> QED
    BY <2>3 DEF b, Intact, Follows, StreamIntact
<1> QED
  BY <1>1, StreamAlways, PTL

(* pylinker.cpp:120-135: turn after turn takes the stream up where the one *)
(* before left it, a message at a time or BufferSize bytes of a longer one.*)
THEOREM TurnsCorrect == Spec => []TurnsTile
  BY StreamAlways, PTL DEF StreamInv, TurnsInv

(* The components keep their types: no message is numbered beyond the calls*)
(* made, pipe and buffer stay within their limits.                         *)
THEOREM LinkerTypeCorrect == Spec => []TypeOK
<1>1. StreamInv => TypeOK
  <2> SUFFICES ASSUME StreamInv PROVE TypeOK
    OBVIOUS
  <2>1. SentByte \subseteq Bytes
    BY SizeAssumption DEF StreamInv, WriteInv, SentByte, Bytes
  <2>2. pipe \in Seq(Bytes) /\ buffer \in Seq(Bytes)
    BY <2>1, SeqMonotonic DEF StreamInv, PipeInv, BufferInv
  <2>3. \A h \in Handlers : size[h] \in Nat /\ done[h] \in 0..size[h] /\ no[h] \in 0..sent
    BY DEF StreamInv, WriteInv
  <2> QED
    BY <2>2, <2>3 DEF TypeOK, StreamInv, LockInv, WriteInv, StartInv, PipeInv, BufferInv, TurnsInv
<1> QED
  BY <1>1, StreamAlways, PTL

(* The linker implements the message pipe: what main reads is what the     *)
(* calls of writepipe were given, byte by byte, in the calls' order.       *)
THEOREM PipeImplemented == Spec => PipeDelivers
<1>1. Init => Pipe!Init
  BY DEF Init, Pipe!Init, LastRead, Pipe!Nothing
<1>2. StreamInv /\ [Next]_vars => [Pipe!Accept \/ Pipe!Deliver]_Pipe!pipeVars
  BY StreamNext DEF Delivers, Pipe!pipeVars
<1> QED
  BY <1>1, <1>2, StreamAlways, PTL DEF Spec, PipeDelivers, Pipe!Spec
-----------------------------------------------------------------------------
(* A handler inside write has the lock: nobody takes it, gives it up, or   *)
(* sends or handles anything meanwhile.                                    *)
LEMMA WhileWriting ==
  ASSUME StreamInv, [Next]_vars, NEW h \in Handlers, at[h] = "write"
  PROVE  /\ ~Constructed /\ ~ConstructorFault /\ ~EndTurn /\ ~TurnFault /\ at["main"] # "in"
         /\ \/ MainStep \/ ReadFails \/ WriteStep(h) \/ EndForeignWrite(h) \/ UNCHANGED vars
            \/ RequestLock("web") \/ \E l \in Learners : CaptureDone(l) \/ RequestLock(l)
<1>1. /\ gil = h /\ gil # "none" /\ gil # "main" /\ tfd # "unset"
      /\ \A t \in Threads : at[t] = "in" => t = h
      /\ \A g \in Handlers : at[g] \in {"write", "read"} => g = h
  BY OnlyHolder DEF Inside, StreamInv
<1>2. \A t \in Threads : at[t] # "in"
  BY <1>1
<1>3. \A t \in Threads : ~TakeLock(t) /\ ~Leave(t) /\ ~Enter(t) /\ ~Resume(t) /\ ~EndDetail(t)
  BY <1>1, <1>2 DEF TakeLock, Takes, Leave, Enter, Resume, EndDetail
<1>4. /\ ~Constructed /\ ~ConstructorFault /\ ~EndTurn /\ ~TurnFault /\ at["main"] # "in"
      /\ ~StartWeb /\ ~WebFault
  BY <1>2 DEF Constructed, ConstructorFault, EndTurn, TurnEnds, TurnFault, StartWeb, WebFault
<1>5. \A g \in Handlers : /\ ~WritePipe(g) /\ ~ReadPipe(g) /\ ~EndReadPipe(g)
                          /\ WriteStep(g) \/ EndForeignWrite(g) => g = h
  BY <1>1, <1>2 DEF WritePipe, ReadPipe, EndReadPipe, WriteStep, WriteSome, EndWrite, EndForeignWrite
<1> QED
  BY <1>3, <1>4, <1>5 DEF Next, Ended, Stopped

(* mpipe.c:22 with pylinker.cpp:120-135: a writer without room is blocked  *)
(* for good or main, in no need of the lock, is about to make room.        *)
THEOREM OnlyBlocked == Spec => []OnlyBlockedStops
<1>1. ASSUME StreamInv PROVE OnlyBlockedStops
  <2> SUFFICES ASSUME NEW h \in Handlers, at[h] = "write", tfd # "garbage",
                      done[h] # size[h], ~Room(h),
                      at["main"] \notin {"request", "sleep"}, ~Blocked(h)
               PROVE  at["main"] = "read" /\ rpy = "open" /\ pipe # <<>>
    BY DEF OnlyBlockedStops
  <2>1. tfd = "pipe" /\ rpy = "open"
    BY <1>1, OnlyHolder DEF Inside, StreamInv, StartInv
  <2>2. at["main"] \notin {"queue", "out", "dropped"}
    BY <2>1 DEF Blocked
  <2>3. at["main"] # "pipe" /\ at["main"] # "in"
    BY <1>1, <2>1, OnlyHolder, ThreadAssumption DEF Inside, StreamInv, StartInv
  <2>4. at["main"] = "read"
    BY <1>1, <2>2, <2>3, PlacesOf DEF StreamInv, LockInv
  <2>5. pipe # <<>>
    <3>1. Portion(h) \in Nat /\ Portion(h) <= Capacity /\ Capacity \in Nat
      BY <1>1, SizeAssumption DEF Portion, StreamInv, WriteInv
    <3>2. pipe = <<>> => Len(pipe) = 0
      OBVIOUS
    <3> QED
      BY <3>1, <3>2 DEF Room
  <2> QED
    BY <2>1, <2>4, <2>5
<1> QED
  BY <1>1, StreamAlways, PTL

LEMMA AheadType ==
  ASSUME StreamInv, NEW h \in Handlers
  PROVE  MainAhead \in Nat /\ Len(pipe) \in Nat /\ WriteAhead(h) \in Nat \ {0}
<1>1. Len(pipe) \in Nat /\ size[h] \in Nat /\ done[h] \in Nat /\ done[h] <= size[h]
  BY LenProperties DEF StreamInv, PipeInv, WriteInv
<1>2. MainAhead \in Nat
  BY DEF MainAhead
<1> QED
  BY <1>1, <1>2 DEF WriteAhead

(* Main, wherever it is without the lock, is one step nearer to asking for *)
(* it, to an empty pipe, or to the end of the process.                     *)
LEMMA MainAdvances ==
  ASSUME StreamInv, MainStep, ~dead',
         ~Constructed, ~ConstructorFault, ~EndTurn, ~TurnFault
  PROVE  /\ MainAhead \in Nat /\ MainAhead' \in Nat /\ Len(pipe) \in Nat /\ Len(pipe') \in Nat
         /\ 3 * Len(pipe') + MainAhead' < 3 * Len(pipe) + MainAhead
         /\ size' = size /\ done' = done
<1>1. Len(pipe) \in Nat /\ "main" \in DOMAIN at
  BY LenProperties DEF StreamInv, PipeInv, LockInv
<1>2. MainAhead \in Nat /\ MainAhead' \in Nat /\ MainAhead' <= 3
  BY DEF MainAhead
<1>3. CASE RequestLock("main") \/ MakePipe \/ NoSerial \/ Wake
  <2>1. /\ pipe' = pipe /\ size' = size /\ done' = done
        /\ \/ at["main"] = "request" /\ at'["main"] \in {"queue", "sleep"}
           \/ at["main"] = "pipe" /\ at'["main"] = "request"
           \/ at["main"] = "sleep" /\ at'["main"] = "read"
    BY <1>1, <1>3 DEF RequestLock, MakePipe, NoSerial, Wake, Dies, Goes
  <2>2. MainAhead' < MainAhead
    BY <2>1 DEF MainAhead
  <2> QED
    BY <1>1, <1>2, <2>1, <2>2
<1>4. CASE ReadByte
  <2>1. /\ at["main"] = "read" /\ at'["main"] \in {"read", "request", "sleep"}
        /\ size' = size /\ done' = done /\ pipe' = Tail(pipe) /\ pipe # <<>>
    BY <1>1, <1>4 DEF ReadByte, MainReads, AfterRead, Goes
  <2>2. Len(pipe') = Len(pipe) - 1 /\ Len(pipe') \in Nat
    BY <1>1, <2>1, HeadTailProperties, EmptySeq DEF StreamInv, PipeInv
  <2>3. MainAhead = 0 /\ MainAhead' <= 2
    BY <2>1 DEF MainAhead
  <2> QED
    BY <1>1, <1>2, <2>1, <2>2, <2>3
<1> QED
  BY <1>3, <1>4 DEF MainStep

(* The safety half of WriteReturns: the steps a call of writepipe has      *)
(* before it are counted down by its own and by main's, and by those only. *)
THEOREM WritesBounded ==
  Spec => WriteBounded /\ [](\A h \in Handlers : WriteAhead(h) \in Nat)
<1>1. ASSUME StreamInv, StreamInv', [Next]_vars, NEW h \in Handlers,
             at[h] = "write", at'[h] = "write", tfd = "pipe", ~dead'
      PROVE  IF WriteStep(h) \/ MainStep THEN WriteAhead(h)' < WriteAhead(h)
             ELSE WriteAhead(h)' = WriteAhead(h)
  <2>0. /\ size[h] \in Nat /\ done[h] \in Nat /\ size'[h] \in Nat /\ done'[h] \in Nat
        /\ MainAhead \in Nat /\ Len(pipe) \in Nat /\ Len(pipe') \in Nat
    BY <1>1, AheadType, LenProperties DEF StreamInv, WriteInv, PipeInv
  <2>1. CASE WriteStep(h)
    <3>1. WriteSome(h)
      <4>1. "main" # h /\ "in" # "write" /\ h \in DOMAIN at
        BY <1>1, ThreadAssumption DEF StreamInv, LockInv
      <4> QED
        BY <1>1, <2>1, <4>1 DEF WriteStep, EndWrite, Goes
    <3>2. Portion(h) \in Nat \ {0}
      BY <1>1, <2>0 DEF Portion, StreamInv, WriteInv
    <3>3. done'[h] = done[h] + Portion(h) /\ size' = size
      BY <1>1, <3>1 DEF WriteSome, StreamInv, WriteInv
    <3>4. MainAhead' = MainAhead
      BY <3>1 DEF WriteSome, MainAhead
    <3>5. Len(pipe') = Len(pipe) + Portion(h)
      <4> DEFINE t == [i \in 1..Portion(h) |->
                        [no |-> no[h], pos |-> done[h] + i, nul |-> done[h] + i = size[h]]]
      <4>1. pipe' = pipe \o t
        BY <3>1 DEF WriteSome
      <4>2. t \in Seq(AnyByte) /\ Len(t) = Portion(h)
        <5>1. IsStretch(Stretch(no[h], done[h], size[h], Portion(h)), no[h], done[h], size[h], Portion(h))
          <6>1. no[h] \in Int /\ done[h] + Portion(h) <= size[h]
            BY <1>1, <2>0, <3>1 DEF WriteSome, Portion, StreamInv, WriteInv
          <6> QED
            BY <2>0, <3>2, <6>1, PortionIntact, Zenon
        <5> QED
          BY <5>1 DEF IsStretch, Stretch
      <4>3. pipe \in Seq(AnyByte)
        <5>1. SentByte \subseteq AnyByte
          BY DEF SentByte, AnyByte
        <5> QED
          BY <1>1, <5>1, SeqMonotonic DEF StreamInv, PipeInv
      <4> HIDE DEF t
      <4> QED
        BY <4>1, <4>2, <4>3, ConcatProperties
    <3> HIDE DEF Portion
    <3>6. WriteAhead(h)' < WriteAhead(h)
      <4>1. \A z, d, l, m \in Nat, k \in Nat \ {0} :
              4 * (z - (d + k)) + 3 * (l + k) + m + 1 < 4 * (z - d) + 3 * l + m + 1
        OBVIOUS
      <4>2. WriteAhead(h)' = 4 * (size[h] - (done[h] + Portion(h)))
                               + 3 * (Len(pipe) + Portion(h)) + MainAhead + 1
        BY <3>3, <3>4, <3>5 DEF WriteAhead
      <4>3. Portion(h) \in Nat \ {0} /\ size[h] \in Nat /\ done[h] \in Nat
            /\ Len(pipe) \in Nat /\ MainAhead \in Nat
        BY <2>0, <3>2 DEF MainAhead
      <4>4. WriteAhead(h) = 4 * (size[h] - done[h]) + 3 * Len(pipe) + MainAhead + 1
        BY DEF WriteAhead
      <4>5. 4 * (size[h] - (done[h] + Portion(h))) + 3 * (Len(pipe) + Portion(h)) + MainAhead + 1
              < 4 * (size[h] - done[h]) + 3 * Len(pipe) + MainAhead + 1
        BY <4>1, <4>3, Zenon
      <4> QED
        BY <4>2, <4>3, <4>4, <4>5
    <3> QED
      BY <2>1, <3>6
  <2>2. CASE MainStep
    <3>1. /\ MainAhead' \in Nat /\ 3 * Len(pipe') + MainAhead' < 3 * Len(pipe) + MainAhead
          /\ size' = size /\ done' = done
      BY <1>1, <2>2, WhileWriting, MainAdvances
    <3>2. WriteAhead(h)' < WriteAhead(h)
      BY <2>0, <3>1 DEF WriteAhead
    <3> QED
      BY <2>2, <3>2
  <2>3. CASE ~WriteStep(h) /\ ~MainStep
    <3>1. \/ UNCHANGED vars \/ RequestLock("web")
          \/ \E l \in Learners : CaptureDone(l) \/ RequestLock(l)
      <4>1. rpy = "open"
        BY <1>1 DEF StreamInv, StartInv
      <4> QED
        BY <1>1, <2>3, <4>1, WhileWriting DEF ReadFails, EndForeignWrite
    <3>2. at'["main"] = at["main"] /\ UNCHANGED <<size, done, pipe>>
      BY <1>1, <3>1, ThreadAssumption
         DEF vars, RequestLock, CaptureDone, Dies, Goes, StreamInv, LockInv
    <3>3. WriteAhead(h)' = WriteAhead(h)
      BY <3>2 DEF WriteAhead, MainAhead
    <3> QED
      BY <2>3, <3>3
  <2> QED
    BY <2>1, <2>2, <2>3
<1>2. StreamInv => \A h \in Handlers : WriteAhead(h) \in Nat
  BY AheadType
<1>3. ASSUME StreamInv, StreamInv', [Next]_vars
      PROVE  \A h \in Handlers :
               at[h] = "write" /\ at'[h] = "write" /\ tfd = "pipe" /\ ~dead' =>
                 IF WriteStep(h) \/ MainStep THEN WriteAhead(h)' < WriteAhead(h)
                 ELSE WriteAhead(h)' = WriteAhead(h)
  BY <1>1, <1>3
<1> QED
  BY <1>2, <1>3, StreamAlways, PTL DEF Spec, WriteBounded
=============================================================================
