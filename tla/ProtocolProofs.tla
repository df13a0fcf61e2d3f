--------------------------- MODULE ProtocolProofs ---------------------------
(***************************************************************************)
(* Theorems about Protocol for every byte size, every set of commands and  *)
(* answers, and every bound.                                               *)
(***************************************************************************)
EXTENDS Protocol, TransmitProofs

(* Remainders by a fixed positive number, from the definition of %. *)
LEMMA ModUnique ==
    ASSUME NEW a \in Int, NEW m \in Nat \ {0}, NEW q \in Int,
           NEW r \in 0..(m - 1), a = m * q + r
    PROVE  a % m = r
<1>1. a % m \in 0..(m - 1) /\ a \div m \in Int /\ a = m * (a \div m) + (a % m)
  OBVIOUS
<1>2. m * (q - (a \div m)) = (a % m) - r
  BY <1>1
<1> DEFINE d == q - (a \div m)
<1>3. d \in Int /\ m * d < m /\ m * d > -m
  BY <1>1, <1>2
<1> HIDE DEF d
<1>4. d = 0
  BY <1>3
<1> QED
  BY <1>1, <1>2, <1>4 DEF d

LEMMA ModSmall ==
    ASSUME NEW a \in Nat, NEW m \in Nat \ {0}, a < m
    PROVE  a % m = a
<1>1. a = m * 0 + a /\ a \in 0..(m - 1)
  OBVIOUS
<1> QED
  BY <1>1, ModUnique

(* Counting modulo m: one more, or back to 0. *)
LEMMA ModNext ==
    ASSUME NEW a \in Nat, NEW m \in Nat \ {0}
    PROVE  /\ a % m \in 0..(m - 1)
           /\ (a + 1) % m = IF (a % m) + 1 = m THEN 0 ELSE (a % m) + 1
<1> DEFINE q == a \div m
           r == a % m
<1>1. q \in Int /\ r \in 0..(m - 1) /\ a = m * q + r
  OBVIOUS
<1> HIDE DEF q, r
<1>2. CASE r + 1 = m
  <2>1. a + 1 = m * (q + 1) + 0 /\ 0 \in 0..(m - 1) /\ q + 1 \in Int
    BY <1>1, <1>2
  <2>2. (a + 1) % m = 0
    <3> DEFINE b == a + 1
    <3>1. b \in Int /\ b = m * (q + 1) + 0 /\ 0 \in 0..(m - 1) /\ q + 1 \in Int
      BY <2>1
    <3> HIDE DEF b
    <3>2. b % m = 0
      BY <3>1, ModUnique
    <3> QED
      BY <3>2 DEF b
  <2> QED
    BY <1>1, <1>2, <2>2 DEF r
<1>3. CASE r + 1 # m
  <2>1. a + 1 = m * q + (r + 1) /\ r + 1 \in 0..(m - 1)
    BY <1>1, <1>3
  <2>2. (a + 1) % m = r + 1
    BY <1>1, <2>1, ModUnique
  <2> QED
    BY <1>1, <1>3, <2>2 DEF r
<1> QED
  BY <1>2, <1>3

LEMMA Sizes == Base \in Nat /\ Base >= 2 /\ MaxSc \in Nat /\ MaxSc >= 3
<1>1. Base \in Nat /\ Base >= 2
  BY CharAssumption DEF Base, UCHAR_MAX
<1> HIDE DEF Base
<1>2. Base * Base \in Nat /\ Base * Base >= 4
  BY <1>1
<1> QED
  BY <1>1, <1>2 DEF MaxSc

(* protocol.cpp:143-146.  The id put into a chain is the id read from it.  *)
LEMMA ChainCarriesScID ==
    ASSUME NEW ClientID \in Int, NEW scID \in 0..MaxSc,
           NEW S, NEW data \in Seq(S)
    PROVE  ScIDIn(Chain(ClientID, 0, scID, data)) = scID
<1> DEFINE head == <<LowByte(ClientID), LowByte(0), LowByte(scID), scID \div Base>>
           chain == Chain(ClientID, 0, scID, data)
<1>1. chain[3] = LowByte(scID) /\ chain[4] = scID \div Base
  BY DEF Chain
<1>2. LowByte(scID) + Base * (scID \div Base) = scID
  BY Sizes DEF LowByte
<1> QED
  BY <1>1, <1>2 DEF ScIDIn
LEMMA TailElements ==
    ASSUME NEW S, NEW s \in Seq(S), s # <<>>
    PROVE  /\ Len(Tail(s)) = Len(s) - 1 /\ Len(s) \in Nat
           /\ \A i \in DOMAIN Tail(s) : \E d \in DOMAIN s : Tail(s)[i] = s[d]
<1>1. /\ Tail(s) \in Seq(S) /\ Len(Tail(s)) = Len(s) - 1 /\ Len(s) \in Nat
      /\ \A i \in 1..Len(Tail(s)) : Tail(s)[i] = s[i + 1]
  BY HeadTailProperties
<1>2. ASSUME NEW i \in DOMAIN Tail(s)
      PROVE  \E d \in DOMAIN s : Tail(s)[i] = s[d]
  <2>1. i \in 1..Len(Tail(s)) /\ i + 1 \in DOMAIN s
    BY <1>1, <1>2
  <2> QED
    BY <1>1, <2>1
<1> QED
  BY <1>1, <1>2
-----------------------------------------------------------------------------
ProtocolInv == ProtocolTypeOK /\ QueueIsTail /\ TurnInv /\ ScIDCycle

LEMMA InvTransmit == ProtocolInv => TransmitInv
  BY DEF ProtocolInv, ProtocolTypeOK, TransmitInv

LEMMA ProtocolInitKeeps == ProtocolInit => ProtocolInv
<1> SUFFICES ASSUME ProtocolInit PROVE ProtocolInv
  OBVIOUS
<1>1. TransmitInv
  BY InitKeeps DEF ProtocolInit
<1>2. wbuffer = <<>> /\ put = 0 /\ scID_now = 0
  BY DEF ProtocolInit, TransmitInit
<1>3. 0 % MaxSc = 0
  BY Sizes, ModSmall
<1>4. ProtocolTypeOK
  BY <1>1, Sizes DEF ProtocolInit, ProtocolTypeOK, TransmitInv
<1>5. TurnInv
  BY <1>2 DEF ProtocolInit, TransmitInit, TurnInv
<1> QED
  BY <1>1, <1>2, <1>3, <1>4, <1>5 DEF ProtocolInv, TransmitInv, ScIDCycle

(* Main's steps that leave transmit alone, and the web thread's. *)
LEMMA OwnStepKeeps ==
    ASSUME ProtocolInv, UNCHANGED uartVars,
           \/ ReadMessage \/ RequestLock \/ TakeLock \/ Fault \/ RejectClient \/ EndTurn
           \/ WebTakesLock \/ WebYieldsLock \/ OthersEnd \/ UNCHANGED vars
    PROVE  ProtocolInv'
<1>1. TransmitInv'
  BY InvTransmit, StutterKeeps
<1>2. UNCHANGED scID_now
  BY DEF ReadMessage, RequestLock, TakeLock, Fault, RejectClient, EndTurn,
         WebTakesLock, WebYieldsLock, OthersEnd, vars, ownVars
<1>3. ScIDCycle'
  BY <1>2 DEF ProtocolInv, ScIDCycle, uartVars
<1>4. ProtocolTypeOK'
  BY <1>1, <1>2 DEF ProtocolInv, ProtocolTypeOK, TransmitInv, ReadMessage, RequestLock,
     TakeLock, Fault, RejectClient, EndTurn, WebTakesLock, WebYieldsLock, OthersEnd, vars,
     ownVars, pyVars
<1>5. TurnInv'
  BY DEF ProtocolInv, ProtocolTypeOK, TurnInv, uartVars, ReadMessage, RequestLock,
     TakeLock, Fault, RejectClient, EndTurn, WebTakesLock, WebYieldsLock, OthersEnd, vars,
     ownVars, pyVars
<1> QED
  BY <1>1, <1>3, <1>4, <1>5 DEF ProtocolInv, TransmitInv

(* Main's steps that begin do_cycle. *)
LEMMA ReleaseKeeps ==
    ASSUME ProtocolInv, NoCommand \/ OtherCommand \/ Answered
    PROVE  ProtocolInv'
<1>1. ReleaseAndCycle /\ UNCHANGED scID_now /\ action' \in {"a", "b", "c"}
  BY DEF NoCommand, OtherCommand, Answered, ProtocolInv, ProtocolTypeOK
<1>2. TransmitInv'
  BY <1>1, InvTransmit, CycleKeeps DEF ReleaseAndCycle
<1>3. UNCHANGED <<wbuffer, rbuffer, put, want>> /\ pc' = "send" /\ stage' = "cycle"
      /\ gil' = "none" /\ current' = "none"
  BY <1>1 DEF ReleaseAndCycle, BeginCycle
<1>4. ScIDCycle'
  BY <1>1, <1>3 DEF ProtocolInv, ScIDCycle
<1>5. ProtocolTypeOK'
  BY <1>1, <1>2, <1>3 DEF ProtocolInv, ProtocolTypeOK, TransmitInv
<1>6. TurnInv'
  BY <1>3 DEF ProtocolInv, TurnInv
<1> QED
  BY <1>2, <1>4, <1>5, <1>6 DEF ProtocolInv, TransmitInv
(* transmit::do_cycle's steps after the lock was given back, and those of  *)
(* Read_rbuffer under it.                                                  *)
LEMMA PortKeeps ==
    ASSUME ProtocolInv, PortStep
    PROVE  ProtocolInv'
<1>1. CycleStep /\ UNCHANGED ownVars /\ UNCHANGED pyVars
  BY DEF PortStep
<1>2. TransmitInv /\ TransmitInv'
  BY <1>1, InvTransmit, CycleKeeps
<1>3. UNCHANGED <<put, want>> /\ stage = "cycle"
  BY DEF PortStep, CycleStep, SendByte, EraseFrame, EndSend, ReadPort, ProtocolInv,
     TurnInv, ProtocolTypeOK
<1>4. \/ UNCHANGED wbuffer
      \/ wbuffer # <<>> /\ wbuffer' = Tail(wbuffer)
  BY <1>1 DEF CycleStep, SendByte, EraseFrame, EndSend, ReadPort
<1>5. /\ Len(wbuffer') <= Len(wbuffer)
      /\ \A i \in DOMAIN wbuffer' : \E d \in DOMAIN wbuffer : wbuffer'[i] = wbuffer[d]
  <2>1. CASE UNCHANGED wbuffer
    BY <1>2, <2>1 DEF TransmitInv, TransmitTypeOK
  <2>2. CASE wbuffer # <<>> /\ wbuffer' = Tail(wbuffer)
    <3>1. wbuffer \in Seq(QueuedFrames) /\ wbuffer # <<>>
      BY <1>2, <2>2 DEF TransmitInv, TransmitTypeOK
    <3>2. /\ Len(Tail(wbuffer)) <= Len(wbuffer)
          /\ \A i \in DOMAIN Tail(wbuffer) :
               \E d \in DOMAIN wbuffer : Tail(wbuffer)[i] = wbuffer[d]
      BY <3>1, TailElements
    <3> QED
      BY <2>2, <3>2, Zenon
  <2> QED
    BY <1>4, <2>1, <2>2
<1>6. ScIDCycle'
  BY <1>1, <1>3, <1>5 DEF ProtocolInv, ScIDCycle, ownVars
<1>7. ProtocolTypeOK'
  BY <1>1, <1>2 DEF ProtocolInv, ProtocolTypeOK, TransmitInv, ownVars, pyVars
<1>8. TurnInv'
  <2>1. Len(wbuffer') <= 1
    BY <1>2, <1>5 DEF ProtocolInv, TurnInv, TransmitInv, TransmitTypeOK
  <2>2. pc' \in {"idle", "send", "read", "crash"} /\ (pc' # "send" => wbuffer' = <<>>)
    BY <1>1, <1>3 DEF CycleStep, SendByte, EraseFrame, EndSend, ReadPort, ProtocolInv, TurnInv
  <2> QED
    BY <1>1, <1>3, <2>1, <2>2 DEF TurnInv, ownVars, pyVars
<1> QED
  BY <1>2, <1>6, <1>7, <1>8 DEF ProtocolInv, TransmitInv

LEMMA ReplyKeeps ==
    ASSUME ProtocolInv, ReplyStep
    PROVE  ProtocolInv'
<1>1. ReadStep /\ UNCHANGED ownVars /\ UNCHANGED pyVars
  BY DEF ReplyStep
<1>2. TransmitInv /\ TransmitInv'
  BY <1>1, InvTransmit, ReadKeeps
<1>3. UNCHANGED <<put, want, wbuffer>> /\ stage = "answer"
      /\ pc' \in {"idle", "scan", "spin", "crash"}
  BY DEF ReplyStep, ReadStep, TakeReply, SpinOnForeign, EndRead, ProtocolInv, TurnInv,
     ProtocolTypeOK
<1>4. \/ UNCHANGED rbuffer
      \/ rbuffer # <<>> /\ rbuffer' = Tail(rbuffer)
  BY <1>1 DEF ReadStep, TakeReply, SpinOnForeign, EndRead
<1>5. \A i \in DOMAIN rbuffer' : \E d \in DOMAIN rbuffer : rbuffer'[i] = rbuffer[d]
  <2>1. CASE UNCHANGED rbuffer
    BY <2>1
  <2>2. CASE rbuffer # <<>> /\ rbuffer' = Tail(rbuffer)
    <3>1. rbuffer \in Seq([scID : Received, after : 0..put]) /\ rbuffer # <<>>
      BY <1>2, <2>2 DEF TransmitInv, TransmitTypeOK
    <3>2. \A i \in DOMAIN Tail(rbuffer) :
            \E d \in DOMAIN rbuffer : Tail(rbuffer)[i] = rbuffer[d]
      BY <3>1, TailElements, Zenon
    <3> QED
      BY <2>2, <3>2, Zenon
  <2> QED
    BY <1>4, <2>1, <2>2
<1>6. ScIDCycle'
  BY <1>1, <1>3 DEF ProtocolInv, ScIDCycle, ownVars
<1>7. ProtocolTypeOK'
  BY <1>1, <1>2 DEF ProtocolInv, ProtocolTypeOK, TransmitInv, ownVars, pyVars
<1>8. TurnInv'
  BY <1>1, <1>3, <1>5 DEF ProtocolInv, TurnInv, ownVars, pyVars
<1> QED
  BY <1>2, <1>6, <1>7, <1>8 DEF ProtocolInv, TransmitInv

(* A command for the sender chips: the next id, its frame, its search. *)
LEMMA SendKeeps ==
    ASSUME ProtocolInv, stage = "convert", action' \in {"a", "c"},
           NEW ClientID \in ClientIDs \cup {UCHAR_MAX}, NEW data \in DataStrings,
           SendAndRead(ClientID, data)
    PROVE  ProtocolInv'
<1> DEFINE scID == (scID_now + 1) % (MaxSc + 1)
           chain == Chain(ClientID, 0, scID, data)
<1>1. /\ put_in(chain)
      /\ scID_now' = AfterUse(scID) /\ want' = AfterUse(scID)
      /\ pc = "idle" /\ pc' = "scan" /\ stage' = "answer"
      /\ UNCHANGED <<rbuffer, j, last, gil, current>>
  BY DEF SendAndRead, pyVars
<1>2. TransmitInv /\ wbuffer = <<>> /\ gil = "main" /\ current = "main"
  BY InvTransmit DEF ProtocolInv, TurnInv
<1>3. scID_now \in 0..(MaxSc - 1) /\ scID_now = put % MaxSc /\ put \in Nat
  BY <1>2 DEF ProtocolInv, ProtocolTypeOK, ScIDCycle, TransmitInv, TransmitTypeOK
<1>4. scID = scID_now + 1
  BY <1>3, Sizes, ModSmall
<1> HIDE DEF scID
<1>5. scID \in 0..MaxSc /\ AfterUse(scID) = (put + 1) % MaxSc
      /\ AfterUse(scID) \in 0..(MaxSc - 1)
  <2>1. /\ put % MaxSc \in 0..(MaxSc - 1)
        /\ (put + 1) % MaxSc = IF (put % MaxSc) + 1 = MaxSc THEN 0 ELSE (put % MaxSc) + 1
    <3>1. MaxSc \in Nat \ {0}
      BY Sizes
    <3> HIDE DEF MaxSc
    <3> QED
      BY <1>3, <3>1, ModNext
  <2> QED
    BY <1>3, <1>4, <2>1, Sizes DEF AfterUse
<1>6. ClientID \in Int /\ chain \in Content
  BY <1>5, ClientAssumption, ChainAssumption, CharAssumption DEF UCHAR_MAX
<1> HIDE DEF chain
<1>7. TransmitInv'
  <2>1. want' \in Nat
    BY <1>1, <1>5, Sizes
  <2> QED
    BY <1>1, <1>2, <1>6, <2>1, PutInKeeps
<1>8. put' = put + 1 /\ wbuffer' = <<WFrame(put + 1, chain)>>
  BY <1>1, <1>2 DEF put_in
<1>9. ScIDIn(chain) = scID
  <2>1. data \in Seq(Byte)
    BY ClientAssumption
  <2> QED
    BY <1>5, <1>6, <2>1, ChainCarriesScID DEF chain
<1>10. ScIDCycle'
  <2>1. FrameScID(put + 1) = scID
    <3>1. (put + 1) - 1 = put
      BY <1>3
    <3> QED
      BY <1>3, <1>4, <3>1 DEF FrameScID
  <2>2. \A i \in DOMAIN wbuffer' :
           wbuffer'[i].content = chain /\ wbuffer'[i].no = put + 1
    BY <1>8 DEF WFrame
  <2> QED
    BY <1>1, <1>5, <1>8, <1>9, <2>1, <2>2 DEF ScIDCycle
<1>11. ProtocolTypeOK'
  BY <1>1, <1>5, <1>7, <1>2 DEF ProtocolTypeOK, TransmitInv
<1>12. TurnInv'
  <2>1. Len(wbuffer') = 1 /\ put' >= 1
    BY <1>3, <1>8
  <2>2. \A i \in DOMAIN rbuffer' : rbuffer'[i].after < put'
    <3> DEFINE entries == [scID : Received, after : 0..put]
    <3>1. rbuffer \in Seq(entries)
      BY <1>2 DEF TransmitInv, TransmitTypeOK
    <3>a. \A i \in DOMAIN rbuffer : rbuffer[i] \in entries
      <4> HIDE DEF entries
      <4> QED
        BY <3>1
    <3>2. \A i \in DOMAIN rbuffer : rbuffer[i].after \in 0..put
      BY <3>a
    <3> QED
      BY <1>1, <1>3, <1>8, <3>2
  <2> QED
    BY <1>1, <1>2, <2>1, <2>2 DEF TurnInv
<1> QED
  BY <1>7, <1>10, <1>11, <1>12 DEF ProtocolInv, TransmitInv
LEMMA ProtocolNextKeeps == ProtocolInv /\ [ProtocolNext]_vars => ProtocolInv'
<1> SUFFICES ASSUME ProtocolInv, [ProtocolNext]_vars PROVE ProtocolInv'
  OBVIOUS
<1>1. CASE \/ ReadMessage \/ RequestLock \/ TakeLock \/ Fault \/ RejectClient \/ EndTurn
           \/ WebTakesLock \/ WebYieldsLock \/ OthersEnd \/ UNCHANGED vars
  <2>1. UNCHANGED uartVars
    BY <1>1 DEF ReadMessage, RequestLock, TakeLock, Fault, RejectClient, EndTurn,
       WebTakesLock, WebYieldsLock, OthersEnd, vars
  <2> QED
    BY <1>1, <2>1, OwnStepKeeps
<1>2. CASE NoCommand \/ OtherCommand \/ Answered
  BY <1>2, ReleaseKeeps
<1>3. CASE SendIR
  BY <1>3, SendKeeps DEF SendIR
<1>4. CASE QueryClients
  BY <1>4, SendKeeps, ClientAssumption DEF QueryClients
<1>5. CASE PortStep
  BY <1>5, PortKeeps
<1>6. CASE ReplyStep
  BY <1>6, ReplyKeeps
<1> QED
  BY <1>1, <1>2, <1>3, <1>4, <1>5, <1>6 DEF ProtocolNext, MainStep, Halted, DropMessage

(* protocol.h:27-31: the members keep their types; scID_now never reaches  *)
(* the last id between two commands.                                       *)
THEOREM ProtocolTypeCorrect == ProtocolSpec => []ProtocolTypeOK
<1>1. ProtocolInv => ProtocolTypeOK
  BY DEF ProtocolInv
<1> QED
  BY <1>1, ProtocolInitKeeps, ProtocolNextKeeps, PTL DEF ProtocolSpec

(* main.cpp:173-178, protocol.cpp:39-65: what a turn keeps between steps. *)
THEOREM TurnCorrect == ProtocolSpec => []TurnInv
<1>1. ProtocolInv => TurnInv
  BY DEF ProtocolInv
<1> QED
  BY <1>1, ProtocolInitKeeps, ProtocolNextKeeps, PTL DEF ProtocolSpec

(* protocol.cpp:137-151: the ids of the frames are 1 .. MaxSc in turn. *)
THEOREM ScIDCorrect == ProtocolSpec => []ScIDCycle
<1>1. ProtocolInv => ScIDCycle
  BY DEF ProtocolInv
<1> QED
  BY <1>1, ProtocolInitKeeps, ProtocolNextKeeps, PTL DEF ProtocolSpec

(* protocol.cpp:64, transmit.cpp:69-79: one frame at a time. *)
THEOREM OneFrame == ProtocolSpec => []OneFrameAtATime
<1>1. ProtocolInv => OneFrameAtATime
  BY DEF ProtocolInv, ProtocolTypeOK, TurnInv, OneFrameAtATime
<1> QED
  BY <1>1, ProtocolInitKeeps, ProtocolNextKeeps, PTL DEF ProtocolSpec

(* protocol.cpp:42-62: a search, an endless one too, is under the lock. *)
THEOREM SearchLocked == ProtocolSpec => []SearchHoldsLock
<1>1. ProtocolInv => SearchHoldsLock
  BY DEF ProtocolInv, ProtocolTypeOK, TurnInv, SearchHoldsLock
<1> QED
  BY <1>1, ProtocolInitKeeps, ProtocolNextKeeps, PTL DEF ProtocolSpec

(* protocol.cpp:149-151: the id searched for is the frame's, or 0 for the  *)
(* last one of a round.                                                    *)
THEOREM ReplyIdCorrect == ProtocolSpec => []ReplyIdNamesFrame
<1>1. ProtocolInv => ReplyIdNamesFrame
  <2> SUFFICES ASSUME ProtocolInv, pc = "scan"
               PROVE  /\ wbuffer # <<>>
                      /\ LET sent == ScIDIn(Head(wbuffer).content) IN
                         want = IF sent = MaxSc THEN 0 ELSE sent
    BY DEF ReplyIdNamesFrame
  <2>2. /\ Len(wbuffer) = 1 /\ put \in Nat /\ put >= 1
        /\ want = put % MaxSc
        /\ wbuffer \in Seq(QueuedFrames)
    BY DEF ProtocolInv, ProtocolTypeOK, TransmitTypeOK, TurnInv, ScIDCycle
  <2>3. wbuffer # <<>> /\ 1 \in DOMAIN wbuffer /\ Head(wbuffer) = wbuffer[1]
    <3> HIDE DEF QueuedFrames
    <3>1. Len(<<>>) = 0 /\ Len(<<>>) # 1
      OBVIOUS
    <3>a. Len(wbuffer) = 1
      BY <2>2
    <3>2. wbuffer # <<>>
      BY <3>1, <3>a, Zenon
    <3> QED
      BY <2>2, <3>2
  <2>4. Head(wbuffer).no = put
    BY <2>2, <2>3 DEF ProtocolInv, QueueIsTail
  <2> DEFINE before == (put - 1) % MaxSc
  <2>5. ScIDIn(Head(wbuffer).content) = before + 1
    BY <2>3, <2>4 DEF ProtocolInv, ScIDCycle, FrameScID
  <2>6. /\ before \in 0..(MaxSc - 1)
        /\ put % MaxSc = IF before + 1 = MaxSc THEN 0 ELSE before + 1
    <3> DEFINE n == put - 1
    <3>1. n \in Nat /\ n + 1 = put /\ MaxSc \in Nat \ {0}
      BY <2>2, Sizes
    <3> HIDE DEF MaxSc, n
    <3>2. /\ n % MaxSc \in 0..(MaxSc - 1)
          /\ (n + 1) % MaxSc = IF (n % MaxSc) + 1 = MaxSc THEN 0 ELSE (n % MaxSc) + 1
      BY <3>1, ModNext
    <3>3. before = n % MaxSc
      BY DEF n
    <3> QED
      BY <3>1, <3>2, <3>3
  <2> QED
    BY <2>2, <2>3, <2>5, <2>6
<1> QED
  BY <1>1, ProtocolInitKeeps, ProtocolNextKeeps, PTL DEF ProtocolSpec

(* protocol.cpp:112-113 before 64: an entry handed over is older than the  *)
(* command it answers.                                                     *)
THEOREM AnswersOld == ProtocolSpec => AnswersPredateCommand
<1> DEFINE entry == Head(rbuffer)
<1>1. ASSUME ProtocolInv, [ProtocolNext]_vars, Len(rbuffer') < Len(rbuffer)
      PROVE  entry.after < put /\ (put < MaxSc => entry.scID > entry.after)
  <2>0. rbuffer \in Seq([scID : Received, after : 0..put]) /\ put \in Nat
    BY <1>1 DEF ProtocolInv, ProtocolTypeOK, TransmitTypeOK
  <2>1. ~UNCHANGED rbuffer
    BY <1>1, <2>0
  <2>2. ReplyStep \/ PortStep
    BY <1>1, <2>1 DEF ProtocolNext, MainStep, Halted, ReadMessage, RequestLock, TakeLock,
       NoCommand, Fault, OtherCommand, SendIR, RejectClient, QueryClients, SendAndRead,
       Answered, ReleaseAndCycle, BeginCycle, EndTurn, WebTakesLock, WebYieldsLock,
       OthersEnd, DropMessage, vars, uartVars
  <2>3. ~PortStep
    <3>1. ASSUME ReadPort PROVE Len(rbuffer') = Len(rbuffer) + 1
      <4>1. PICK scID \in Received : rbuffer' = Append(rbuffer, [scID |-> scID, after |-> put])
        BY <2>1, <3>1 DEF ReadPort
      <4> QED
        BY <2>0, <4>1
    <3>2. Len(rbuffer) \in Nat
      BY <2>0
    <3> QED
      BY <1>1, <2>1, <3>1, <3>2 DEF PortStep, CycleStep, SendByte, EraseFrame, EndSend
  <2>4. pc = "scan" /\ rbuffer # <<>> /\ entry.scID = want
    BY <2>1, <2>2, <2>3 DEF ReplyStep, ReadStep, TakeReply, SpinOnForeign, EndRead
  <2>6. 1 \in DOMAIN rbuffer /\ entry = rbuffer[1]
    BY <2>0, <2>4, EmptySeq
  <2>7. entry.after < put /\ want = put % MaxSc
    BY <1>1, <2>4, <2>6 DEF ProtocolInv, TurnInv, ScIDCycle
  <2>8. put < MaxSc => want = put
    <3>1. MaxSc \in Nat \ {0}
      BY Sizes
    <3> HIDE DEF MaxSc
    <3>2. put < MaxSc => put % MaxSc = put
      BY <2>0, <3>1, ModSmall
    <3> QED
      BY <2>7, <3>2
  <2> QED
    BY <2>4, <2>7, <2>8
<1> QED
  BY <1>1, ProtocolInitKeeps, ProtocolNextKeeps, PTL DEF ProtocolSpec, AnswersPredateCommand
(* transmit.cpp:66-101 under protocol.cpp's turns: the composed system     *)
(* keeps the line's promise too.                                           *)
THEOREM ProtocolLine == ProtocolSpec => LineInOrder
<1>1. ProtocolInit => Line!Init
  BY DEF ProtocolInit, TransmitInit, Line!Init
<1>2. ASSUME ProtocolInv, [ProtocolNext]_vars
      PROVE  [Line!Accept \/ Line!Emit]_(Line!lineVars)
  <2>1. CASE PortStep \/ ReplyStep
    <3>1. TransmitNext
      BY <2>1 DEF PortStep, ReplyStep, TransmitNext
    <3> QED
      BY <1>2, <3>1, InvTransmit, StepRefines
  <2>2. CASE SendIR \/ QueryClients
    BY <2>2 DEF SendIR, QueryClients, SendAndRead, put_in, Line!Accept
  <2>3. CASE ~(PortStep \/ ReplyStep \/ SendIR \/ QueryClients)
    <3>1. UNCHANGED <<put, last>>
      BY <1>2, <2>3 DEF ProtocolNext, MainStep, Halted, ReadMessage, RequestLock, TakeLock,
         NoCommand, Fault, OtherCommand, RejectClient, Answered, ReleaseAndCycle,
         BeginCycle, EndTurn, WebTakesLock, WebYieldsLock, OthersEnd, DropMessage, vars,
         uartVars
    <3> QED
      BY <3>1 DEF Line!lineVars
  <2> QED
    BY <2>1, <2>2, <2>3
<1> QED
  BY <1>1, <1>2, ProtocolInitKeeps, ProtocolNextKeeps, PTL
     DEF ProtocolSpec, LineInOrder, Line!Spec
-----------------------------------------------------------------------------
CountInv == ProtocolInv /\ NotPast

LEMMA CountNext == CountInv /\ [ProtocolNext]_vars => CountInv'
<1> SUFFICES ASSUME CountInv, [ProtocolNext]_vars PROVE NotPast'
  BY ProtocolNextKeeps DEF CountInv
<1>1. TransmitInv /\ TransmitInv' /\ NotPast
  <2>1. ProtocolInv'
    BY ProtocolNextKeeps DEF CountInv
  <2>2. ProtocolInv' => TransmitInv'
    BY DEF ProtocolInv, ProtocolTypeOK, TransmitInv
  <2> QED
    BY <2>1, <2>2, InvTransmit DEF CountInv
<1>2. CASE PortStep
  BY <1>1, <1>2, NotPastKept DEF PortStep
<1>3. CASE NoCommand \/ OtherCommand \/ Answered
  BY <1>1, <1>3, NotPastKept DEF NoCommand, OtherCommand, Answered, ReleaseAndCycle
<1>4. CASE ReplyStep \/ SendIR \/ QueryClients
  <2>1. pc' # "send"
    BY <1>1, <1>4 DEF ReplyStep, ReadStep, TakeReply, SpinOnForeign, EndRead, SendIR,
       QueryClients, SendAndRead
  <2> QED
    BY <1>1, <2>1, NotPastKept
<1>5. CASE UNCHANGED uartVars
  BY <1>1, <1>5 DEF NotPast, uartVars
<1> QED
  BY <1>2, <1>3, <1>4, <1>5
     DEF ProtocolNext, MainStep, ReadMessage, RequestLock, TakeLock, Fault, RejectClient,
         EndTurn, WebTakesLock, WebYieldsLock, OthersEnd, DropMessage, Halted, vars

LEMMA PartType ==
    ASSUME CountInv
    PROVE  /\ Part \in 0..5 /\ PartAhead \in Nat
           /\ Len(rbuffer) \in Nat /\ Len(wbuffer) \in 0..1 /\ LeftToSend \in Nat
<1>1. Len(rbuffer) \in Nat /\ Len(wbuffer) \in 0..1 /\ j \in Nat
  <2>1. rbuffer \in Seq([scID : Received, after : 0..put]) /\ wbuffer \in Seq(QueuedFrames)
        /\ j \in Nat
    BY DEF CountInv, ProtocolInv, ProtocolTypeOK, TransmitTypeOK
  <2>2. Len(rbuffer) \in Nat /\ Len(wbuffer) \in Nat
    BY <2>1, LenProperties
  <2>3. Len(wbuffer) <= 1
    BY DEF CountInv, ProtocolInv, TurnInv
  <2> DEFINE n == Len(wbuffer)
  <2>4. n \in Nat /\ n <= 1
    BY <2>2, <2>3
  <2> HIDE DEF n
  <2>5. n \in 0..1
    BY <2>4
  <2> QED
    BY <2>1, <2>2, <2>5 DEF n
<1>2. wbuffer # <<>> => Head(wbuffer).length \in Nat
  BY FrameFields DEF CountInv, ProtocolInv, ProtocolTypeOK, TransmitTypeOK
<1>3. LeftToSend \in Nat
  BY <1>1, <1>2 DEF LeftToSend, CountInv, NotPast
<1>4. PartAhead \in Nat
  BY <1>1, <1>3 DEF PartAhead
<1> QED
  BY <1>1, <1>3, <1>4 DEF Part

(* Inside one part of the turn: the search, and do_cycle. *)
LEMMA SearchGoesOn ==
    ASSUME CountInv, ReplyStep, pc' \notin {"spin", "crash"}
    PROVE  Part' = Part /\ PartAhead' < PartAhead
<1>1. stage = "answer" /\ stage' = "answer" /\ pc = "scan"
  BY DEF ReplyStep, ownVars, ReadStep, TakeReply, SpinOnForeign, EndRead, CountInv,
     ProtocolInv, ProtocolTypeOK, TurnInv
<1>2. Part' = Part /\ PartAhead = Len(rbuffer) + 1 /\ Len(rbuffer) \in Nat
  BY <1>1, PartType DEF Part, PartAhead
<1>3. CASE TakeReply
  <2>1. pc' = "scan" /\ Len(rbuffer') = Len(rbuffer) - 1
    BY <1>3, HeadTailProperties
       DEF TakeReply, CountInv, ProtocolInv, ProtocolTypeOK, TransmitTypeOK
  <2>2. PartAhead' = Len(rbuffer') + 1
    BY <1>1, <2>1 DEF PartAhead
  <2> QED
    BY <1>2, <2>1, <2>2
<1>4. CASE EndRead
  <2>1. PartAhead' = 0
    BY <1>1, <1>4 DEF EndRead, PartAhead
  <2> QED
    BY <1>2, <2>1
<1> QED
  BY <1>3, <1>4 DEF ReplyStep, ReadStep, SpinOnForeign

LEMMA PortGoesOn ==
    ASSUME CountInv, CountInv', PortStep, pc' # "crash"
    PROVE  Part' = Part /\ PartAhead' < PartAhead
<1>1. stage = "cycle" /\ stage' = "cycle" /\ pc \in {"send", "read"}
  BY DEF PortStep, ownVars, CycleStep, SendByte, EraseFrame, EndSend, ReadPort, CountInv,
     ProtocolInv, ProtocolTypeOK, TurnInv
<1>2. /\ Part' = Part /\ Len(wbuffer) \in 0..1 /\ LeftToSend \in Nat
      /\ Len(wbuffer') \in 0..1 /\ LeftToSend' \in Nat
  <2>1. Len(wbuffer') \in 0..1 /\ LeftToSend' \in Nat
    <3>1. Len(wbuffer') \in 0..1
      <4>1. wbuffer' \in Seq(QueuedFrames') /\ Len(wbuffer') <= 1
        BY DEF CountInv, ProtocolInv, ProtocolTypeOK, TransmitTypeOK, TurnInv
      <4>2. Len(wbuffer') \in Nat
        BY <4>1, LenProperties
      <4> DEFINE n == Len(wbuffer')
      <4>3. n \in Nat /\ n <= 1
        BY <4>1, <4>2
      <4> HIDE DEF n
      <4>4. n \in 0..1
        BY <4>3
      <4> QED
        BY <4>4 DEF n
    <3>2. CASE wbuffer' = <<>>
      BY <3>1, <3>2 DEF LeftToSend
    <3>3. CASE wbuffer' # <<>>
      <4>1. SendByte
        BY <1>1, <3>1, <3>3 DEF PortStep, CycleStep, EraseFrame, EndSend, ReadPort,
           CountInv, ProtocolInv, TurnInv
      <4>2. wbuffer # <<>> /\ j < Head(wbuffer).length /\ j' = j + 1 /\ wbuffer' = wbuffer
        BY <4>1 DEF SendByte
      <4>3. Head(wbuffer).length \in Nat /\ j \in Nat
        BY <4>2, FrameFields DEF CountInv, ProtocolInv, ProtocolTypeOK, TransmitTypeOK
      <4> QED
        BY <3>1, <4>2, <4>3 DEF LeftToSend
    <3> QED
      BY <3>1, <3>2, <3>3
  <2> QED
    BY <1>1, <2>1, PartType DEF Part
<1>3. CASE pc = "read"
  <2>1. pc' = "idle"
    BY <1>3 DEF PortStep, CycleStep, SendByte, EraseFrame, EndSend, ReadPort
  <2>2. PartAhead = 1 /\ PartAhead' = 0
    BY <1>1, <1>3, <2>1 DEF PartAhead
  <2> QED
    BY <1>2, <2>2
<1>4. CASE pc = "send"
  <2>1. PartAhead = Len(wbuffer) + LeftToSend + 2
    BY <1>1, <1>4 DEF PartAhead
  <2>2. \/ pc' = "read"
        \/ pc' = "send" /\ Len(wbuffer') = Len(wbuffer) - 1
        \/ pc' = "send" /\ wbuffer' = wbuffer /\ LeftToSend' = LeftToSend - 1
    BY <1>4, CycleGoesOn, InvTransmit DEF CountInv, PortStep
  <2>3. CASE pc' = "read"
    <3>1. PartAhead' = 1
      BY <1>1, <2>3 DEF PartAhead
    <3> QED
      BY <1>2, <2>1, <3>1
  <2>4. CASE pc' = "send"
    <3>1. PartAhead' = Len(wbuffer') + LeftToSend' + 2
      BY <1>1, <2>4 DEF PartAhead
    <3>2. Len(wbuffer') = 0 => LeftToSend' = 0
      <4>1. wbuffer' \in Seq(QueuedFrames')
        BY DEF CountInv, ProtocolInv, ProtocolTypeOK, TransmitTypeOK
      <4>2. Len(wbuffer') = 0 => wbuffer' = <<>>
        BY <4>1, EmptySeq
      <4> QED
        BY <4>2 DEF LeftToSend
    <3> QED
      BY <1>2, <2>1, <2>2, <2>4, <3>1, <3>2
  <2> QED
    BY <2>2, <2>3, <2>4
<1> QED
  BY <1>1, <1>3, <1>4

(* main.cpp:173-178, the safety half of TurnEnds: main's steps count a     *)
(* turn down, part by part and within each part, and the web server's do   *)
(* not touch the count.                                                    *)
THEOREM TurnCounts == ProtocolSpec => TurnAdvances /\ [](Part \in Nat /\ PartAhead \in Nat)
<1>1. ProtocolInit => CountInv
  BY ProtocolInitKeeps DEF ProtocolInit, TransmitInit, CountInv, NotPast
<1>2. CountInv => Part \in Nat /\ PartAhead \in Nat
  BY PartType
<1>3. ASSUME CountInv, CountInv', [ProtocolNext]_vars,
             stage # "wait", stage' # "wait", Alive', pc' # "spin", ~UNCHANGED vars
      PROVE  IF MainStep \/ TakeLock
             THEN Part' < Part \/ (Part' = Part /\ PartAhead' < PartAhead)
             ELSE UNCHANGED <<Part, PartAhead>>
  <2>1. ASSUME MainStep \/ TakeLock
        PROVE  Part' < Part \/ (Part' = Part /\ PartAhead' < PartAhead)
    <3>1. CASE RequestLock \/ TakeLock
      BY <1>3, <3>1 DEF RequestLock, TakeLock, Alive, Part
    <3>2. CASE NoCommand \/ OtherCommand \/ Answered
      BY <1>3, <3>2 DEF NoCommand, OtherCommand, Answered, ReleaseAndCycle, Part
    <3>3. CASE SendIR \/ QueryClients
      BY <3>3 DEF SendIR, QueryClients, SendAndRead, Part
    <3>4. CASE ReplyStep
      BY <1>3, <3>4, SearchGoesOn DEF Alive
    <3>5. CASE PortStep
      BY <1>3, <3>5, PortGoesOn DEF Alive
    <3>6. ~Fault /\ ~RejectClient /\ ~EndTurn
      BY <1>3 DEF Fault, RejectClient, EndTurn, Alive
    <3> QED
      BY <2>1, <3>1, <3>2, <3>3, <3>4, <3>5, <3>6 DEF MainStep
  <2>2. ASSUME ~MainStep, ~TakeLock PROVE UNCHANGED <<Part, PartAhead>>
    <3>1. UNCHANGED <<uartVars, ownVars>>
      BY <1>3, <2>2 DEF ProtocolNext, ReadMessage, DropMessage, WebTakesLock, WebYieldsLock,
         OthersEnd, Alive, Halted, vars
    <3> QED
      BY <3>1 DEF Part, PartAhead, LeftToSend, uartVars, ownVars
  <2> QED
    BY <2>1, <2>2
<1> QED
  BY <1>1, <1>2, <1>3, CountNext, PTL DEF ProtocolSpec, TurnAdvances
-----------------------------------------------------------------------------
LEMMA ProtocolLockStep ==
    ASSUME ProtocolInv, [ProtocolNext]_vars
    PROVE  [Alive /\ (Lock!Take \/ Lock!Give \/ Lock!Leave \/ Lock!End)]_(Lock!lockState)
<1>1. CASE TakeLock
  <2>1. Alive /\ Alive'
    BY <1>1 DEF TakeLock, Alive, uartVars, ProtocolInv, TurnInv
  <2> QED
    BY <1>1, <2>1 DEF TakeLock, Lock!Take
<1>2. CASE NoCommand \/ OtherCommand \/ Answered
  <2>1. /\ gil = "main" /\ gil' = "none" /\ current' = "none" /\ Alive /\ Alive'
    BY <1>2 DEF NoCommand, OtherCommand, Answered, ReleaseAndCycle, BeginCycle, Alive,
       ProtocolInv, TurnInv
  <2> QED
    BY <2>1 DEF Lock!Give
<1>3. CASE WebTakesLock \/ WebYieldsLock
  <2>1. Alive /\ Alive'
    BY <1>3 DEF WebTakesLock, WebYieldsLock, Alive, uartVars, ownVars
  <2> QED
    BY <1>3, <2>1 DEF WebTakesLock, WebYieldsLock, Lock!Take, Lock!Give
<1>4. CASE \/ ReadMessage \/ RequestLock \/ Fault \/ RejectClient \/ EndTurn
           \/ SendIR \/ QueryClients \/ ReplyStep \/ PortStep \/ OthersEnd
  <2>1. Alive
    BY <1>4 DEF ReadMessage, RequestLock, Fault, RejectClient, EndTurn, SendIR, QueryClients,
       SendAndRead, ReplyStep, PortStep, OthersEnd, ReadStep, TakeReply, SpinOnForeign,
       EndRead, CycleStep, SendByte, EraseFrame, EndSend, ReadPort, Alive, ProtocolInv,
       TurnInv
  <2>2. UNCHANGED <<gil, current>>
    BY <1>4 DEF ReadMessage, RequestLock, Fault, RejectClient, EndTurn, SendIR, QueryClients,
       SendAndRead, ReplyStep, PortStep, OthersEnd, pyVars
  <2>3. CASE Alive'
    BY <2>1, <2>2, <2>3 DEF Lock!lockState
  <2>4. CASE ~Alive'
    BY <2>1, <2>2, <2>4 DEF Lock!End
  <2> QED
    BY <2>3, <2>4
<1>5. CASE Halted \/ DropMessage \/ UNCHANGED vars
  BY <1>5 DEF Halted, DropMessage, vars, uartVars, ownVars, pyVars, Lock!lockState, Alive
<1> QED
  BY <1>1, <1>2, <1>3, <1>4, <1>5 DEF ProtocolNext, MainStep

(* protocol.cpp:42-62: a turn, and what the web server does between its    *)
(* steps, use the interpreter lock as Linker's threads do.                 *)
THEOREM ProtocolLock == ProtocolSpec => LockKept
<1>1. ProtocolInit => Lock!Init
  BY DEF ProtocolInit, TransmitInit, Lock!Init, Alive
<1> QED
  BY <1>1, ProtocolLockStep, ProtocolInitKeeps, ProtocolNextKeeps, PTL
     DEF ProtocolSpec, LockKept, Lock!Spec
=============================================================================
