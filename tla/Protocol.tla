------------------------------ MODULE Protocol ------------------------------
(***************************************************************************)
(* Class IRProtocol (protocol.cpp, protocol.h) on top of transmit, turned  *)
(* by main's loop (main.cpp:173-178), and the interpreter lock it shares   *)
(* with the web server's thread.  One turn: take the lock, convert the     *)
(* message, act on the command, release, then transmit::do_cycle.          *)
(*                                                                         *)
(* The commands that reach action_switch are the class's input.  What the  *)
(* Python side makes of a message before is not computed here: any command *)
(* its text allows may come out, or none.                                  *)
(***************************************************************************)
EXTENDS Transmit

CONSTANTS ClientIDs,    \* what atoi makes of the command's "c"
          DataStrings,  \* the command's "d", without its final NUL
          Ping          \* the data of a query for clients

Base == UCHAR_MAX + 1
MaxSc == Base * Base - 1        \* 65535

(* The low byte of an int, of a negative one too. *)
LowByte(n) == n % Base

(* The chain of send_toSender: id, action, scID low byte first, data. *)
Chain(ClientID, action, scID, data) ==
    <<LowByte(ClientID), LowByte(action), LowByte(scID), scID \div Base>> \o data

ASSUME ClientAssumption ==
    /\ ClientIDs \subseteq Int
    /\ DataStrings \subseteq Seq(Byte) /\ Ping \in DataStrings
ASSUME ChainAssumption ==
    \A ClientID \in ClientIDs \cup {UCHAR_MAX}, scID \in 0..MaxSc,
       data \in DataStrings : Chain(ClientID, 0, scID, data) \in Content

VARIABLES
    scID_now,   \* the member: latest sequence id given out
    stage,      \* where main's loop is: "wait" (sleep and the pipe), "lock",
                \* "queue" (inside take_gil), "convert", "answer", "cycle";
                \* "deaf": no IRProtocol; "dead": the process has ended
    action,     \* action_switch's local
    gil,        \* the thread holding the interpreter lock, or "none"
    current     \* the thread whose state is the current one, or "none"

pyVars == <<gil, current>>
ownVars == <<scID_now, stage, action>>
vars == <<uartVars, ownVars, pyVars>>

ProtocolTypeOK ==
    /\ TransmitTypeOK
    /\ scID_now \in 0..(MaxSc - 1)
    /\ stage \in {"wait", "lock", "queue", "convert", "answer", "cycle",
                  "deaf", "dead"}
    /\ action \in {"a", "b", "c"}
    /\ gil \in {"none", "main", "web"}
    /\ current \in {"none", "main", "web"}

(* The constructor releases the lock with its own state still current.     *)
(* When there is no port to open it throws before it; main catches that    *)
(* and runs its loop without an IRProtocol.                                *)
ProtocolInit ==
    /\ TransmitInit
    /\ scID_now = 0 /\ stage \in {"wait", "deaf"} /\ action = "b"
    /\ gil = "none" /\ current = "main"
-----------------------------------------------------------------------------
(* sleep(1), then m_read_pipe_pre: a message, or an error nobody looks at. *)
ReadMessage ==
    /\ stage = "wait"
    /\ put < MaxPut /\ Len(rbuffer) < MaxEntries
    /\ stage' = "lock"
    /\ UNCHANGED <<uartVars, scID_now, action, pyVars>>

(* The message is read, and nobody is there to handle it. *)
DropMessage == stage = "deaf" /\ UNCHANGED vars

(* PyEval_AcquireLock: fatal when no thread state is current, as when the  *)
(* web server sits in a blocking call; else wait for the lock.             *)
RequestLock ==
    /\ stage = "lock"
    /\ stage' = IF current = "none" THEN "dead" ELSE "queue"
    /\ UNCHANGED <<uartVars, scID_now, action, pyVars>>

(* The lock is main's; PyThreadState_Swap(myThreadState). *)
TakeLock ==
    /\ stage = "queue" /\ gil = "none"
    /\ gil' = "main" /\ current' = "main"
    /\ stage' = "convert"
    /\ UNCHANGED <<uartVars, scID_now, action>>

(* Mutant: the turn ends without transmit::do_cycle. *)
ReleaseOnly ==
    /\ gil' = "none" /\ current' = "none"
    /\ stage' = "wait"
    /\ pc = "idle" /\ UNCHANGED uartVars

(* PyThreadState_Swap(NULL), PyEval_ReleaseLock, then transmit::do_cycle. *)
ReleaseAndCycle ==
    /\ gil' = "none" /\ current' = "none"
    /\ stage' = "cycle"
    /\ BeginCycle

(* transjson raised, or did not answer with a command. *)
NoCommand ==
    /\ stage = "convert"
    /\ ReleaseAndCycle
    /\ UNCHANGED <<scID_now, action>>

(* What the build may make of it: PyArg_Parse through a pointer to a       *)
(* literal, map values freed before they are read, a chain of n bytes      *)
(* filled with n + 4, a reply block never filled.  And the exception       *)
(* thrown for "conflicted!", which nobody catches.                         *)
Fault ==
    /\ stage = "convert" \/ (stage = "answer" /\ pc = "idle")
    /\ stage' = "dead"
    /\ UNCHANGED <<uartVars, scID_now, action, pyVars>>

(* "b" starts a learning thread; a letter the switch lacks does nothing. *)
OtherCommand ==
    /\ stage = "convert"
    /\ action' = "b"
    /\ ReleaseAndCycle
    /\ UNCHANGED scID_now
-----------------------------------------------------------------------------
(* Mutant: the reset never happens. *)
AfterUseNoReset(scID) == scID

(* The id kept and returned once the frame with scID is queued. *)
AfterUse(scID) == IF scID >= MaxSc THEN 0 ELSE scID

(* Mutant: the id the frame carries is the one looked for. *)
SendAndReadSame(ClientID, data) ==
    LET scID == (scID_now + 1) % (MaxSc + 1) IN
    /\ put_in(Chain(ClientID, 0, scID, data))
    /\ scID_now' = AfterUse(scID)
    /\ pc = "idle" /\ pc' = "scan" /\ want' = scID
    /\ stage' = "answer"
    /\ UNCHANGED <<rbuffer, j, last, pyVars>>

(* send_toSender past its check, then read_fromSender's call: the answer   *)
(* is looked for before do_cycle has sent the frame.                       *)
SendAndRead(ClientID, data) ==
    LET scID == (scID_now + 1) % (MaxSc + 1) IN
    /\ put_in(Chain(ClientID, 0, scID, data))
    /\ scID_now' = AfterUse(scID)
    /\ pc = "idle" /\ pc' = "scan" /\ want' = AfterUse(scID)
    /\ stage' = "answer"
    /\ UNCHANGED <<rbuffer, j, last, pyVars>>

(* "a": an IR signal for one client.  Negative ids pass the check. *)
SendIR ==
    /\ stage = "convert" /\ action' = "a"
    /\ \E ClientID \in ClientIDs, data \in DataStrings :
         ClientID <= UCHAR_MAX /\ SendAndRead(ClientID, data)

(* The check throws; nobody catches. *)
RejectClient ==
    /\ stage = "convert"
    /\ \E ClientID \in ClientIDs : ClientID > UCHAR_MAX
    /\ stage' = "dead" /\ action' = "a"
    /\ UNCHANGED <<uartVars, scID_now, pyVars>>

(* "c": who is there?  Broadcast, with the action code of a signal. *)
QueryClients ==
    /\ stage = "convert" /\ action' = "c"
    /\ SendAndRead(UCHAR_MAX, Ping)

(* Read_rbuffer at work below action_switch. *)
ReplyStep == stage # "dead" /\ ReadStep /\ UNCHANGED <<ownVars, pyVars>>

(* The answer, if any, is checked for a log line and freed. *)
Answered ==
    /\ stage = "answer" /\ ReleaseAndCycle
    /\ UNCHANGED <<scID_now, action>>

(* transmit::do_cycle at work, the lock given back. *)
PortStep == stage # "dead" /\ CycleStep /\ UNCHANGED <<ownVars, pyVars>>

EndTurn ==
    /\ stage = "cycle" /\ pc = "idle"
    /\ stage' = "wait"
    /\ UNCHANGED <<uartVars, scID_now, action, pyVars>>
-----------------------------------------------------------------------------
Alive == stage # "dead" /\ pc # "crash"

(* The web server's thread comes back from a blocking call, or the         *)
(* interpreter schedules it again.                                         *)
WebTakesLock ==
    /\ Alive /\ gil = "none"
    /\ gil' = "web" /\ current' = "web"
    /\ UNCHANGED <<uartVars, ownVars>>

(* It enters a blocking call, or obeys a drop request. *)
WebYieldsLock ==
    /\ Alive /\ gil = "web"
    /\ gil' = "none" /\ current' = "none"
    /\ UNCHANGED <<uartVars, ownVars>>

(* Another thread ends the process: at the lock, as main may at its own    *)
(* request, or by the server's end.                                        *)
OthersEnd ==
    /\ Alive /\ stage' = "dead"
    /\ UNCHANGED <<uartVars, scID_now, action, pyVars>>

(* The loop in Read_rbuffer turning on the spot, or nothing left to run. *)
Halted == (~Alive \/ pc = "spin") /\ UNCHANGED vars

MainStep ==
    \/ RequestLock \/ NoCommand \/ Fault \/ OtherCommand
    \/ SendIR \/ RejectClient \/ QueryClients \/ ReplyStep
    \/ Answered \/ PortStep \/ EndTurn

ProtocolNext ==
    \/ ReadMessage \/ DropMessage \/ TakeLock \/ MainStep
    \/ WebTakesLock \/ WebYieldsLock \/ OthersEnd \/ Halted

(* Main runs unless it waits for a message or the lock.  A holder that is  *)
(* asked to drop the lock does not take it back before the one who asked   *)
(* had it: strong fairness for TakeLock.  None for the server's giving it  *)
(* up: its handler may block in the pipe with the lock held (mpipe.c:22,   *)
(* 34), and no request to drop it reaches a thread inside read or write.   *)
ProtocolSpec ==
    /\ ProtocolInit /\ [][ProtocolNext]_vars
    /\ WF_vars(MainStep) /\ SF_vars(TakeLock)
-----------------------------------------------------------------------------
(* The id that frame number no carries: 1 .. MaxSc, again and again. *)
FrameScID(no) == ((no - 1) % MaxSc) + 1

ScIDIn(content) == content[3] + Base * content[4]

(* protocol.cpp:137-151.  Sequence ids go round through 1 .. 65535 without *)
(* a gap and never take the value 0, so that MaxSc frames running carry    *)
(* different ids.                                                          *)
ScIDCycle ==
    /\ scID_now = put % MaxSc
    /\ \A i \in DOMAIN wbuffer : ScIDIn(wbuffer[i].content) = FrameScID(wbuffer[i].no)

(* protocol.cpp:112-114, 149-151.  The answer looked for is the one to the *)
(* frame just queued, except that the frame with the last id of a round    *)
(* waits for an answer to 0, which no frame ever carries.                  *)
ReplyIdNamesFrame ==
    pc = "scan" =>
        /\ wbuffer # <<>>
        /\ LET sent == ScIDIn(Head(wbuffer).content) IN
           want = IF sent = MaxSc THEN 0 ELSE sent

(* protocol.cpp:64, transmit.cpp:69-79.  A turn leaves no frame behind: at *)
(* most one is queued, and only between its command and its cycle.         *)
OneFrameAtATime ==
    /\ Len(wbuffer) <= 1
    /\ wbuffer # <<>> => stage \in {"answer", "cycle", "dead"}

(* protocol.cpp:112-113 against 64.  An entry handed over as the answer to *)
(* a command was read before that command's frame was sent; and until the  *)
(* ids wrap, it names a frame nobody had sent when it was read.  A device  *)
(* that only answers what it was sent never gets an answer through.        *)
AnswersPredateCommand ==
    [][ Len(rbuffer') < Len(rbuffer) =>
          LET entry == Head(rbuffer) IN
          /\ entry.after < put
          /\ put < MaxSc => entry.scID > entry.after ]_vars

(* protocol.cpp:42-62 around transmit.cpp:122-134.  The search for an      *)
(* answer runs under the interpreter lock: one that never ends keeps the   *)
(* web server from ever running again.                                     *)
SearchHoldsLock ==
    pc \in {"scan", "spin"} => gil = "main" /\ current = "main"

(* What a turn keeps between its steps, and what the four above rest on:   *)
(* where main is says what transmit is at, who has the lock, how many      *)
(* frames wait, and how old the entries are.                               *)
TurnInv ==
    /\ stage \in {"wait", "deaf", "lock", "queue", "convert"} =>
         pc = "idle" /\ wbuffer = <<>>
    /\ stage = "answer" => pc \in {"idle", "scan", "spin", "crash"}
    /\ stage = "answer" \/ pc \in {"scan", "spin"} =>
         /\ Len(wbuffer) = 1 /\ put >= 1 /\ want = scID_now
         /\ \A i \in DOMAIN rbuffer : rbuffer[i].after < put
    /\ stage = "cycle" =>
         /\ pc \in {"idle", "send", "read", "crash"}
         /\ pc # "send" => wbuffer = <<>>
    /\ Len(wbuffer) <= 1
    /\ stage \in {"convert", "answer"} \/ pc \in {"scan", "spin"} =>
         gil = "main" /\ current = "main"

Lock == INSTANCE InterpreterLock
        WITH holder <- gil, built <- TRUE, over <- ~Alive

(* protocol.cpp:42-62.  Main's turns and the web server's thread keep to   *)
(* the lock that Linker's many threads keep to.                            *)
LockKept == Lock!Spec

(* Where a turn is, and the steps it has before it there at most.          *)
Part ==
    CASE stage = "lock" -> 5 [] stage = "queue" -> 4 [] stage = "convert" -> 3
      [] stage = "answer" -> 2 [] stage = "cycle" -> 1 [] OTHER -> 0
PartAhead ==
    CASE stage = "answer" /\ pc = "scan" -> Len(rbuffer) + 1
      [] stage = "cycle" /\ pc = "send" -> Len(wbuffer) + LeftToSend + 2
      [] stage = "cycle" /\ pc = "read" -> 1
      [] OTHER -> 0

(* main.cpp:173-178.  No step of main's takes a turn back, not even by an  *)
(* entry or a frame more to deal with, and nothing the web server does     *)
(* lengthens it.                                                           *)
TurnAdvances ==
    [][ stage # "wait" /\ stage' # "wait" /\ Alive' /\ pc' # "spin" =>
          IF MainStep \/ TakeLock
          THEN Part' < Part \/ (Part' = Part /\ PartAhead' < PartAhead)
          ELSE UNCHANGED <<Part, PartAhead>> ]_vars

(* main.cpp:173-178.  A turn once begun ends, with three exceptions: the   *)
(* process died; the search for an answer met an entry of another id; or   *)
(* the web server never gives the interpreter lock back.                   *)
TurnEnds ==
    stage = "lock" ~> \/ stage \in {"wait", "dead"}
                      \/ pc \in {"spin", "crash"}
                      \/ [](gil = "web")

(* protocol.cpp:130 lists "1:get online client" among the actions of the   *)
(* sender chip: the frame of a query for clients carries that code.        *)
QueryCarriesItsCode ==
    stage = "answer" /\ action = "c" => Head(wbuffer).content[2] = 1
=============================================================================
