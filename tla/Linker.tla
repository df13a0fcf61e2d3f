------------------------------- MODULE Linker -------------------------------
(***************************************************************************)
(* Class pylinker (pylinker.cpp, pylinker.h), mpipe (mpipe.c) and main's   *)
(* loop around m_read_pipe_pre (main.cpp:152, 167-178): the pipe on which  *)
(* the web server's threads send main its commands, and the interpreter    *)
(* lock they all share with the learner threads, which hand on what they   *)
(* captured through write_IR_detail.  What a turn does with a message is   *)
(* module Protocol's subject, what a learner captures IRReader's.          *)
(*                                                                         *)
(* The one caller of writepipe, callcpp.m_write_dict, raises before it     *)
(* calls it; what is modelled is the function for any caller.              *)
(***************************************************************************)
EXTENDS Integers, Sequences

CONSTANTS Capacity,     \* bytes the pipe holds (65536)
          PipeBuf,      \* the largest write the kernel does in one go (4096)
          BufferSize,   \* m_read_pipe_pre's limit (2048)
          Lengths,      \* bytes of a message, its NUL included
          Handlers,     \* the web server's request threads
          Learners,     \* the threads start_learn_IR may create
          MaxSent       \* bound: calls of writepipe

ASSUME SizeAssumption ==
    /\ Capacity \in Nat \ {0} /\ BufferSize \in Nat \ {0}
    /\ PipeBuf \in Nat /\ PipeBuf <= Capacity
    /\ Lengths \subseteq Nat \ {0} /\ MaxSent \in Nat
ASSUME ThreadAssumption ==
    /\ {"main", "web", "none"} \cap (Handlers \cup Learners) = {}
    /\ Handlers \cap Learners = {}

Threads == {"main", "web"} \cup Handlers \cup Learners

VARIABLES
    at,         \* where each thread is: see Places
    gil,        \* the thread holding the interpreter lock, or "none"
    current,    \* the owner of the current thread state, or "none"
    made,       \* is there an IRProtocol, its constructor done?
    rpy,        \* m_pipe_rpy: "unset", "open", or "failed"
    tfd,        \* callcpp.pipe_tfd: "unset", "pipe", or "garbage"
    pipe,       \* bytes in the pipe: message, position in it, is it the NUL?
    buffer,     \* what m_read_pipe_pre stored in pipe_buffer this time
    sent,       \* calls of writepipe so far, the messages' numbers
    size, done, \* per handler: bytes its call has to write, has written
    no,         \* per handler: its message
    handled,    \* the calls' bytes that main read, turn by turn (ghost)
    astray,     \* has a turn been given bytes no call wrote (ghost)?
    dead        \* has the process ended (Py_FatalError, a wild pointer)?

lockVars == <<at, gil, current>>
startVars == <<made, rpy, tfd>>
writeVars == <<sent, size, done, no>>
turnVars == <<handled, astray>>
vars == <<lockVars, startVars, writeVars, pipe, buffer, turnVars, dead>>

(* In AcquireLock a thread is at "request", then at "queue".  Inside the   *)
(* interpreter it runs ("in"), is in a call that releases the lock ("out"),*)
(* has given the lock up between two bytecodes because another asks, or    *)
(* not had it yet, as a new request thread ("dropped"), or sits in         *)
(* mpipe's "write" or "read".                                              *)
Places(t) ==
    CASE t = "main" -> {"pipe", "request", "queue", "in", "out", "dropped", "sleep", "read"}
      [] t = "web" -> {"request", "queue", "in", "out", "dropped"}
      [] t \in Handlers -> {"in", "out", "dropped", "write", "read"}
      [] t \in Learners -> {"none", "poll", "request", "queue", "in", "out", "dropped", "done"}

Inside(t) == at[t] = "in" \/ (t \in Handlers /\ at[t] \in {"write", "read"})

(* write_IR_detail makes myThreadState current, the web thread's own state. *)
StateOf(t) == IF t \in Learners THEN "web" ELSE t

Bytes == [no : 1..MaxSent, pos : Nat, nul : BOOLEAN]

TypeOK ==
    /\ DOMAIN at = Threads /\ \A t \in Threads : at[t] \in Places(t)
    /\ gil \in Threads \cup {"none"} /\ current \in Threads \cup {"none"}
    /\ made \in BOOLEAN /\ dead \in BOOLEAN /\ astray \in BOOLEAN
    /\ rpy \in {"unset", "open", "failed"} /\ tfd \in {"unset", "pipe", "garbage"}
    /\ pipe \in Seq(Bytes) /\ Len(pipe) <= Capacity
    /\ buffer \in Seq(Bytes) /\ Len(buffer) <= BufferSize
    /\ sent \in 0..MaxSent
    /\ \A h \in Handlers : size[h] \in Nat /\ done[h] \in 0..size[h] /\ no[h] \in 0..sent

(* The constructor has released the lock, its own state still current, and *)
(* created the web server's thread; pipe() comes after.                    *)
Init ==
    /\ at = [t \in Threads |-> CASE t = "main" -> "pipe" [] t = "web" -> "request"
                                 [] t \in Handlers -> "dropped" [] OTHER -> "none"]
    /\ gil = "none" /\ current = "main"
    /\ made = FALSE /\ rpy = "unset" /\ tfd = "unset"
    /\ pipe = <<>> /\ buffer = <<>> /\ handled = <<>> /\ astray = FALSE
    /\ sent = 0 /\ dead = FALSE
    /\ size = [h \in Handlers |-> 0] /\ done = size /\ no = size
-----------------------------------------------------------------------------
Goes(t, place) == at' = [at EXCEPT ![t] = place]

Takes(t) == gil = "none" /\ gil' = t /\ current' = StateOf(t) /\ Goes(t, "in")

Releases(t, place) == gil' = "none" /\ current' = "none" /\ Goes(t, place)

Dies == dead' = TRUE /\ UNCHANGED lockVars

(* PyEval_AcquireLock looks at the current state before it waits. *)
RequestLock(t) ==
    /\ ~dead /\ at[t] = "request"
    /\ IF current = "none" THEN Dies
       ELSE Goes(t, "queue") /\ UNCHANGED <<gil, current, dead>>
    /\ UNCHANGED <<startVars, writeVars, pipe, buffer, turnVars>>

(* Mutant: AcquireLock does not wait for the holder. *)
TakeLockAnyway(t) ==
    /\ ~dead /\ at[t] = "queue"
    /\ gil' = t /\ current' = StateOf(t) /\ Goes(t, "in")
    /\ UNCHANGED <<startVars, writeVars, pipe, buffer, turnVars, dead>>

(* The lock is taken and PyThreadState_Swap makes the thread's state       *)
(* current, whatever was current before.                                   *)
TakeLock(t) ==
    /\ ~dead /\ at[t] = "queue" /\ Takes(t)
    /\ UNCHANGED <<startVars, writeVars, pipe, buffer, turnVars, dead>>

(* pipe(m_pipe_rpy); a failure is only logged. *)
MakePipe ==
    /\ ~dead /\ at["main"] = "pipe"
    /\ rpy' \in {"open", "failed"}
    /\ Goes("main", "request")
    /\ UNCHANGED <<gil, current, made, tfd, writeVars, pipe, buffer, turnVars, dead>>

(* transmit's constructor throws, before IRProtocol's asks for the lock;   *)
(* main catches it and goes into its loop without an IRProtocol.           *)
NoSerial ==
    /\ ~dead /\ at["main"] = "request" /\ ~made
    /\ Goes("main", "sleep")
    /\ UNCHANGED <<gil, current, startVars, writeVars, pipe, buffer, turnVars, dead>>

(* IRProtocol's constructor releases the lock and leaves its state current. *)
Constructed ==
    /\ ~dead /\ at["main"] = "in" /\ ~made
    /\ made' = TRUE
    /\ gil' = "none" /\ Goes("main", "sleep")
    /\ UNCHANGED <<current, rpy, tfd, writeVars, pipe, buffer, turnVars, dead>>

(* It looks transjson up in pythonMod, which nothing has set: what that    *)
(* pointer holds decides whether the process survives.                     *)
ConstructorFault ==
    /\ ~dead /\ at["main"] = "in" /\ ~made
    /\ Dies
    /\ UNCHANGED <<startVars, writeVars, pipe, buffer, turnVars>>

(* sleep(1) ends and m_read_pipe_pre begins.  pipe_buffer keeps what it had *)
(* behind what is stored now; but a NUL ends the new piece, or it fills the *)
(* buffer, so with a pipe nothing older is ever looked at.                  *)
Wake ==
    /\ ~dead /\ at["main"] = "sleep" /\ Goes("main", "read")
    /\ buffer' = <<>>
    /\ UNCHANGED <<gil, current, startVars, writeVars, pipe, turnVars, dead>>

(* Without an IRProtocol the loop starts again, the piece dropped. *)
AfterRead == IF made THEN "request" ELSE "sleep"

MainReads(ends) ==
    /\ Goes("main", IF ends THEN AfterRead ELSE "read")
    /\ handled' = IF ends /\ ~made THEN Append(handled, buffer') ELSE handled
    /\ UNCHANGED <<gil, current, startVars, writeVars, astray, dead>>

(* Mutant: the byte that would not fit any more is read and lost. *)
ReadByteDropped ==
    /\ ~dead /\ at["main"] = "read" /\ rpy = "open" /\ pipe # <<>>
    /\ pipe' = Tail(pipe)
    /\ buffer' = IF Len(buffer) = BufferSize THEN buffer ELSE Append(buffer, Head(pipe))
    /\ MainReads(Head(pipe).nul \/ Len(buffer) = BufferSize)

(* Mutant: only a NUL ends the loop. *)
ReadByteUnbounded ==
    /\ ~dead /\ at["main"] = "read" /\ rpy = "open" /\ pipe # <<>>
    /\ pipe' = Tail(pipe)
    /\ buffer' = Append(buffer, Head(pipe))
    /\ MainReads(Head(pipe).nul)

(* Mutant: the loop goes on until the pipe is empty or the buffer full. *)
ReadByteGreedy ==
    /\ ~dead /\ at["main"] = "read" /\ rpy = "open" /\ pipe # <<>>
    /\ pipe' = Tail(pipe)
    /\ buffer' = Append(buffer, Head(pipe))
    /\ MainReads(Len(pipe) = 1 \/ Len(buffer') = BufferSize)

(* One turn of m_read_pipe_pre's loop; 0 or an overflow ends it, and main  *)
(* does not look at the result.                                            *)
ReadByte ==
    /\ ~dead /\ at["main"] = "read" /\ rpy = "open" /\ pipe # <<>>
    /\ pipe' = Tail(pipe)
    /\ buffer' = Append(buffer, Head(pipe))
    /\ MainReads(Head(pipe).nul \/ Len(buffer') = BufferSize)

(* Without a pipe main reads from whatever m_pipe_rpy[0] names: that fails, *)
(* gives somebody else's bytes, or never ends.  No call's byte is read, and *)
(* the turn goes on with what the buffer holds.                             *)
ReadFails ==
    /\ ~dead /\ at["main"] = "read" /\ rpy = "failed" /\ Goes("main", AfterRead)
    /\ UNCHANGED <<gil, current, startVars, writeVars, pipe, buffer, turnVars, dead>>

(* Does a NUL of the calls' end what do_cycle takes for a string?  If not  *)
(* it goes on with bytes never written, or behind the buffer.              *)
Terminated == buffer # <<>> /\ buffer[Len(buffer)].nul

TurnEnds(left) ==
    /\ ~dead /\ at["main"] = "in" /\ made
    /\ handled' = (IF buffer = <<>> THEN handled ELSE Append(handled, buffer))
    /\ astray' = (astray \/ ~Terminated)
    /\ gil' = "none" /\ current' = left
    /\ \/ Goes("main", "sleep")
       \/ \E l \in Learners : at[l] = "none" /\ at' = [at EXCEPT !["main"] = "sleep", ![l] = "poll"]
    /\ UNCHANGED <<startVars, writeVars, pipe, buffer, dead>>

(* Mutant: the state stays current, as it does in the constructor. *)
EndTurnUnswapped == TurnEnds(current)

(* IRProtocol::do_cycle has done what pipe_buffer asks for, a learn        *)
(* perhaps, which makes a thread, and gives the lock back, nothing current.*)
EndTurn == TurnEnds("none")

(* Or it throws, and nobody catches it, or reads where there is no memory. *)
TurnFault ==
    /\ ~dead /\ at["main"] = "in" /\ made
    /\ Dies
    /\ UNCHANGED <<startVars, writeVars, pipe, buffer, turnVars>>
-----------------------------------------------------------------------------
(* The capture is complete and the callback enters write_IR_detail ... *)
CaptureDone(l) ==
    /\ ~dead /\ at[l] = "poll" /\ Goes(l, "request")
    /\ UNCHANGED <<gil, current, startVars, writeVars, pipe, buffer, turnVars, dead>>

(* ... which returns, PyArg_Parse having put its complaint about the       *)
(* missing result into the web thread's state.                             *)
EndDetail(l) ==
    /\ ~dead /\ at[l] = "in" /\ Releases(l, "done")
    /\ UNCHANGED <<startVars, writeVars, pipe, buffer, turnVars, dead>>

(* run_thread reads m_pipe_rpy[1], whatever it holds by now, and hands it  *)
(* to startWebServer; only then requests are served.                       *)
StartWeb ==
    /\ ~dead /\ at["web"] = "in" /\ tfd = "unset"
    /\ tfd' = IF rpy = "open" THEN "pipe" ELSE "garbage"
    /\ UNCHANGED <<lockVars, made, rpy, writeVars, pipe, buffer, turnVars, dead>>

(* The module or its function is not found, and a null pointer passed on. *)
WebFault ==
    /\ ~dead /\ at["web"] = "in" /\ tfd = "unset"
    /\ Dies
    /\ UNCHANGED <<startVars, writeVars, pipe, buffer, turnVars>>

(* A thread gives the lock up, around a call or because another asks ... *)
Leave(t) ==
    /\ ~dead /\ at[t] = "in"
    /\ \E place \in {"out", "dropped"} : Releases(t, place)
    /\ UNCHANGED <<startVars, writeVars, pipe, buffer, turnVars, dead>>

(* ... and has it back: after a call without a look at the current state,  *)
Enter(t) ==
    /\ ~dead /\ at[t] = "out" /\ Takes(t)
    /\ UNCHANGED <<startVars, writeVars, pipe, buffer, turnVars, dead>>

(* otherwise only if there is none ("orphan tstate").                      *)
Resume(t) ==
    /\ ~dead /\ at[t] = "dropped" /\ gil = "none"
    /\ t \in Handlers => tfd # "unset"
    /\ IF current # "none" THEN Dies ELSE Takes(t) /\ UNCHANGED dead
    /\ UNCHANGED <<startVars, writeVars, pipe, buffer, turnVars>>
-----------------------------------------------------------------------------
(* py_writepipe calls write with the lock in its hand. *)
WritePipe(h) ==
    /\ ~dead /\ at[h] = "in" /\ sent < MaxSent
    /\ sent' = sent + 1
    /\ \E length \in Lengths : size' = [size EXCEPT ![h] = length]
    /\ done' = [done EXCEPT ![h] = 0]
    /\ no' = [no EXCEPT ![h] = sent + 1]
    /\ Goes(h, "write")
    /\ UNCHANGED <<gil, current, startVars, pipe, buffer, turnVars, dead>>

(* A write up to PipeBuf goes in as a whole, a longer one as room comes. *)
Portion(h) == IF size[h] <= PipeBuf THEN size[h] ELSE 1

Room(h) == Len(pipe) + Portion(h) <= Capacity

WriteSome(h) ==
    /\ ~dead /\ at[h] = "write" /\ tfd = "pipe" /\ done[h] < size[h] /\ Room(h)
    /\ pipe' = pipe \o [i \in 1..Portion(h) |->
         [no |-> no[h], pos |-> done[h] + i, nul |-> done[h] + i = size[h]]]
    /\ done' = [done EXCEPT ![h] = @ + Portion(h)]
    /\ UNCHANGED <<lockVars, startVars, sent, size, no, buffer, turnVars, dead>>

(* Mutant: it is asked for one byte more than there are. *)
EndWriteLate(h) ==
    /\ ~dead /\ at[h] = "write" /\ tfd = "pipe" /\ done[h] > size[h]
    /\ Goes(h, "in")
    /\ UNCHANGED <<gil, current, startVars, writeVars, pipe, buffer, turnVars, dead>>

(* write returns. *)
EndWrite(h) ==
    /\ ~dead /\ at[h] = "write" /\ tfd = "pipe" /\ done[h] = size[h]
    /\ Goes(h, "in")
    /\ UNCHANGED <<gil, current, startVars, writeVars, pipe, buffer, turnVars, dead>>

(* A write to whatever the ints named before pipe set them, taken not to   *)
(* be the pipe itself: it fails, goes elsewhere, or never returns.         *)
EndForeignWrite(h) ==
    /\ ~dead /\ at[h] = "write" /\ tfd = "garbage"
    /\ Goes(h, "in")
    /\ UNCHANGED <<gil, current, startVars, writeVars, pipe, buffer, turnVars, dead>>

(* Mutant: the lock is released around read. *)
ReadPipeUnlocked(h) ==
    /\ ~dead /\ at[h] = "in" /\ Releases(h, "read")
    /\ UNCHANGED <<startVars, writeVars, pipe, buffer, turnVars, dead>>

(* get_IR_learn_proc.cgi reads, lock in hand, from the descriptor that     *)
(* m_pipe_tpy[0], never set, happens to name ...                           *)
ReadPipe(h) ==
    /\ ~dead /\ at[h] = "in" /\ Goes(h, "read")
    /\ UNCHANGED <<gil, current, startVars, writeVars, pipe, buffer, turnVars, dead>>

(* ... and comes back, if ever, with an error, a line, or a full buffer. *)
EndReadPipe(h) ==
    /\ ~dead /\ at[h] = "read" /\ Goes(h, "in")
    /\ UNCHANGED <<gil, current, startVars, writeVars, pipe, buffer, turnVars, dead>>
-----------------------------------------------------------------------------
MainStep ==
    \/ RequestLock("main") \/ MakePipe \/ NoSerial \/ Constructed \/ ConstructorFault
    \/ Wake \/ ReadByte \/ EndTurn \/ TurnFault

WriteStep(h) == WriteSome(h) \/ EndWrite(h)

(* The process has ended. *)
Ended == dead /\ UNCHANGED vars

(* Neither main nor h can move: see BlockedForGood. *)
Blocked(h) ==
    /\ at["main"] \in {"queue", "out", "dropped"}
    /\ at[h] = "write" /\ tfd = "pipe" /\ done[h] # size[h] /\ ~Room(h)
Stopped == (\E h \in Handlers : Blocked(h)) /\ UNCHANGED vars

Next ==
    \/ MainStep \/ ReadFails \/ TakeLock("main")
    \/ RequestLock("web") \/ TakeLock("web") \/ StartWeb \/ WebFault
    \/ \E t \in Threads : Leave(t) \/ Enter(t) \/ Resume(t)
    \/ \E l \in Learners : CaptureDone(l) \/ RequestLock(l) \/ TakeLock(l) \/ EndDetail(l)
    \/ \E h \in Handlers : WritePipe(h) \/ WriteStep(h) \/ EndForeignWrite(h)
    \/ \E h \in Handlers : ReadPipe(h) \/ EndReadPipe(h)
    \/ Ended \/ Stopped

(* Main runs unless it waits, and so does a write that finds room.  No     *)
(* fairness for what a descriptor that is not the pipe's answers, if ever: *)
(* EndReadPipe, ReadFails, EndForeignWrite.                                *)
Spec ==
    /\ Init /\ [][Next]_vars
    /\ WF_vars(MainStep) /\ \A h \in Handlers : WF_vars(WriteStep(h))
-----------------------------------------------------------------------------
(* The byte main read last. *)
LastRead ==
    IF buffer # <<>> THEN buffer[Len(buffer)]
    ELSE IF handled # <<>> THEN handled[Len(handled)][Len(handled[Len(handled)])]
    ELSE [no |-> 0, pos |-> 0, nul |-> TRUE]

Pipe == INSTANCE MessagePipe WITH queued <- sent, last <- LastRead

(* mpipe.c:22, pylinker.cpp:120-135.  What main reads is, byte by byte,    *)
(* what the calls of writepipe were given: each byte once, in the calls'   *)
(* order, through every turn, cut and thread in between.                   *)
PipeDelivers == Pipe!Spec

(* Did a message too long for the buffer leave a piece without a NUL? *)
Torn == \E k \in DOMAIN handled : ~handled[k][Len(handled[k])].nul

(* pylinker.cpp:120-135, main.cpp:175, protocol.cpp:45.  Each turn takes   *)
(* up the stream where the one before left it and ends with a message or,  *)
(* in one too long for the buffer, after BufferSize bytes: no turn sees    *)
(* two messages, a message that fits is handled whole and once, a longer   *)
(* one in pieces, each taken for a command.  Bytes that no call wrote are  *)
(* taken for a command then, and when there is no pipe, but never else.    *)
TurnsTile ==
    /\ \A k \in DOMAIN handled :
         LET piece == handled[k]
             before == handled[k - 1]
         IN  /\ \A i \in 1..(Len(piece) - 1) :
                  ~piece[i].nul /\ Pipe!Follows(piece[i], piece[i + 1])
             /\ piece[Len(piece)].nul \/ Len(piece) = BufferSize
             /\ Pipe!Follows(IF k = 1 THEN Pipe!Nothing ELSE before[Len(before)], piece[1])
    /\ made /\ Torn => astray
    /\ astray => Torn \/ rpy = "failed"

Lock == INSTANCE InterpreterLock
        WITH holder <- IF gil = "none" THEN "none" ELSE StateOf(gil),
             built <- made, over <- dead

(* pylinker.cpp:25, 108, 116, protocol.cpp:29, 43-62.  With main, the web  *)
(* server's threads and the learners, who use the web thread's state, all  *)
(* at it, the lock is taken only when it is free, given up only by its     *)
(* holder, and whoever has it has its own state current.                   *)
LockKept == Lock!Spec

(* pylinker.cpp:25, 108, 116, protocol.cpp:29, 61.  Whoever holds the lock *)
(* has its state current, a learner the web thread's; while nobody holds   *)
(* it none is, except what a constructor left until the first turn ends.   *)
SwapsMatch ==
    IF gil = "none" THEN current = "none" \/ (current = "main" /\ handled = <<>>)
    ELSE current = StateOf(gil)

(* pylinker.cpp:107, protocol.cpp:42.  Once a command was handled, main or *)
(* a learner that asks for the lock survives only if another thread is     *)
(* inside the interpreter at that moment.                                  *)
AsksInCompany ==
    [][ \A t \in {"main", "web"} \cup Learners :
          at[t] = "request" /\ at'[t] = "queue" /\ handled # <<>> => gil # "none" ]_vars

(* protocol.cpp:29, pylinker.cpp:107, protocol.cpp:42.  Outside main's own *)
(* turns and the two start-ups the process ends at the lock only: somebody *)
(* asks for it while no thread is inside the interpreter, or one that was  *)
(* made to drop it comes back between IRProtocol's constructor, which      *)
(* leaves its state current, and the first turn.                           *)
DeathsExplained ==
    [][ ~dead /\ dead' =>
          \/ at["main"] = "in"
          \/ at["web"] = "in" /\ tfd = "unset"
          \/ gil = "none" /\ current = "none" /\ \E t \in Threads : at[t] = "request"
          \/ /\ gil = "none" /\ current = "main" /\ made /\ handled = <<>>
             /\ \E t \in Threads : at[t] = "dropped" ]_vars

(* mpipe.c:34, pylinker.cpp:49.  As long as a handler sits in readpipe, no *)
(* other thread gets into the interpreter: no command is handled and none  *)
(* is sent.                                                                *)
ReadStopsOthers ==
    [][ \A h \in Handlers :
          at[h] = "read" /\ at'[h] = "read" =>
              UNCHANGED <<gil, sent>> /\ (made => UNCHANGED turnVars) ]_vars

(* mpipe.c:22 against protocol.cpp:42.  A handler that waits for room in   *)
(* the pipe keeps the lock main waits for before it reads again: neither   *)
(* ever goes on, and nobody else reads, writes or gets the lock.           *)
BlockedForGood ==
    [][ \A h \in Handlers : Blocked(h) =>
          Blocked(h)' /\ UNCHANGED <<gil, current, writeVars, pipe, buffer, turnVars, dead>> ]_vars

(* mpipe.c:22 with pylinker.cpp:120-135.  Nothing else stops a writer: one *)
(* that has no room and is not so blocked finds main on its way to the     *)
(* next byte, in no need of the lock.                                      *)
OnlyBlockedStops ==
    \A h \in Handlers :
        at[h] = "write" /\ ~dead =>
            \/ Blocked(h) \/ tfd = "garbage" \/ done[h] = size[h] \/ Room(h)
            \/ at["main"] \in {"request", "sleep"} \/ (at["main"] = "read" /\ rpy = "open" /\ pipe # <<>>)

(* The steps that main, without the lock, and a writer h have before them  *)
(* at most: a byte written is read later, and read it takes main three     *)
(* steps at most to the next.                                              *)
MainAhead ==
    CASE at["main"] = "pipe" -> 3
      [] at["main"] = "request" -> 2
      [] at["main"] = "sleep" -> 1
      [] OTHER -> 0
WriteAhead(h) == 4 * (size[h] - done[h]) + 3 * Len(pipe) + MainAhead + 1

(* mpipe.c:22 with pylinker.cpp:120-135.  A call of writepipe on the pipe  *)
(* takes no more steps, main's included, than a few for each byte of its   *)
(* message and in the pipe: nobody else prolongs it.                       *)
WriteBounded ==
    [][ \A h \in Handlers :
          at[h] = "write" /\ at'[h] = "write" /\ tfd = "pipe" /\ ~dead' =>
              IF WriteStep(h) \/ MainStep THEN WriteAhead(h)' < WriteAhead(h)
              ELSE WriteAhead(h)' = WriteAhead(h) ]_vars

(* mpipe.c:22.  Short of that, of a descriptor that is not the pipe's and  *)
(* of the end of the process, a write returns.                             *)
WriteReturns ==
    \A h \in Handlers :
        at[h] = "write" ~> (at[h] # "write" \/ Blocked(h) \/ tfd = "garbage" \/ dead)
=============================================================================
