# SmartIR: TLA+ models, checks and proofs

SmartIR is a daemon for a Raspberry Pi that learns infrared signals from a
receiver on a GPIO pin and sends them through a UART to sender chips.  A C++
program (`src/src`) embeds a Python interpreter that runs a web server
(`src/python`); the web server hands the program its commands through a pipe.

This directory models the program's own logic in TLA+, checks it with TLC and
proves theorems about it with TLAPS.  Every definition is translated from the
source; `PROJECT.json` maps each to its lines.  Definitions named `...Kept`,
`...Late`, `...Stuck` and the like, each marked "Mutant" in its comment,
are not part of any specification: they are what a definition would be with a
plausible mistake, and show that the properties notice it.

## Parts of the system

| Part | Source | State it keeps | Operations | Modules |
|---|---|---|---|---|
| UART transmission | `transmit.cpp` | queue `wbuffer`, entries read `rbuffer` | `put_in`, `do_cycle`, `Read_rbuffer`, `verify_uart_mesg` | `Frame`, `Transmit`, `OrderedLine` |
| Command protocol | `protocol.cpp` | `scID_now`, thread state | `do_cycle`, `action_switch`, `send_toSender`, `read_fromSender` | `Protocol`, `InterpreterLock` |
| Python link | `pylinker.cpp`, `mpipe.c` | two pipes, thread states | constructor, `run_thread`, `m_read_pipe_pre`, `py_writepipe`, `py_readpipe`, `write_IR_detail` | `Linker`, `MessagePipe`, `InterpreterLock` |
| IR learning | `IRReader.cpp` | `IR_buf`, `now_IRID`, `learn_count`, descriptors, the pin | `start_learn_IR`, `gpio_*`, `wait_for_IR`, `finish_learn_callback` | `IRReader`, `LearnCalls`, `Sampler`, `Gpio` |
| Directories, logs | `mfilesystem.cpp`, `debug.cpp` | `FILENAMES`, the log directory, stdout and stderr | `init_user_dir`, `update_datadir`, `check_logs`, `redirect_out_to_log` | `Files` |
| Main | `main.cpp` | arguments, the loop | start-up, turn | `Files`, `Linker`, `Protocol` |
| Accounts, requests | `python/main.py`, `dbman.py`, `myjwt.py` | LevelDB databases, cookies | start, login, dashboard, listings, password, renewal, log-out, a learner's `write_IR_detail` | `Accounts` |
| Commands as JSON | `callcpp.py`, `jsontransfer.py` | packet number, queue | `m_write_dict`, `transjson` | none, see below |
| Pages, templates, build, vendored header | `html`, `Makefile`, `wiringPi.h` | none | | none |

How they interact.  Main's loop sleeps, reads one message from the pipe,
takes the interpreter lock, has Python convert the message, acts on it
(`action_switch`), gives the lock back, and lets `transmit` send and read.  The
web server's threads run in the same process: they share the interpreter lock
with main and write to the pipe main reads.  A learn command starts a detached
thread that shares `IRReader`'s members with main and all other such threads,
without a lock, and at its end calls back into Python.

What is hard, and where it is modelled:

- concurrency: the interpreter lock with its "current thread state" (`Protocol`,
  `Linker`), learner threads over shared buffers (`IRReader`), request threads
  over exclusive database handles (`Accounts`);
- ordering: answers looked for before the command is sent (`Protocol`), the pipe
  created after the thread that is told about it (`Linker`);
- failure: crashes and power losses between two puts (`Accounts`), exceptions
  that leave handles open (`Accounts`), a failed `open`, `pipe` or `freopen`
  nobody looks at (`Gpio`, `Linker`, `Files`);
- limits: sequence ids that wrap (`Protocol`), a pipe and a buffer that are full
  (`Linker`), char arithmetic (`Frame`), the sampling loop's counters (`Sampler`),
  descriptors nobody closes (`Gpio`).

## Modules

**Frame** – the bytes `put_in` makes of a content and what `verify_uart_mesg`
says of them.  `SCHAR_MAX` (127) and `CharSigned` are parameters, so checksum
wrap is covered at small width; the run has signed chars, the theorem both kinds.
Nothing calls `verify_uart_mesg`: what is checked is what it would say.

**Transmit** – the class: `put_in`, `do_cycle` one byte at a time
(`BeginCycle`, `SendByte`, `EraseFrame`, `EndSend`, `ReadPort`) and
`Read_rbuffer` one entry at a time (`TakeReply`, `SpinOnForeign`, `EndRead`).
`tcflush` may discard a byte just written, so `SendByte` shows the byte on the
line or does not.  `zigRBuffer.length` is never set: `TakeReply` may go well or
end the process.  So may `ReadPort`, as `read`'s result, -1 and 1024 included, is
the index of a 0 written behind what was read.  `put`, `last`, and the fields
`no`, `content`, `after` are history for the properties.

**OrderedLine** – what a line in order promises: only `Accept` and `Emit`, and
emitted <<frame, byte>> pairs only grow.  `Transmit` implements it
(`LineInOrder`, a refinement through `INSTANCE ... WITH`).

**Protocol** – EXTENDS `Transmit` and composes it with main's turn and the
interpreter lock.  `stage` is where main is.  `PyEval_AcquireLock` ends the
process when no thread state is current (`RequestLock`), which is the case
whenever the web server sits in a blocking call.  `Fault` collects what the
build may make of undefined behaviour in `do_cycle`, `Proc_PyDict` and
`send_toSender`, and the uncaught exception for "conflicted!".  When there is no
port to open, the constructor throws and main's loop goes on without an
`IRProtocol`, dropping every message (`DropMessage`, stage "deaf").  The web
server is one thread that takes and yields the lock, or keeps it; other threads
may end the process at any time (`OthersEnd`); `ReadMessage` is any message.  All
are looked at closely in `Linker`.

**Linker** – start-up, the lock and the pipe: main, the web server's first
thread, request threads and learner threads.  A thread has a place (`at`), and
`current` is the interpreter's current thread state beside the lock itself: the
two ways CPython has of taking the lock back (`Enter`, after a blocking call, and
`Resume`, after a request to drop it) differ in what they make of a state that
is not theirs.  Each byte read (`ReadByte`) and each portion written
(`WriteSome`) is a step.  `write` and `readpipe`'s read run with the lock held.
The thread is created before `pipe` is called, so `StartWeb` may pass on a
descriptor that is none of the pipe's ("garbage", taken not to name the pipe by
accident); what is written there goes elsewhere or never returns
(`EndForeignWrite`), and what main reads without a pipe comes from elsewhere
(`ReadFails`).  Without an `IRProtocol` (`NoSerial`) main reads and drops.  A
turn takes its buffer for a string: `astray` records that no NUL of the calls'
ended it, as after a piece of the buffer's full size or an error, so that the
command was made of other bytes.  That, and an exception nobody catches, may end
the process (`TurnFault`; `ConstructorFault` and `WebFault` in the start-ups).  A
command that was handled may start a learner, which at the end of its capture
asks for the lock with the web thread's state (`CaptureDone`, `RequestLock`,
`TakeLock`, `EndDetail`).

**MessagePipe** – what the command pipe promises: the bytes of the calls of
`writepipe`, each once, in order, no message inside another.  `Linker` implements
it (`PipeDelivers`) with the byte main read last as the abstract output.

**InterpreterLock** – what the interpreter's lock is to threads: whoever takes it
finds it free and makes its own thread state the current one; nobody but the
holder gives it up or touches what is current; giving it up leaves no state
current, but for the one `IRProtocol`'s constructor leaves.  `Linker`'s many
threads implement it and so do `Protocol`'s two (`LockKept` in each).  In `Linker`
the abstract holder is the thread state the lock was taken with, which is the web
thread's for a learner too.

**IRReader** – main's `start_learn_IR` and the threads it starts, with each
access to a byte of `IR_buf` or to `now_IRID` a step: clearing, copying,
measuring the string and making it go one byte at a time, upwards, and the two
arguments of `write_IR_detail` come in either order.  Inside `write_IR_detail` a
learner may wait for ever or end the process (`CallDetail`, `EndDetail`, `Die`);
when it does is `Linker`'s subject.  The module ends at that call, because behind
it nothing is ever stored: `dbman.py:163` raises (`Accounts`).

**LearnCalls** – what learning promises whoever asks: a learn passes at most one
signal on, under the IRID it was asked for or a later one, made of bytes that were
heard at their places.  It does not say whose bytes they are, as the code does not
keep that, nor what becomes of them.  `IRReader` implements it
(`CallsAsPromised`).

**Sampler** – `wait_for_IR` between `poll` and the copy: interference check,
leader and the loop that makes bytes of samples.  A byte is the set of its one
bits.  The receiver's levels are arbitrary.

**Gpio** – the pin and the descriptors: the three files of sysfs
`start_learn_IR` opens, writes and closes, and the fourth that each learner opens
and keeps.  Any open or write may fail, whatever the state of pin and table; an
open certainly does without a descriptor or an exported pin.  The rest of the process opens and
closes descriptors too (`Others`).

**Files** – start-up to the first log line: arguments, the map of directories
with the NUL that `update_pathname` appends, log rotation and redirection, over
several starts.  A path is a short sequence of tokens with "/" and "NUL" among
them; `CString` and `Named` say what the C library makes of one.

**Accounts** – the server's start, its handlers over `users.db`, `priv.db` and
`IRs.db` and the learners' call into `dbman`, with tokens, crash, power loss and
restart.  Time is an integer; the server's zone is an offset.  An exception
leaves its database open until the traceback is collected (`Raise`, `Collect`).

`MC...` modules give the constants their values; `Sampler` and `Gpio` have
plain numbers for constants and need none.  `...Proofs` modules hold the
theorems.

Facts about the program as it stands that shape the models.  As built, no
command reaches `action_switch`: `callcpp.m_write_dict` raises before anything is
written, and `jsontransfer` uses names it never imports.  Each class is
therefore modelled at its own interface, for any call its callers' text allows.
`m_pipe_tpy` is never made a pipe.  Nothing calls `create_user`, so there is one
account.

## Runs

| Run | Instance | What it shows |
|---|---|---|
| `transmit` | accepted frames ≤ 3, entries ≤ 2, three contents | `LineInOrder`: no byte twice, none early; `CycleDrains`: the queue empties; `ForeignEntryHangs`: one foreign entry and a search never returns; `VerifyTakesLowSums`: `verify_uart_mesg` takes half of its own sender's frames with signed chars and none with unsigned ones |
| `transmit_frame` | same | violated: the frame is not what the comment above `put_in`'s buffer says |
| `protocol` | frames ≤ 5 with ids of two bytes of two values, so that ids wrap at 3 | ids have no gap and never 0; the answer waited for after a wrap is one no frame carries; lock, queue and search follow the turn; answers predate their command; a turn ends unless the process died or spins, or the web server never gives the lock back |
| `protocol_query` | same | violated: a query goes out with a signal's action code |
| `irreader` | two learns, two bytes, `--learn` 1 and 2 | a learn alone passes on its own capture under its own IRID; overlapping ones mix captures byte by byte and may come under a later IRID, never an earlier one, once each (`CallsAsPromised`); with `--learn` 2 nothing is passed on; with 1 a capture reaches `write_IR_detail`, unless the process ends or the IRID is the one that means none |
| `irreader_mix` | two records, `--learn` 1 | violated: signal and IRID can be of different learns |
| `sampler` | 2 bytes of 4 bits, all level sequences | a byte keeps the run of ones at the end of its samples, and the loop ends with the buffer filled exactly |
| `gpio` | two descriptors, four learns | no more learners capture than there are descriptors; once learners have them all, nobody gets one again; every learn comes to its poll, whatever fails |
| `linker` | two request threads, two learners, two messages of 1, 3 or 5 bytes, capacity 4, atomic up to 2, buffer 3 | the byte stream reaches main in order and once; turns tile it, and take other bytes for a command after a piece too long, or without a pipe, and never else; the lock and the current thread state are the abstract lock's (`LockKept`); who asks for the lock and survives was not alone, and outside turns and start-ups the process dies at the lock only (`DeathsExplained`); a handler in `readpipe` stops all others; the full pipe is a deadlock for good, and short of it a write returns |
| `files` | two starts, three arguments, two logs and another file of every size up to 3 | arguments as given; logs are never touched; a daemon's output is closed |
| `files_rotate` | same | violated: a log over the limit stays |
| `accounts` | two clients, two passwords, three zones, clock to 2 | half an account stays half; handles are closed or a traceback's; no listing is answered but that of nobody's privileges; a token is given only for the password and privilege as stored at that moment, whatever happened since the comparison, or renewed in its window with the server at UTC |

Why the bounds are enough.  *Frames and ids*: three frames give one being sent,
one behind it and one accepted later; five cover one and a half rounds of ids at
the width chosen.  *Learners*: all races are between two threads and main; a
third adds no new pair.  *Descriptors*: two are one that a learner keeps and one
that others still use; four learns are two that fill the table, one that gets
none and one after it.  *Pipe*: the lengths are one that fits everything, one
above the atomic size and one above pipe and buffer.  *Sampler*: two bytes show
what one leaves to the next.  *Arguments*: three are a `--learn`, its value and
what follows, which itself may be an option.  *Accounts*: handles conflict
between two clients; a life of 2 and a window of 1 show a token fresh, due and
expired.  The proofs lift the bounds for the properties they cover.

Deadlock is checked in all runs but `gpio`.  Where the program stops for good —
spinning, ended, blocked for good — or a bound ends a behaviour, an explicit
stuttering action (`Stuck`, `Halted`, `Ended`, `Stopped`, `Rest`, `Finished`) says
so.  `Gpio` may really stop: when learners hold every descriptor, or wait for
ever in `poll` with none, and the bounded number of learns is used up, nothing
moves any more, and that is what its properties are about.

## Fairness

- `Transmit`: `do_cycle` and `Read_rbuffer` are plain loops over an `O_NDELAY`
  descriptor: weak fairness on their steps.
- `Protocol`: main runs unless it waits, and CPython lets a thread that asked for
  the lock have it before the one who dropped it: weak fairness on main's steps,
  strong fairness on `TakeLock`.  None on the web thread's yield, because
  `mpipe.c:22` and `34` block with the lock held (`Linker`'s `BlockedForGood` and
  `ReadStopsOthers`): that it keeps the lock for good is one of `TurnEnds`'s
  exceptions.
- `Linker`: weak fairness on main's steps (its pipe read blocks only when
  there is no byte) and on a write that has room.  None on the lock, and none on
  what a descriptor that is not the pipe's answers, if ever: `EndReadPipe`,
  `ReadFails`, `EndForeignWrite`.
- `IRReader`: weak fairness on main and on a learner from its sample up to its call
  of `write_IR_detail`: until there nobody waits for anybody.  None on the sample,
  as nobody promises a signal, and none on the return of the call, which needs the
  lock.
- `Gpio`: weak fairness on main's steps and on a learner's `open`, which wait for
  nobody; none on `poll`.
- `Sampler`, `Files` and `Accounts` have safety properties only.

## Theorems

For every value of the constants, from the `ASSUME`s in the modules (TLC
evaluates them in the runs):

- `TransmitProofs`: types; `QueueIsTail`, which is inductive with the types:
  the queue is the gap-free tail of the frames accepted and the line is behind the
  byte to be written next; from it `LineInOrder`, each step a step of `OrderedLine`
  or a stutter; `ForeignEntryHangs`; and `CycleAdvances`: with every byte fewer
  are left of the frame, with every frame fewer in the queue.
  `VerifyTakesLowSums` needs that the sum of a frame's bytes is a natural number.
  The library's sum is a recursive function on the subsets of the indices; that it
  exists and what its values are is shown by induction on the subsets' size, with
  *sets* of numbers (a set with 0 and every successor holds all, `NatInduct`), as
  the provers take no induction rule over predicates.
- `ProtocolProofs`: the invariant is types, `QueueIsTail`, `TurnInv`, `ScIDCycle`
  and what follows.  `TurnInv` is needed because what `transmit` is doing, who has
  the lock and how many frames wait all depend on where main is.  From it
  `OneFrameAtATime`, `SearchHoldsLock`, `ReplyIdNamesFrame`,
  `AnswersPredateCommand`, the line again, `LockKept` (each step one of
  `InterpreterLock` or a stutter), and `TurnAdvances`.
- `IRReaderProofs`: `ManyNeverFinish`, by an invariant that keeps every buffer but
  the first zero except while it is cleared, which changes nothing;
  `NeverEarlierRequest`: `now_IRID` is that of the learn asked for last or, until it
  is assigned, the one before, and a thread is created after the assignment;
  the types; `NoInventedBytes`, by an invariant (`BytesInv`) that says of every
  byte anywhere — in the buffer, in a copy, in a pending call — that it is zero or
  was sampled at its place; `AlonePassesOwn`: `AloneInv` follows a learn from
  its start and says at each of its points what the buffer holds as long as no
  other learn overlaps it.  `CallsAsPromised` combines these: a learner's one call
  is a `PassOn`, a sample is a `Hear`, `StartLearn` an `Ask`, all else a stutter.
  `EndedHasCalled` and `NobodySetBack` are the safety half of `CaptureIsPassedOn`.
- `SamplerProofs`: types and `StoresTrailingRun`.  The invariant counts (the
  samples taken are the bytes done times their bits plus the bits of the byte in
  hand), and says that bit b of the byte in hand is set iff
  all samples from b's on were ones.
- `GpioProofs`: types, `CapturesLimited`, `StarvedForGood`.  The invariant is
  that who captured has a descriptor and who has one never loses it; the rest is
  the cardinality of a set that only grows.  And for `LearnPolls`: `NoneForgotten`
  and `LearnAdvances`.
- `LinkerProofs`: `LockInv` (who runs Python, writes or reads is the lock's holder)
  gives `BlockedForGood` and `ReadStopsOthers`; `SwapInv` adds the thread states and
  what is so before the first turn (`FirstInv`: no command is handled without an
  `IRProtocol`, and what `pylinker`'s constructor left current stays so only until
  the web thread first has the lock), and gives `SwapsMatch`,
  `AsksInCompany`, `DeathsExplained` and `LockKept`; `StreamInv` follows each
  message's bytes through writer, pipe, buffer and turns.  With the lock held
  throughout `write` there is one writer, the stream ends where it is, and so the
  next portion continues it: `StreamIntact`, `TurnsTile`, `PipeDelivers` (each step
  of `Linker` an `Accept`, a `Deliver` or a stutter) and the types follow.
  `OnlyBlockedStops` says that the deadlock is the only thing that stops a writer,
  and `WriteBounded` counts the steps it needs.
- `FilesProofs`: `PathsInv` says of every directory in the map that it is its own
  path, a "/" and a NUL; two lemmas on `CString` say that a path ends before its
  first NUL and is whole without one.  From these: types, `DaemonSilent`,
  `LogsNeverTouched`, and `PathsReachDirsOnly` — the paths reach the directories
  and nothing below them.  `ArgumentsAsGiven` needs `ArgsInv`, the same statement
  for the arguments taken so far, which the loop's two-step advance keeps.
- `AccountsProofs`: all five properties and `ServedAdminKnown`, from an invariant
  that ties handles to what their requests do and databases to the stage of the
  start.  `TokensEarned` needs more: that from the comparison on the password
  typed is the one stored.  A login in progress means a served start, and only a
  start puts a password.

Proved and in no run's list: `QueueIsTail`, `OneFrameAtATime`, `SearchHoldsLock`,
`StreamIntact`, `PathsReachDirsOnly`, `ServedAdminKnown`, `NeverEarlierRequest`,
`NoInventedBytes` and `SwapsMatch`, which the proofs of listed properties establish on the way;
`Protocol`'s `LockKept`; and the measures and their companions below.

Only model-checked: the five properties with "eventually", because the prover
does not reason about fairness and `ENABLED`.  The safety half of each is proved
for every instance: a count in the natural numbers (or a pair of them, compared
in order) that the steps under fairness lower and no other step raises, or what
has come about once they are over.  What TLC adds is that fairness makes those
steps happen.

| Eventually | Proved |
|---|---|
| `CycleDrains` | `CycleAdvances`, and that its two numbers are naturals |
| `TurnEnds` | `TurnAdvances` |
| `CaptureIsPassedOn` | `NobodySetBack`, `EndedHasCalled` |
| `LearnPolls` | `LearnAdvances`, `NoneForgotten` |
| `WriteReturns` | `WriteBounded`, `OnlyBlockedStops` |

## Divergences found

1. `transmit.cpp:98`: length and checksum position leave three bytes unsent
   (`FrameCarriesContent`), against `transmit.cpp:93`.
2. `protocol.cpp:119`: the client query has action code 0, against
   `protocol.cpp:130` (`QueryCarriesItsCode`).
3. `IRReader.cpp:250`: a signal can be passed on under another learn's IRID
   (`SignalBelongsToIRID`), against `dbman.py:20`.
4. `mfilesystem.cpp:180`: no log is ever rotated, against `mfilesystem.cpp:211`
   (`LargeLogsMoved`).

Properties that pass also describe behaviour an author would not expect:
`ForeignEntryHangs`, `AnswersPredateCommand`, `BlockedForGood`,
`ReadStopsOthers`, `AsksInCompany`, `StarvedForGood`, `DaemonSilent`,
`LogsNeverTouched`, `HalfAdminStays`, `OnlyNobodyListed`, `TokensEarned` (renewal at UTC only); and
`ManyNeverFinish`: `--learn` above 1 never completes, against `main.cpp:67`.

## Not modelled

- Formatting and display: `ByteToHexStr`, `HexToOut`, `printHelpMessage`,
  `DebugLog`'s text.
- `redirect_out_to_log(true)` and `log_thread`: the one call is commented out
  (`main.cpp:138`).
- `m_write_pipe`, `read_database`, `write_database`, `write_op_log`,
  `gpio_unexport`, `clean_buffer` and the destructors: nothing calls them, or
  nothing that gets so far.
- `callcpp` and `jsontransfer`: every call raises before it changes anything that
  others see.  What `transjson` would answer is a choice in `Protocol`.
- What happens after `startWebServer` returns or raises (in `Protocol` it may end
  the process), and what two threads on one thread state, the web server's and a
  learner's (`pylinker.cpp:108`), do to its frames and to the exception the learner
  leaves in it.
- What a lookup through the uninitialised `pythonMod` does beyond surviving or not.
- Static files, templates and handlers that return a constant.
- What a write through a wild pointer does when `--learn` is given a text that is
  no number.
- The serial port's set-up, but for its failure.
- A garbage descriptor that happens to name an end of the pipe.

## Plan

Modules were written in the order `Transmit`, `Protocol`, `IRReader`, `Sampler`,
`Linker`, `Files`, `Accounts`, then `Gpio`, and the abstract `MessagePipe`,
`LearnCalls` and `InterpreterLock`: from what a command
does inwards to what leads up to it.  What would come next:

1. The composition of `IRReader` and `Linker`: what a learner passes on, under the
   lock it may not survive asking for.
2. `Protocol`'s `ReadMessage` and web thread against `Linker`'s: both keep to
   `InterpreterLock` already, the messages are not related yet.
3. The commands of the web server, once `m_write_dict` no longer raises.
