----------------------------- MODULE FilesProofs -----------------------------
(***************************************************************************)
(* Theorems about Files for every set of names and arguments, every limit  *)
(* and every number of starts.                                             *)
(***************************************************************************)
EXTENDS Files, SequenceTheorems, TLAPS

(* A path ends, for the C library, before its first NUL. *)
LEMMA CStringEnds ==
  ASSUME NEW S, NEW path \in Seq(S), NEW k \in 1..Len(path), path[k] = "NUL",
         \A i \in 1..(k - 1) : path[i] # "NUL"
  PROVE  CString(path) = SubSeq(path, 1, k - 1)
<1> DEFINE whole == path \o <<"NUL">>
           nuls == {i \in 1..Len(whole) : whole[i] = "NUL"}
<1>1. Len(whole) = Len(path) + 1 /\ \A i \in 1..Len(path) : whole[i] = path[i]
  OBVIOUS
<1>2. k \in nuls /\ \A i \in nuls : k <= i
  BY <1>1
<1>3. \A i, j \in nuls : i <= j /\ j <= i => i = j
  BY <1>1
<1>4. Min(nuls) = k
  <2>1. \A i \in nuls : (\A j \in nuls : i <= j) => i = k
    BY <1>2, <1>3
  <2> QED
    BY <1>2, <2>1 DEF Min
<1>5. SelectInSeq(whole, LAMBDA token : token = "NUL") = k
  BY <1>2, <1>4 DEF SelectInSeq
<1> QED
  BY <1>5 DEF CString

LEMMA CStringWhole ==
  ASSUME NEW S, NEW path \in Seq(S), \A i \in 1..Len(path) : path[i] # "NUL"
  PROVE  CString(path) = path
<1> DEFINE whole == path \o <<"NUL">>
           nuls == {i \in 1..Len(whole) : whole[i] = "NUL"}
<1>1. Len(whole) = Len(path) + 1 /\ (\A i \in 1..Len(path) : whole[i] = path[i])
      /\ whole[Len(path) + 1] = "NUL"
  OBVIOUS
<1>2. nuls = {Len(path) + 1}
  BY <1>1
<1>3. Min(nuls) = Len(path) + 1
  BY <1>2 DEF Min
<1>4. SelectInSeq(whole, LAMBDA token : token = "NUL") = Len(path) + 1
  BY <1>2, <1>3 DEF SelectInSeq
<1>5. SubSeq(path, 1, Len(path)) = path
  OBVIOUS
<1> QED
  BY <1>4, <1>5 DEF CString

(* Whatever is appended to a directory with its slash and NUL, the path    *)
(* names the directory.                                                    *)
Rooted(dir, S) ==
    /\ dir \in Seq(S) /\ Len(dir) >= 1 /\ dir[1] \in {"home", "cwd"}
    /\ \A i \in 1..Len(dir) : dir[i] \notin {"NUL", "/"} \/ (dir[i] = "/" /\ i < Len(dir))

LEMMA NamedBehindNUL ==
  ASSUME NEW S, NEW dir, Rooted(dir, S), NEW rest \in Seq(S), {"/", "NUL"} \subseteq S
  PROVE  Named((dir \o <<"/", "NUL">>) \o rest) = dir
<1> USE DEF Rooted
<1> DEFINE path == (dir \o <<"/", "NUL">>) \o rest
           k == Len(dir) + 2
<1>1. /\ path \in Seq(S) /\ Len(path) = Len(dir) + 2 + Len(rest)
      /\ \A i \in 1..Len(dir) : path[i] = dir[i]
      /\ path[Len(dir) + 1] = "/" /\ path[k] = "NUL"
  OBVIOUS
<1>2. CString(path) = SubSeq(path, 1, k - 1)
  <2>1. k \in 1..Len(path) /\ \A i \in 1..(k - 1) : path[i] # "NUL"
    BY <1>1
  <2> HIDE DEF path, k
  <2> QED
    BY <1>1, <2>1, CStringEnds DEF k
<1>3. PICK p : p = SubSeq(path, 1, k - 1)
  OBVIOUS
<1>4. /\ p \in Seq(S) /\ Len(p) = Len(dir) + 1 /\ p[Len(dir) + 1] = "/"
      /\ \A i \in 1..Len(dir) : p[i] = dir[i]
  BY <1>1, <1>3
<1>5. p # <<>> /\ Last(p) = "/" /\ Front(p) = dir
  BY <1>4 DEF Last, Front
<1> HIDE DEF path, k
<1> QED
  BY <1>2, <1>3, <1>5 DEF Named, path

Tokens == {"home", "cwd", "/", ".SmartIR", "datas", "logs", "python", "NUL"} \cup FileNames

LEMMA DirsRooted ==
  /\ Rooted(UserDir, Tokens) /\ Rooted(DataDir, Tokens)
  /\ Rooted(LogDir, Tokens) /\ Rooted(PythonDir, Tokens)
BY DEF Rooted, UserDir, DataDir, LogDir, PythonDir, Tokens

LEMMA NamedInDir ==
  ASSUME NEW dir \in {DataDir, LogDir, PythonDir}
  PROVE  /\ Named(dir \o <<"/", "NUL">>) = dir
         /\ \A file \in FileNames : Named((dir \o <<"/", "NUL">>) \o <<file>>) = dir
         /\ \A file \in FileNames : Named((dir \o <<"/", "NUL">>) \o <<"/", file>>) = dir
<1>1. Rooted(dir, Tokens) /\ {"/", "NUL"} \subseteq Tokens /\ FileNames \subseteq Tokens
  BY DirsRooted DEF Tokens
<1>2. (dir \o <<"/", "NUL">>) \o <<>> = dir \o <<"/", "NUL">>
  BY <1>1 DEF Rooted
<1>3. /\ <<>> \in Seq(Tokens)
      /\ \A file \in FileNames : <<file>> \in Seq(Tokens) /\ <<"/", file>> \in Seq(Tokens)
  BY <1>1
<1> QED
  BY <1>1, <1>2, <1>3, NamedBehindNUL

LEMMA NamedPlain ==
  ASSUME NEW S, NEW dir, Rooted(dir, S), "/" \in S
  PROVE  Named(dir) = dir /\ Named(dir \o <<"/">>) = dir
<1> USE DEF Rooted
<1>1. Named(dir) = dir
  <2>1. CString(dir) = dir
    BY CStringWhole
  <2>2. dir # <<>> /\ Last(dir) # "/"
    BY DEF Last
  <2> QED
    BY <2>1, <2>2 DEF Named
<1>2. PICK path : path = dir \o <<"/">>
  OBVIOUS
<1>3. /\ path \in Seq(S) /\ Len(path) = Len(dir) + 1 /\ path[Len(dir) + 1] = "/"
      /\ \A i \in 1..Len(dir) : path[i] = dir[i]
  BY <1>2
<1>4. CString(path) = path
  BY <1>3, CStringWhole
<1>5. path # <<>> /\ Last(path) = "/" /\ Front(path) = dir
  BY <1>3 DEF Last, Front
<1> QED
  BY <1>1, <1>2, <1>4, <1>5 DEF Named
-----------------------------------------------------------------------------
(* The map of directories: what init_user_dir puts into it, and what       *)
(* update_datadir adds with its slash and NUL.                             *)
PathsInv ==
    /\ stage = "user" =>
         FILENAMES = [basedir |-> <<"cwd", "/">>, userdir |-> UserDir \o <<"/">>]
    /\ stage \notin {"start", "user", "gone"} =>
         /\ FILENAMES["datadir"] = DataDir \o <<"/", "NUL">>
         /\ FILENAMES["logdir"] = LogDir \o <<"/", "NUL">>
         /\ FILENAMES["pythondir"] = PythonDir \o <<"/", "NUL">>

(* Neither stream ever leads to a file. *)
FilesInv ==
    /\ TypeOK
    /\ files = [name \in DOMAIN files |-> files[name]]
    /\ {out, err} \subseteq {"terminal", "closed"}
    /\ PathsInv /\ DaemonSilent

Untouched == files' = files /\ moved' = moved

LEMMA FilesInit == Init => FilesInv
<1> SUFFICES ASSUME Init PROVE FilesInv
  OBVIOUS
<1>1. <<>> \in ArgLists
  <2>1. <<>> \in [1..0 -> Options \cup {text[1] : text \in Texts}] /\ 0 \in 0..MaxArgs
    BY FilesAssumption
  <2> QED
    BY <2>1 DEF ArgLists, SeqOf
<1>2. /\ DOMAIN files \subseteq FileNames
      /\ \A name \in DOMAIN files : files[name] \in 0..MaxSize
      /\ files # <<>> => LogDir \in dirs
      /\ files = [name \in DOMAIN files |-> files[name]]
      /\ dirs \subseteq {UserDir, DataDir, LogDir, PythonDir}
  <2>1. CASE files = <<>> /\ dirs = {}
    BY <2>1
  <2>2. CASE /\ dirs = {UserDir, LogDir}
             /\ \E names \in SUBSET FileNames : files \in [names -> 0..MaxSize]
    BY <2>2
  <2> QED
    BY <2>1, <2>2 DEF Init
<1>3. DOMAIN FILENAMES = {}
  BY DEF Init
<1> QED
  <2>1. TypeOK
    <3>1. {given, argv} \subseteq ArgLists
      BY <1>1 DEF Init
    <3>2. DOMAIN FILENAMES \subseteq
            {"basedir", "userdir", "datadir", "logdir", "baseadir", "pythondir"}
      BY <1>3
    <3>3. /\ stage = "start" /\ daemon \in BOOLEAN /\ l_c = 1 /\ moved = {}
          /\ out = "terminal" /\ err = "terminal" /\ runs = 1
      BY DEF Init
    <3>4. 1 \in 1..MaxRuns
      BY FilesAssumption
    <3> QED
      BY <1>2, <3>1, <3>2, <3>3, <3>4 DEF TypeOK
  <2>2. {out, err} \subseteq {"terminal", "closed"} /\ PathsInv /\ DaemonSilent
    BY DEF Init, PathsInv, DaemonSilent
  <2> QED
    BY <1>2, <2>1, <2>2 DEF FilesInv

LEMMA ArgTail ==
  ASSUME NEW args \in ArgLists, args # <<>>
  PROVE  /\ Tail(args) \in ArgLists
         /\ Len(args) # 1 => Tail(args) # <<>> /\ 2 \in 1..Len(args)
         /\ \A k \in 1..Len(args) : args[k] \in Options \cup {text[1] : text \in Texts}
<1>1. PICK n \in 0..MaxArgs : args \in [1..n -> Options \cup {text[1] : text \in Texts}]
  BY DEF ArgLists, SeqOf
<1>2. args \in Seq(Options \cup {text[1] : text \in Texts}) /\ Len(args) = n /\ n # 0
  BY <1>1
<1>3. Tail(args) \in [1..(n - 1) -> Options \cup {text[1] : text \in Texts}]
  <2> DEFINE S == Options \cup {text[1] : text \in Texts}
  <2>1. args \in Seq(S) /\ Len(args) = n /\ n # 0
    BY <1>2
  <2> HIDE DEF S
  <2>2. Tail(args) \in Seq(S) /\ Len(Tail(args)) = n - 1
    BY <2>1
  <2>3. Tail(args) \in [1..Len(Tail(args)) -> S]
    BY <2>2, LenProperties
  <2> QED
    BY <2>2, <2>3 DEF S
<1>4. n - 1 \in 0..MaxArgs
  BY <1>2, FilesAssumption
<1>5. n # 1 => Tail(args) # <<>> /\ 2 \in 1..n
  <2>1. ASSUME n # 1 PROVE 1 \in DOMAIN Tail(args) /\ 2 \in 1..n
    BY <1>2, <1>3, <2>1
  <2>2. 1 \notin DOMAIN <<>>
    OBVIOUS
  <2> QED
    BY <2>1, <2>2, Zenon
<1> QED
  BY <1>1, <1>2, <1>3, <1>4, <1>5 DEF ArgLists, SeqOf

LEMMA AtoiType ==
  ASSUME NEW arg \in Options \cup {text[1] : text \in Texts}
  PROVE  atoi(arg) \in {0, 1} \cup {text[2] : text \in Texts}
<1>1. CASE arg \in Options
  BY <1>1 DEF atoi
<1>2. CASE arg \notin Options
  <2>1. \E t \in Texts : t[1] = arg
    BY <1>2
  <2>2. (CHOOSE t \in Texts : t[1] = arg) \in Texts
    BY <2>1
  <2> QED
    BY <1>2, <2>2 DEF atoi
<1> QED
  BY <1>1, <1>2

(* The directories assure_dir_exist is called for. *)
LEMMA Assured ==
  /\ Named(UserDir \o <<"/">>) = UserDir
  /\ Named((UserDir \o <<"/">>) \o <<"datas">>) = DataDir
  /\ Named((UserDir \o <<"/">>) \o <<"logs">>) = LogDir
  /\ Named(<<>> \o <<"python">>) = PythonDir
<1>1. /\ (UserDir \o <<"/">>) \o <<"datas">> = DataDir
      /\ (UserDir \o <<"/">>) \o <<"logs">> = LogDir
  BY DEF UserDir, DataDir, LogDir
<1>2. "/" \in Tokens
  BY DEF Tokens
<1>3. Named(<<"python">>) = PythonDir
  <2>1. PICK p : p = <<"python">>
    OBVIOUS
  <2>2. p \in Seq({"python"}) /\ Len(p) = 1 /\ p[1] = "python"
    BY <2>1
  <2>3. CString(p) = p
    BY <2>2, CStringWhole
  <2>4. Last(p) = "python" /\ p # <<>>
    <3>1. Last(p) = p[1]
      BY <2>2 DEF Last
    <3>2. p # <<>>
      BY <2>1
    <3> QED
      BY <2>2, <3>1, <3>2
  <2>5. Named(p) = <<"cwd", "/">> \o p
    BY <2>2, <2>3, <2>4 DEF Named
  <2> QED
    BY <2>1, <2>5 DEF PythonDir
<1>4. <<>> \o <<"python">> = <<"python">>
  OBVIOUS
<1>5. Named(UserDir \o <<"/">>) = UserDir /\ Named(DataDir) = DataDir /\ Named(LogDir) = LogDir
  BY <1>2, DirsRooted, NamedPlain
<1> QED
  BY <1>1, <1>3, <1>4, <1>5

LEMMA AssureAdds ==
  ASSUME NEW known, NEW path, NEW more \in AfterAssure(known, path)
  PROVE  known \subseteq more /\ more \subseteq known \cup {Named(path)}
BY DEF AfterAssure

(* update_datadir, from the map init_user_dir left. *)
LEMMA MapStep ==
  ASSUME FilesInv, update_datadir
  PROVE  /\ DOMAIN FILENAMES' \subseteq
              {"basedir", "userdir", "datadir", "logdir", "baseadir", "pythondir"}
         /\ PathsInv'
         /\ dirs \subseteq dirs' /\ dirs' \subseteq {UserDir, DataDir, LogDir, PythonDir}
<1> DEFINE user == UserDir \o <<"/">>
           withData == update_pathname(FILENAMES, "datadir", user \o <<"datas">>)
           withLogs == update_pathname(withData, "logdir", user \o <<"logs">>)
           misspelt == Put(withLogs, "baseadir", <<>>)
           base == <<"cwd", "/">>
           all == update_pathname(misspelt, "pythondir", base \o <<"python">>)
<1>1. stage = "user" /\ stage' = "data"
      /\ FILENAMES = [basedir |-> base, userdir |-> user]
  BY DEF update_datadir, FilesInv, PathsInv
<1>2. FILENAMES["userdir"] = user /\ FILENAMES["basedir"] = base
      /\ DOMAIN FILENAMES = {"basedir", "userdir"}
  BY <1>1
<1>3. /\ DOMAIN withData = {"basedir", "userdir", "datadir"}
      /\ withData["datadir"] = (user \o <<"datas">>) \o <<"/", "NUL">>
  BY <1>2 DEF update_pathname, Put
<1> HIDE DEF withData
<1>4. /\ DOMAIN withLogs = {"basedir", "userdir", "datadir", "logdir"}
      /\ withLogs["datadir"] = withData["datadir"]
      /\ withLogs["logdir"] = (user \o <<"logs">>) \o <<"/", "NUL">>
  BY <1>3 DEF update_pathname, Put
<1> HIDE DEF withLogs
<1>5. /\ DOMAIN misspelt = {"basedir", "userdir", "datadir", "logdir", "baseadir"}
      /\ misspelt["datadir"] = withLogs["datadir"] /\ misspelt["logdir"] = withLogs["logdir"]
      /\ misspelt["baseadir"] = <<>>
  BY <1>4 DEF Put
<1> HIDE DEF misspelt
<1>6. /\ DOMAIN all = {"basedir", "userdir", "datadir", "logdir", "baseadir", "pythondir"}
      /\ all["datadir"] = misspelt["datadir"] /\ all["logdir"] = misspelt["logdir"]
      /\ all["pythondir"] = (base \o <<"python">>) \o <<"/", "NUL">>
  BY <1>5 DEF update_pathname, Put
<1> HIDE DEF all
<1>7. FILENAMES' = all
  BY <1>2 DEF update_datadir, all, misspelt, withLogs, withData
<1>8. /\ user \o <<"datas">> = DataDir /\ user \o <<"logs">> = LogDir
      /\ base \o <<"python">> = PythonDir
  <2>1. user \o <<"datas">> = DataDir /\ user \o <<"logs">> = LogDir
    BY DEF UserDir, DataDir, LogDir
  <2>2. base \o <<"python">> = PythonDir
    BY DEF PythonDir
  <2> QED
    BY <2>1, <2>2
<1>9. PathsInv'
  BY <1>1, <1>3, <1>4, <1>5, <1>6, <1>7, <1>8 DEF PathsInv
<1>10. PICK d1, d2 :
         /\ d1 \in AfterAssure(dirs, user \o <<"datas">>)
         /\ d2 \in AfterAssure(d1, user \o <<"logs">>)
         /\ dirs' \in AfterAssure(d2, <<>> \o <<"python">>)
  BY <1>2, <1>5 DEF update_datadir, misspelt, withLogs, withData
<1>11. /\ dirs \subseteq d1 /\ d1 \subseteq dirs \cup {DataDir}
       /\ d1 \subseteq d2 /\ d2 \subseteq d1 \cup {LogDir}
       /\ d2 \subseteq dirs' /\ dirs' \subseteq d2 \cup {PythonDir}
  BY <1>10, AssureAdds, Assured
<1>12. dirs \subseteq {UserDir, DataDir, LogDir, PythonDir}
  BY DEF FilesInv, TypeOK
<1> QED
  BY <1>6, <1>7, <1>9, <1>11, <1>12

(* No log is found, and no stream leads to one. *)
LEMMA LogsStay ==
  ASSUME FilesInv, [Next]_vars
  PROVE  Untouched /\ {out', err'} \subseteq {"terminal", "closed"} /\ DaemonSilent'
<1> USE DEF FilesInv, Untouched
<1>0. LogDir \in {DataDir, LogDir, PythonDir} /\ \A name : LogDir # LogDir \o <<"/", name>>
  BY DEF LogDir, UserDir
<1>1. ASSUME stage \in {"fork", "check"} PROVE FILENAMES["logdir"] = LogDir \o <<"/", "NUL">>
  BY <1>1 DEF PathsInv
<1>2. CASE check_logs
  <2>1. Last(LogDir \o <<"/", "NUL">>) # "/"
    BY DEF LogDir, UserDir, Last
  <2>2. \A name \in FileNames : Named(FullName(LogDir \o <<"/", "NUL">>, name)) = LogDir
    BY <1>0, <2>1, NamedInDir DEF FullName
  <2>3. GetFilesInDirectory(FILENAMES["logdir"]) = {}
    BY <1>0, <1>1, <1>2, <2>2 DEF GetFilesInDirectory, check_logs, TypeOK
  <2>4. files' = Restrict(files, DOMAIN files) /\ moved' = moved
    BY <1>2, <2>3 DEF check_logs
  <2> QED
    BY <1>2, <2>4 DEF check_logs, Restrict, DaemonSilent
<1>3. CASE redirect_out_to_log
  <2>1. {"access.log", "error.log"} \subseteq FileNames
    BY FilesAssumption DEF FileNames
  <2>2. out' = "closed" /\ err' = "closed"
    BY <1>0, <1>1, <1>3, <2>1, NamedInDir DEF redirect_out_to_log, Reopened
  <2>3. \A name \in DOMAIN files : name \notin {"closed"}
    BY FilesAssumption DEF TypeOK, FileNames
  <2>4. moved' = moved /\ files' = [name \in DOMAIN files |-> files[name]]
    BY <1>3, <2>2, <2>3 DEF redirect_out_to_log
  <2> QED
    BY <2>2, <2>4 DEF DaemonSilent
<1>4. CASE Log
  <2>1. \A name \in DOMAIN files : name \notin {out, err}
    BY FilesAssumption DEF TypeOK, FileNames
  <2>2. files' = [name \in DOMAIN files |-> files[name]]
    BY <1>4, <2>1 DEF Log
  <2> QED
    BY <1>4, <2>2 DEF Log, DaemonSilent, cmdVars
<1>5. CASE Start
  BY <1>5 DEF Start, DaemonSilent
<1>6. CASE NoHome \/ init_user_dir \/ update_datadir \/ EndingArg \/ ParseArg \/ EndArgs
             \/ Daemonize \/ CheckFails \/ Exit \/ UNCHANGED vars
  <2>1. UNCHANGED <<files, moved, out, err>>
    BY <1>6 DEF NoHome, init_user_dir, update_datadir, EndingArg, ParseArg, EndArgs, Daemonize,
                CheckFails, Exit, vars
  <2>2. stage' \notin {"redirect", "run"} \/ (UNCHANGED <<daemon, stage>>)
    BY <1>6 DEF NoHome, init_user_dir, update_datadir, EndingArg, ParseArg, EndArgs, Daemonize,
                CheckFails, Exit, vars, cmdVars
  <2> QED
    BY <2>1, <2>2 DEF DaemonSilent
<1> HIDE DEF FilesInv, Untouched
<1>7. CASE Rest
  BY <1>6, <1>7 DEF Rest
<1> QED
  BY <1>2, <1>3, <1>4, <1>5, <1>6, <1>7 DEF Next

LEMMA FilesNext == FilesInv /\ [Next]_vars => FilesInv' /\ Untouched
<1> SUFFICES ASSUME FilesInv, [Next]_vars PROVE FilesInv' /\ Untouched
  OBVIOUS
<1> DEFINE Names == {"basedir", "userdir", "datadir", "logdir", "baseadir", "pythondir"}
           Stages == {"start", "user", "data", "args", "fork", "check", "redirect", "run", "gone"}
           Args == /\ {given, argv} \subseteq ArgLists /\ daemon \in BOOLEAN
                   /\ l_c \in {0, 1} \cup {text[2] : text \in Texts}
           Maps == DOMAIN FILENAMES \subseteq Names /\ PathsInv
           Dirs == dirs \subseteq {UserDir, DataDir, LogDir, PythonDir}
           Counters == stage \in Stages /\ runs \in 1..MaxRuns
           Holds == Args' /\ Maps' /\ Counters' /\ dirs \subseteq dirs' /\ Dirs'
<1>1. Args /\ Maps /\ Dirs /\ Counters /\ TypeOK
  BY DEF FilesInv, TypeOK
<1>2. <<>> \in ArgLists
  <2>1. <<>> \in [1..0 -> Options \cup {text[1] : text \in Texts}] /\ 0 \in 0..MaxArgs
    BY FilesAssumption
  <2> QED
    BY <2>1 DEF ArgLists, SeqOf
<1>3. ASSUME init_user_dir PROVE Holds
  <2>1. FILENAMES' = [basedir |-> <<"cwd", "/">>, userdir |-> UserDir \o <<"/">>]
        /\ FILENAMES'["userdir"] = UserDir \o <<"/">>
    BY <1>3 DEF init_user_dir
  <2>2. dirs' \in AfterAssure(dirs, UserDir \o <<"/">>)
    BY <1>3, <2>1 DEF init_user_dir
  <2>3. dirs \subseteq dirs' /\ Dirs'
    BY <1>1, <2>2, AssureAdds, Assured
  <2> QED
    BY <1>1, <1>3, <2>1, <2>3 DEF init_user_dir, cmdVars, PathsInv
<1>4. ASSUME update_datadir PROVE Holds
  BY <1>1, <1>4, MapStep DEF update_datadir
<1>5. ASSUME ParseArg PROVE Holds
  <2>1. Tail(argv) \in ArgLists /\ (Head(argv) = "--learn" => Tail(Tail(argv)) \in ArgLists)
        /\ (Head(argv) = "--learn" => atoi(argv[2]) \in {0, 1} \cup {text[2] : text \in Texts})
    <3>1. argv \in ArgLists /\ argv # <<>>
      BY <1>1, <1>5 DEF ParseArg
    <3>2. /\ Tail(argv) \in ArgLists
          /\ Len(argv) # 1 => Tail(argv) # <<>> /\ 2 \in 1..Len(argv)
          /\ \A k \in 1..Len(argv) : argv[k] \in Options \cup {text[1] : text \in Texts}
      BY <3>1, ArgTail
    <3>3. ASSUME Head(argv) = "--learn"
          PROVE  /\ Tail(Tail(argv)) \in ArgLists
                 /\ atoi(argv[2]) \in {0, 1} \cup {text[2] : text \in Texts}
      <4>1. Len(argv) # 1
        <5>1. argv # <<"--learn">>
          BY <1>5 DEF ParseArg
        <5>2. argv \in Seq(Options \cup {text[1] : text \in Texts})
          BY <3>1 DEF ArgLists, SeqOf
        <5> QED
          BY <3>3, <5>1, <5>2
      <4>2. Tail(argv) # <<>> /\ 2 \in 1..Len(argv)
        BY <3>2, <4>1
      <4> QED
        BY <3>2, <4>2, ArgTail, AtoiType
    <3> QED
      BY <3>2, <3>3
  <2> QED
    BY <1>1, <1>5, <2>1 DEF ParseArg, PathsInv
<1>6. ASSUME EndingArg \/ EndArgs \/ Daemonize PROVE Holds
  BY <1>1, <1>2, <1>6 DEF EndingArg, EndArgs, Daemonize, cmdVars, PathsInv
<1>7. ASSUME NoHome \/ CheckFails \/ check_logs \/ redirect_out_to_log \/ Log \/ Exit PROVE Holds
  BY <1>1, <1>7
     DEF NoHome, CheckFails, check_logs, redirect_out_to_log, Log, Exit, cmdVars, PathsInv
<1>8. ASSUME Start PROVE Holds
  <2>1. MaxRuns \in Nat
    BY FilesAssumption
  <2>2. runs' \in 1..MaxRuns
    BY <1>1, <1>8, <2>1 DEF Start
  <2>3. DOMAIN FILENAMES' = {}
    BY <1>8 DEF Start
  <2> QED
    BY <1>1, <1>2, <1>8, <2>2, <2>3 DEF Start, PathsInv
<1>9. ASSUME Rest \/ UNCHANGED vars PROVE Holds
  BY <1>1, <1>9 DEF Rest, vars, cmdVars, PathsInv
<1>10. Holds
  BY <1>3, <1>4, <1>5, <1>6, <1>7, <1>8, <1>9 DEF Next
<1>11. Untouched /\ {out', err'} \subseteq {"terminal", "closed"} /\ DaemonSilent'
  BY LogsStay
<1>12. TypeOK'
  BY <1>1, <1>10, <1>11 DEF TypeOK, Untouched
<1> QED
  BY <1>10, <1>11, <1>12 DEF FilesInv, Untouched
-----------------------------------------------------------------------------
(* Map, arguments, directories and streams keep their types. *)
THEOREM FilesTypeCorrect == Spec => []TypeOK
<1>1. FilesInv => TypeOK
  BY DEF FilesInv
<1> QED
  BY <1>1, FilesInit, FilesNext, PTL DEF Spec

(* From its redirection on, all a daemon says is lost. *)
THEOREM DaemonLost == Spec => []DaemonSilent
<1>1. FilesInv => DaemonSilent
  BY DEF FilesInv
<1> QED
  BY <1>1, FilesInit, FilesNext, PTL DEF Spec

(* No log is renamed, made, emptied or written, in any number of runs. *)
THEOREM LogsUntouched == Spec => LogsNeverTouched
<1>1. FilesInv /\ [Next]_vars => Untouched
  BY FilesNext
<1> QED
  BY <1>1, FilesInit, FilesNext, PTL DEF Spec, LogsNeverTouched, Untouched

(* Every path of update_datadir names its directory, and goes on naming it *)
(* with whatever file name behind it.                                      *)
THEOREM PathsCorrect == Spec => []PathsReachDirsOnly
<1>1. FilesInv => PathsReachDirsOnly
  BY NamedInDir DEF FilesInv, PathsInv, PathsReachDirsOnly
<1> QED
  BY <1>1, FilesInit, FilesNext, PTL DEF Spec
-----------------------------------------------------------------------------
(* How many of --learn stand before an argument is determined, ... *)
LEMMA LearnsUnique ==
  ASSUME NEW k \in Nat \ {0}, NEW n \in 0..(k - 1), NEW m \in 0..(k - 1),
         LearnsBefore(k, n), LearnsBefore(k, m)
  PROVE  n = m
<1>1. ASSUME NEW a \in 0..(k - 1), NEW b \in 0..(k - 1), LearnsBefore(k, a), LearnsBefore(k, b),
             a < b
      PROVE  FALSE
  <2>1. k - a - 1 \in (k - b)..(k - 1) /\ a # k - 1
    BY <1>1
  <2> QED
    BY <1>1, <2>1 DEF LearnsBefore
<1>2. n < m \/ m < n \/ n = m
  OBVIOUS
<1> QED
  BY <1>1, <1>2

LEMMA ValueByCount ==
  ASSUME NEW k \in Nat, NEW n \in 0..k, LearnsBefore(k + 1, n)
  PROVE  IsValue(k + 1) <=> n % 2 = 1
<1>1. PICK l \in Nat \ {0} : l = k + 1
  OBVIOUS
<1>2. n \in 0..(l - 1) /\ LearnsBefore(l, n)
  BY <1>1
<1>3. ASSUME NEW m \in 0..(l - 1), LearnsBefore(l, m) PROVE m = n
  BY <1>2, <1>3, LearnsUnique
<1>4. IsValue(l) <=> n % 2 = 1
  BY <1>2, <1>3 DEF IsValue
<1> QED
  BY <1>1, <1>4

(* ... and one more or none before the next. *)
LEMMA LearnsNext ==
  ASSUME NEW k \in Nat, NEW n \in 0..k, LearnsBefore(k + 1, n)
  PROVE  /\ given[k + 1] = "--learn" => LearnsBefore(k + 2, n + 1)
         /\ given[k + 1] # "--learn" => LearnsBefore(k + 2, 0)
<1>1. ASSUME given[k + 1] = "--learn" PROVE LearnsBefore(k + 2, n + 1)
  <2>1. k + 2 - (n + 1) = k + 1 - n /\ k + 2 - 1 = k + 1 /\ k + 1 - 1 = k
    OBVIOUS
  <2>2. \A i \in (k + 1 - n)..(k + 1) : i = k + 1 \/ i \in (k + 1 - n)..k
    OBVIOUS
  <2>3. \A i \in (k + 2 - (n + 1))..(k + 2 - 1) : given[i] = "--learn"
    BY <1>1, <2>1, <2>2 DEF LearnsBefore
  <2>4. n + 1 = k + 2 - 1 \/ given[k + 2 - (n + 1) - 1] # "--learn"
    BY <2>1 DEF LearnsBefore
  <2> QED
    BY <2>3, <2>4 DEF LearnsBefore
<1>2. ASSUME given[k + 1] # "--learn" PROVE LearnsBefore(k + 2, 0)
  <2>1. \A i \in (k + 2 - 0)..(k + 2 - 1) : FALSE
    OBVIOUS
  <2>2. k + 2 - 0 - 1 = k + 1
    OBVIOUS
  <2> QED
    BY <1>2, <2>1, <2>2 DEF LearnsBefore
<1> QED
  BY <1>1, <1>2

(* The arguments the loop has passed, and what they have led to so far.    *)
Passed == Len(given) - Len(argv)

Decided(n) ==
    LET learns == Counted("--learn", n)
    IN  /\ daemon <=> Counted("--daemon", n) # {}
        /\ Counted("--help", n) = {} /\ n \notin learns
        /\ l_c = IF learns = {} THEN 1 ELSE atoi(given[Max(learns) + 1])

ArgsInv ==
    /\ stage \in {"start", "user"} => ~daemon /\ l_c = 1
    /\ stage \in {"data", "args"} =>
         /\ Passed \in Nat /\ Decided(Passed)
         /\ \A i \in 1..Len(argv) : argv[i] = given[Passed + i]
         /\ \E n \in 0..Passed : n % 2 = 0 /\ LearnsBefore(Passed + 1, n)
    /\ stage = "args" => argv = <<>>

(* What n + 1 arguments decide, from what n did. *)
LEMMA CountOne ==
  ASSUME NEW n \in Nat, NEW flag, ~IsValue(n + 1)
  PROVE  Counted(flag, n + 1) = Counted(flag, n) \cup (IF given[n + 1] = flag THEN {n + 1} ELSE {})
<1>1. \A k : k \in 1..(n + 1) <=> k \in 1..n \/ k = n + 1
  OBVIOUS
<1> QED
  BY <1>1 DEF Counted

LEMMA CountValue ==
  ASSUME NEW n \in Nat, NEW flag, IsValue(n + 1)
  PROVE  Counted(flag, n + 1) = Counted(flag, n)
<1>1. \A k : k \in 1..(n + 1) <=> k \in 1..n \/ k = n + 1
  OBVIOUS
<1> QED
  BY <1>1 DEF Counted

LEMMA MaxLearn ==
  ASSUME NEW n \in Nat
  PROVE  Max(Counted("--learn", n) \cup {n + 1}) = n + 1
<1> DEFINE S == Counted("--learn", n) \cup {n + 1}
<1>1. S \subseteq Int /\ n + 1 \in S /\ \A k \in S : k <= n + 1
  BY DEF Counted
<1>2. \A i \in S : (\A k \in S : i >= k) => i = n + 1
  BY <1>1
<1> HIDE DEF S
<1>3. Max(S) = n + 1
  BY <1>1, <1>2 DEF Max
<1> QED
  BY <1>3 DEF S

LEMMA SeqTail ==
  ASSUME NEW args \in ArgLists, args # <<>>
  PROVE  /\ Len(args) \in Nat \ {0} /\ Head(args) = args[1]
         /\ Len(Tail(args)) = Len(args) - 1
         /\ \A i \in 1..(Len(args) - 1) : Tail(args)[i] = args[i + 1]
<1> DEFINE S == Options \cup {text[1] : text \in Texts}
<1>1. args \in Seq(S)
  BY DEF ArgLists, SeqOf
<1> HIDE DEF S
<1> QED
  BY <1>1

LEMMA ParseStep == FilesInv /\ ArgsInv /\ ParseArg => ArgsInv'
<1> SUFFICES ASSUME FilesInv, ArgsInv, ParseArg PROVE ArgsInv'
  OBVIOUS
<1>0. PICK n : n = Passed
  OBVIOUS
<1>1. /\ argv \in ArgLists /\ argv # <<>> /\ Head(argv) # "--help" /\ argv # <<"--learn">>
      /\ stage = "data" /\ stage' = "data" /\ given' = given
  BY DEF ParseArg, FilesInv, TypeOK
<1>2. /\ n \in Nat /\ Decided(n) /\ \A i \in 1..Len(argv) : argv[i] = given[n + i]
  BY <1>0, <1>1 DEF ArgsInv
<1>3. PICK m \in 0..n : m % 2 = 0 /\ LearnsBefore(n + 1, m)
  BY <1>0, <1>1 DEF ArgsInv
<1>4. /\ Len(argv) \in Nat \ {0} /\ Len(Tail(argv)) = Len(argv) - 1
      /\ \A i \in 1..(Len(argv) - 1) : Tail(argv)[i] = argv[i + 1]
      /\ Head(argv) = given[n + 1]
  BY <1>1, <1>2, SeqTail
<1>5. Len(given) = n + Len(argv) /\ Len(given) \in Nat
  <2>1. Len(given) \in Nat
    <3>1. given \in ArgLists
      BY DEF FilesInv, TypeOK
    <3> QED
      BY <3>1 DEF ArgLists, SeqOf
  <2> QED
    BY <1>0, <1>4, <2>1 DEF Passed
<1>6. ~IsValue(n + 1)
  <2>1. IsValue(n + 1) <=> m % 2 = 1
    BY <1>2, <1>3, ValueByCount, Zenon
  <2> QED
    BY <1>3, <2>1
<1>7. \A k \in Nat : /\ \A flag : Counted(flag, k)' = Counted(flag, k)
                     /\ \A j \in 0..k : LearnsBefore(k + 1, j)' = LearnsBefore(k + 1, j)
  BY <1>1 DEF Counted, IsValue, LearnsBefore
<1>8. Counted("--help", n) = {}
  BY <1>2 DEF Decided
<1>9. CASE Head(argv) # "--learn"
  <2>1. argv' = Tail(argv) /\ daemon' = (daemon \/ Head(argv) = "--daemon") /\ l_c' = l_c
    BY <1>9 DEF ParseArg
  <2>2. Passed' = n + 1
    BY <1>1, <1>2, <1>4, <1>5, <2>1 DEF Passed
  <2>3. Decided(n + 1)'
    <3>1. /\ Counted("--help", n + 1) = {} /\ Counted("--learn", n + 1) = Counted("--learn", n)
          /\ Counted("--daemon", n + 1) # {}
               <=> Counted("--daemon", n) # {} \/ given[n + 1] = "--daemon"
      <4>1. \A flag : Counted(flag, n + 1) =
                        Counted(flag, n) \cup (IF given[n + 1] = flag THEN {n + 1} ELSE {})
        BY <1>2, <1>6, CountOne
      <4> QED
        BY <1>1, <1>4, <1>8, <1>9, <4>1
    <3>2. n + 1 \notin Counted("--learn", n)
      BY <1>2 DEF Counted
    <3>3. n + 1 \in Nat
      BY <1>2
    <3>4. \A flag : Counted(flag, n + 1)' = Counted(flag, n + 1)
      BY <1>7, <3>3
    <3>5. daemon' <=> Counted("--daemon", n + 1) # {}
      BY <1>2, <1>4, <2>1, <3>1 DEF Decided
    <3>6. /\ n + 1 \notin Counted("--learn", n + 1)
          /\ l_c' = IF Counted("--learn", n + 1) = {} THEN 1
                    ELSE atoi(given[Max(Counted("--learn", n + 1)) + 1])
      BY <1>2, <2>1, <3>1, <3>2 DEF Decided
    <3> QED
      BY <1>1, <3>1, <3>4, <3>5, <3>6 DEF Decided
  <2>4. \A i \in 1..Len(argv)' : argv'[i] = given'[n + 1 + i]
    BY <1>1, <1>2, <1>4, <2>1
  <2>5. LearnsBefore(n + 2, 0) /\ 0 % 2 = 0
    <3>1. LearnsBefore(n + 2, 0)
      BY <1>2, <1>3, <1>4, <1>9, LearnsNext, Zenon
    <3> QED
      BY <3>1
  <2>6. LearnsBefore(n + 1 + 1, 0)' /\ 0 \in 0..(n + 1)
    <3>1. n + 1 + 1 = n + 2 /\ n + 1 \in Nat /\ 0 \in 0..(n + 1)
      BY <1>2
    <3> QED
      BY <1>7, <2>5, <3>1
  <2> QED
    BY <1>1, <1>2, <2>2, <2>3, <2>4, <2>5, <2>6 DEF ArgsInv
<1>10. CASE Head(argv) = "--learn"
  <2>1. argv' = Tail(Tail(argv)) /\ (daemon' <=> daemon) /\ l_c' = atoi(argv[2])
    <3>1. argv' = Tail(Tail(argv)) /\ l_c' = atoi(argv[2])
      BY <1>10, Zenon DEF ParseArg
    <3>2. daemon' <=> daemon
      BY <1>10, Zenon DEF ParseArg
    <3> QED
      BY <3>1, <3>2
  <2>2. Tail(argv) \in ArgLists /\ Tail(argv) # <<>> /\ Len(argv) > 1
    <3>1. Len(argv) # 1
      <4>1. argv \in Seq(Options \cup {text[1] : text \in Texts})
        BY <1>1 DEF ArgLists, SeqOf
      <4> QED
        BY <1>1, <1>10, <4>1
    <3> QED
      BY <1>1, <1>4, <3>1, ArgTail
  <2>3. /\ Len(argv') = Len(argv) - 2
        /\ \A i \in 1..(Len(argv) - 2) : argv'[i] = Tail(argv)[i + 1]
    BY <1>4, <2>1, <2>2, SeqTail
  <2>4. Passed' = n + 2
    BY <1>1, <1>2, <1>4, <1>5, <2>3 DEF Passed
  <2>5. \A i \in 1..Len(argv)' : argv'[i] = given'[n + 2 + i]
    <3>1. ASSUME NEW i \in 1..(Len(argv) - 2) PROVE argv'[i] = given[n + 2 + i]
      <4>1. i + 1 \in 1..(Len(argv) - 1) /\ i + 2 \in 1..Len(argv) /\ i + 1 + 1 = i + 2
            /\ n + (i + 2) = n + 2 + i
        BY <1>2, <1>4, <2>2
      <4>2. argv'[i] = argv[i + 2]
        BY <1>4, <2>3, <4>1
      <4> QED
        BY <1>2, <4>1, <4>2
    <3> QED
      BY <1>1, <2>3, <3>1
  <2>6. LearnsBefore(n + 2, m + 1) /\ (m + 1) % 2 = 1 /\ (m + 2) % 2 = 0
    <3>1. LearnsBefore(n + 2, m + 1)
      BY <1>2, <1>3, <1>4, <1>10, LearnsNext, Zenon
    <3>2. (m + 1) % 2 = 1 /\ (m + 2) % 2 = 0
      BY <1>3
    <3> QED
      BY <3>1, <3>2
  <2>7. IsValue(n + 2)
    BY <1>2, <2>6 DEF IsValue
  <2>8. \E j \in 0..(n + 2) : j % 2 = 0 /\ LearnsBefore(n + 3, j)
    <3>1. PICK k, j : k = n + 1 /\ j = m + 1 /\ k \in Nat /\ j \in 0..k
      BY <1>2, <1>3
    <3>2. LearnsBefore(k + 1, j)
      <4>1. k + 1 = n + 2
        BY <1>2, <3>1
      <4> QED
        BY <2>6, <3>1, <4>1
    <3>3. LearnsBefore(k + 2, j + 1) \/ LearnsBefore(k + 2, 0)
      BY <3>1, <3>2, LearnsNext, Zenon
    <3>4. /\ k + 2 = n + 3 /\ j + 1 = m + 2
          /\ 0 \in 0..(n + 2) /\ 0 % 2 = 0 /\ m + 2 \in 0..(n + 2)
      BY <1>2, <1>3, <3>1
    <3> QED
      BY <2>6, <3>3, <3>4
  <2>9. Decided(n + 2)'
    <3>1. /\ Counted("--help", n + 2) = {}
          /\ Counted("--learn", n + 2) = Counted("--learn", n) \cup {n + 1}
          /\ Counted("--daemon", n + 2) = Counted("--daemon", n)
      <4>1. \A flag : Counted(flag, n + 2) = Counted(flag, n + 1)
        BY <1>2, <2>7, CountValue
      <4> QED
        <5>1. \A flag : Counted(flag, n + 1) =
                          Counted(flag, n) \cup (IF given[n + 1] = flag THEN {n + 1} ELSE {})
          BY <1>2, <1>6, CountOne
        <5>2. given[n + 1] = "--learn"
          BY <1>4, <1>10
        <5>3. Counted("--learn", n + 1) = Counted("--learn", n) \cup {n + 1}
          BY <5>1, <5>2
        <5>4. \A flag \in {"--help", "--daemon"} : Counted(flag, n + 1) = Counted(flag, n)
          BY <5>1, <5>2
        <5> QED
          BY <1>8, <4>1, <5>3, <5>4
    <3>2. /\ Max(Counted("--learn", n + 2)) + 1 = n + 2 /\ Counted("--learn", n + 2) # {}
          /\ n + 2 \notin Counted("--learn", n + 2)
      BY <1>2, <2>7, <3>1, MaxLearn DEF Counted
    <3>3. argv[2] = given[n + 2]
      BY <1>2, <2>2, <1>4
    <3>4. \A flag : Counted(flag, n + 2)' = Counted(flag, n + 2)
      BY <1>2, <1>7
    <3>5. daemon' <=> Counted("--daemon", n + 2) # {}
      BY <1>2, <2>1, <3>1 DEF Decided
    <3>6. l_c' = atoi(given[Max(Counted("--learn", n + 2)) + 1])
      BY <2>1, <3>2, <3>3
    <3> QED
      BY <1>1, <3>1, <3>2, <3>4, <3>5, <3>6 DEF Decided
  <2>10. \E j \in 0..(n + 2) : j % 2 = 0 /\ LearnsBefore(n + 2 + 1, j)'
    BY <1>2, <1>7, <2>8
  <2>11. Passed' \in Nat /\ Decided(Passed)'
         /\ \E j \in 0..Passed' : j % 2 = 0 /\ LearnsBefore(Passed + 1, j)'
    BY <1>2, <2>4, <2>9, <2>10
  <2> QED
    BY <1>1, <2>4, <2>5, <2>11 DEF ArgsInv
<1> QED
  BY <1>9, <1>10

LEMMA ArgsInit == Init => ArgsInv
BY DEF Init, ArgsInv

LEMMA ArgsNext == FilesInv /\ ArgsInv /\ [Next]_vars => ArgsInv'
<1> SUFFICES ASSUME FilesInv, ArgsInv, [Next]_vars PROVE ArgsInv'
  OBVIOUS
<1>1. ASSUME UNCHANGED <<given, argv, daemon, l_c>>,
             \/ stage' = stage \/ stage' \notin {"start", "user", "data", "args"}
             \/ stage = "start" /\ stage' = "user"
             \/ stage = "data" /\ stage' = "args" /\ argv = <<>>
      PROVE  ArgsInv'
  <2>1. Passed' = Passed
    BY <1>1 DEF Passed
  <2>2. Decided(Passed)' <=> Decided(Passed)
    BY <1>1, <2>1 DEF Decided, Counted, IsValue, LearnsBefore
  <2>3. \A n : LearnsBefore(Passed + 1, n)' <=> LearnsBefore(Passed + 1, n)
    BY <1>1, <2>1 DEF LearnsBefore
  <2> QED
    BY <1>1, <2>1, <2>2, <2>3 DEF ArgsInv
<1>2. CASE update_datadir
  <2>1. /\ stage = "user" /\ stage' = "data" /\ given' \in ArgLists /\ argv' = given'
        /\ ~daemon' /\ l_c' = 1
    BY <1>2 DEF update_datadir, ArgsInv
  <2>2. Len(given') \in Nat
    BY <2>1 DEF ArgLists, SeqOf
  <2>3. Passed' = 0
    BY <2>1, <2>2 DEF Passed
  <2>4. \A flag : Counted(flag, 0)' = {}
    BY DEF Counted
  <2>5. Decided(0)'
    BY <2>1, <2>4 DEF Decided
  <2>6. LearnsBefore(1, 0)'
    BY DEF LearnsBefore
  <2> QED
    BY <2>1, <2>2, <2>3, <2>5, <2>6 DEF ArgsInv
<1>3. CASE ParseArg
  BY <1>3, ParseStep
<1>4. CASE NoHome \/ EndingArg \/ Daemonize \/ CheckFails \/ check_logs \/ redirect_out_to_log
             \/ Log \/ Exit
  <2>1. stage' \notin {"start", "user", "data", "args"}
    BY <1>4 DEF NoHome, EndingArg, Daemonize, CheckFails, check_logs, redirect_out_to_log, Log, Exit
  <2> QED
    BY <2>1 DEF ArgsInv
<1>5. CASE init_user_dir \/ EndArgs \/ Rest \/ UNCHANGED vars
  BY <1>1, <1>5 DEF init_user_dir, EndArgs, Rest, vars, cmdVars
<1>6. CASE Start
  BY <1>6 DEF Start, ArgsInv
<1> QED
  BY <1>2, <1>3, <1>4, <1>5, <1>6 DEF Next

(* What the loop makes of the arguments is what they say, for every number *)
(* of them.                                                                *)
THEOREM ArgumentsHonoured == Spec => []ArgumentsAsGiven
<1>1. FilesInv /\ ArgsInv => ArgumentsAsGiven
  <2> SUFFICES ASSUME FilesInv, ArgsInv, stage = "args" PROVE ArgumentsAsGiven
    BY DEF ArgumentsAsGiven
  <2>1. argv = <<>> /\ Decided(Passed) /\ given \in ArgLists
    BY DEF ArgsInv, FilesInv, TypeOK
  <2>2. Passed = Len(given)
    <3>1. Len(given) \in Nat
      BY <2>1 DEF ArgLists, SeqOf
    <3> QED
      BY <2>1, <3>1 DEF Passed
  <2> QED
    BY <2>1, <2>2 DEF ArgumentsAsGiven, Decided
<1> QED
  BY <1>1, FilesInit, FilesNext, ArgsInit, ArgsNext, PTL DEF Spec
=============================================================================
