------------------------------- MODULE Files -------------------------------
(***************************************************************************)
(* Namespace PATH_CLASS (mfilesystem.cpp), redirect_out_to_log (debug.cpp) *)
(* and main's start-up up to them (main.cpp:48-140): the map of            *)
(* directories, the arguments, the log directory, and where a daemon's     *)
(* output goes.                                                            *)
(*                                                                         *)
(* A path is a sequence of tokens: names, "/", and "NUL", the byte that    *)
(* ends it for the C library but not for std::string.                      *)
(***************************************************************************)
EXTENDS Integers, Sequences, SequencesExt, Functions

CONSTANTS LogNames,     \* names of the form *.log
          OtherNames,   \* names of another form
          Limit,        \* bytes from which a log is too large (1000000)
          MaxSize,      \* bound: size of a file
          Texts,        \* arguments that are no option, with atoi's result
          MaxArgs,      \* bound: arguments of a start
          MaxRuns       \* bound: starts of the program

ASSUME FilesAssumption ==
    /\ LogNames \cap OtherNames = {} /\ {"access.log", "error.log"} \subseteq LogNames
    /\ {"terminal", "closed"} \cap (LogNames \cup OtherNames) = {}
    /\ Limit \in Nat /\ MaxSize \in Nat /\ MaxArgs \in Nat /\ MaxRuns \in Nat \ {0}
    /\ {"--help", "--daemon", "--learn"} \cap {text[1] : text \in Texts} = {}

FileNames == LogNames \cup OtherNames

UserDir == <<"home", "/", ".SmartIR">>
DataDir == UserDir \o <<"/", "datas">>
LogDir == UserDir \o <<"/", "logs">>
PythonDir == <<"cwd", "/">> \o <<"python">>

(* What the C library takes of a std::string. *)
CString(path) ==
    SubSeq(path, 1, SelectInSeq(path \o <<"NUL">>, LAMBDA token : token = "NUL") - 1)

(* The file or directory it names: a "/" at its end adds nothing, and a    *)
(* relative path starts at the working directory.                          *)
Named(path) ==
    LET p == CString(path)
        q == IF p # <<>> /\ Last(p) = "/" THEN Front(p) ELSE p
    IN  IF q # <<>> /\ q[1] \notin {"home", "cwd"} THEN <<"cwd", "/">> \o q ELSE q

VARIABLES
    stage,      \* main is past: "start", "user", "data", "args", "fork",
                \* "check", "redirect"; "run", or "gone" (the process has ended)
    given,      \* the arguments (ghost), until they are no longer of interest
    argv,       \* those the loop has not passed
    daemon,     \* is_daemon
    l_c,        \* the argument of --learn
    FILENAMES,
    dirs,       \* directories that exist
    files,      \* names in the log directory, with their sizes
    moved,      \* names check_logs renamed, over all runs (ghost)
    out, err,   \* stdout and stderr: "terminal", a file name, or "closed"
    runs        \* starts so far

cmdVars == <<given, argv, daemon, l_c>>
vars == <<stage, cmdVars, FILENAMES, dirs, files, moved, out, err, runs>>

Options == {"--help", "--daemon", "--learn"}
ArgLists == SeqOf(Options \cup {text[1] : text \in Texts}, MaxArgs)

(* An option is no number to it either. *)
atoi(text) == IF text \in Options THEN 0 ELSE (CHOOSE t \in Texts : t[1] = text)[2]

TypeOK ==
    /\ stage \in {"start", "user", "data", "args", "fork", "check", "redirect",
                 "run", "gone"}
    /\ {given, argv} \subseteq ArgLists /\ daemon \in BOOLEAN
    /\ l_c \in {0, 1} \cup {text[2] : text \in Texts}
    /\ DOMAIN FILENAMES \subseteq
         {"basedir", "userdir", "datadir", "logdir", "baseadir", "pythondir"}
    /\ dirs \subseteq {UserDir, DataDir, LogDir, PythonDir}
    /\ DOMAIN files \subseteq FileNames
    /\ \A name \in DOMAIN files : files[name] \in 0..MaxSize
    /\ files # <<>> => LogDir \in dirs
    /\ moved \subseteq FileNames
    /\ {out, err} \subseteq {"terminal", "closed"} \cup FileNames
    /\ runs \in 1..MaxRuns

(* The directories may be there from earlier times, with logs in them. *)
Init ==
    /\ stage = "start" /\ FILENAMES = <<>>
    /\ given = <<>> /\ argv = <<>> /\ daemon = FALSE /\ l_c = 1
    /\ \/ dirs = {} /\ files = <<>>
       \/ /\ dirs = {UserDir, LogDir}
          /\ \E names \in SUBSET FileNames : files \in [names -> 0..MaxSize]
    /\ moved = {} /\ out = "terminal" /\ err = "terminal" /\ runs = 1
-----------------------------------------------------------------------------
(* assure_dir_exist makes the last directory of the path, or fails to and  *)
(* nobody looks.                                                           *)
AfterAssure(known, path) ==
    LET parent == Front(Front(Named(path)))
    IN  {known} \cup
        IF Named(path) \in known \/ parent \in known \cup {<<"home">>, <<"cwd">>}
        THEN {known \cup {Named(path)}} ELSE {}

(* map[name] = value; a name the map lacks is added. *)
Put(map, name, value) ==
    [n \in {name} \cup DOMAIN map |-> IF n = name THEN value ELSE map[n]]

(* Mutant: only "/" is appended. *)
update_pathname_slash(map, name, path) == Put(map, name, path \o <<"/">>)

(* The test whether the path ends in a slash is always true, and the NUL   *)
(* becomes a character of the string.                                      *)
update_pathname(map, name, path) == Put(map, name, path \o <<"/", "NUL">>)

(* getcwd fails or HOME is not set: an exception nobody catches. *)
NoHome ==
    /\ stage = "start" /\ stage' = "gone"
    /\ UNCHANGED <<cmdVars, FILENAMES, dirs, files, moved, out, err, runs>>

init_user_dir ==
    /\ stage = "start" /\ stage' = "user"
    /\ FILENAMES' = [basedir |-> <<"cwd", "/">>, userdir |-> UserDir \o <<"/">>]
    /\ dirs' \in AfterAssure(dirs, FILENAMES'["userdir"])
    /\ UNCHANGED <<cmdVars, files, moved, out, err, runs>>

(* FILENAMES["baseadir"] is misspelt: it adds an empty entry, and the      *)
(* directory assured is "python" wherever the program was started.  Then   *)
(* the arguments are looked at.                                            *)
update_datadir ==
    /\ stage = "user" /\ stage' = "data"
    /\ LET user == FILENAMES["userdir"]
           base == FILENAMES["basedir"]
           withData == update_pathname(FILENAMES, "datadir", user \o <<"datas">>)
           withLogs == update_pathname(withData, "logdir", user \o <<"logs">>)
           misspelt == Put(withLogs, "baseadir", <<>>)
       IN  /\ FILENAMES' = update_pathname(misspelt, "pythondir", base \o <<"python">>)
           /\ \E d1 \in AfterAssure(dirs, user \o <<"datas">>) :
              \E d2 \in AfterAssure(d1, user \o <<"logs">>) :
                 dirs' \in AfterAssure(d2, misspelt["baseadir"] \o <<"python">>)
    /\ given' \in ArgLists /\ argv' = given'
    /\ UNCHANGED <<daemon, l_c, files, moved, out, err, runs>>

(* --help ends the program; so does --learn as the last argument, whose    *)
(* handler converts the NULL behind argv.                                  *)
EndingArg ==
    /\ stage = "data" /\ argv # <<>>
    /\ Head(argv) = "--help" \/ argv = <<"--learn">>
    /\ stage' = "gone"
    /\ given' = <<>> /\ argv' = <<>>
    /\ UNCHANGED <<daemon, l_c, FILENAMES, dirs, files, moved, out, err, runs>>

(* Mutant: --learn's handler says it consumed nothing. *)
ParseArgKeepsValue ==
    /\ stage = "data" /\ argv # <<>>
    /\ Head(argv) # "--help" /\ argv # <<"--learn">>
    /\ argv' = Tail(argv)
    /\ daemon' = (daemon \/ Head(argv) = "--daemon")
    /\ l_c' = IF Head(argv) = "--learn" THEN atoi(argv[2]) ELSE l_c
    /\ UNCHANGED <<stage, given, FILENAMES, dirs, files, moved, out, err, runs>>

(* Mutant: the values of several --learn add up. *)
ParseArgAddsUp ==
    /\ stage = "data" /\ argv # <<>>
    /\ Head(argv) # "--help" /\ argv # <<"--learn">>
    /\ argv' = IF Head(argv) = "--learn" THEN Tail(Tail(argv)) ELSE Tail(argv)
    /\ daemon' = (daemon \/ Head(argv) = "--daemon")
    /\ l_c' = IF Head(argv) = "--learn" THEN l_c + atoi(argv[2]) ELSE l_c
    /\ UNCHANGED <<stage, given, FILENAMES, dirs, files, moved, out, err, runs>>

(* One turn of the argument loop: an option with what its handler          *)
(* consumes, or an argument to skip.                                       *)
ParseArg ==
    /\ stage = "data" /\ argv # <<>>
    /\ Head(argv) # "--help" /\ argv # <<"--learn">>
    /\ argv' = IF Head(argv) = "--learn" THEN Tail(Tail(argv)) ELSE Tail(argv)
    /\ daemon' = (daemon \/ Head(argv) = "--daemon")
    /\ l_c' = IF Head(argv) = "--learn" THEN atoi(argv[2]) ELSE l_c
    /\ UNCHANGED <<stage, given, FILENAMES, dirs, files, moved, out, err, runs>>

EndArgs ==
    /\ stage = "data" /\ argv = <<>> /\ stage' = "args"
    /\ UNCHANGED <<cmdVars, FILENAMES, dirs, files, moved, out, err, runs>>

(* A daemon: fork and setsid, or the end; else the terminal is cleared. *)
Daemonize ==
    /\ stage = "args"
    /\ stage' \in (IF daemon THEN {"fork", "gone"} ELSE {"fork"})
    /\ given' = <<>>
    /\ UNCHANGED <<argv, daemon, l_c, FILENAMES, dirs, files, moved, out, err, runs>>

(* opendir of a directory that is missing gives NULL, which readdir takes. *)
CheckFails ==
    /\ stage = "fork" /\ Named(FILENAMES["logdir"]) \notin dirs
    /\ stage' = "gone"
    /\ UNCHANGED <<cmdVars, FILENAMES, dirs, files, moved, out, err, runs>>

(* full_file_name: a slash goes in between unless directory ends in one. *)
FullName(directory, name) ==
    directory \o (IF Last(directory) = "/" THEN <<name>> ELSE <<"/", name>>)

(* The names for which stat finds a plain file. *)
GetFilesInDirectory(directory) ==
    {name \in DOMAIN files : Named(FullName(directory, name)) = LogDir \o <<"/", name>>}

(* Every file found that is too large and a log is renamed. *)
check_logs ==
    /\ stage = "fork" /\ Named(FILENAMES["logdir"]) \in dirs
    /\ stage' = "check"
    /\ LET large == {name \in GetFilesInDirectory(FILENAMES["logdir"]) :
                       files[name] >= Limit /\ name \in LogNames}
       IN  /\ files' = Restrict(files, DOMAIN files \ large)
           /\ moved' = moved \cup large
    /\ UNCHANGED <<cmdVars, FILENAMES, dirs, out, err, runs>>

(* freopen(path, "w", stream): the file, emptied, or for a directory an    *)
(* error that leaves the stream closed.                                    *)
Reopened(name) ==
    IF Named(FILENAMES["logdir"] \o <<name>>) = LogDir \o <<"/", name>>
    THEN name ELSE "closed"

redirect_out_to_log ==
    /\ stage = "check" /\ daemon
    /\ stage' = "redirect"
    /\ out' = Reopened("access.log") /\ err' = Reopened("error.log")
    /\ files' = [name \in DOMAIN files \cup ({out', err'} \ {"closed"}) |->
                   IF name \in {out', err'} THEN 0 ELSE files[name]]
    /\ UNCHANGED <<cmdVars, FILENAMES, dirs, moved, runs>>

(* init_log and everything logged after it. *)
Log ==
    /\ stage \in {"redirect", "run"} \/ (stage = "check" /\ ~daemon)
    /\ stage' = "run"
    /\ files' = [name \in DOMAIN files |->
                   IF name \in {out, err} /\ files[name] < MaxSize
                   THEN files[name] + 1 ELSE files[name]]
    /\ UNCHANGED <<cmdVars, FILENAMES, dirs, moved, out, err, runs>>

Exit ==
    /\ stage = "run" /\ stage' = "gone"
    /\ UNCHANGED <<cmdVars, FILENAMES, dirs, files, moved, out, err, runs>>

(* The program is started again. *)
Start ==
    /\ stage = "gone" /\ runs < MaxRuns
    /\ stage' = "start"
    /\ given' = <<>> /\ argv' = <<>> /\ daemon' = FALSE /\ l_c' = 1
    /\ FILENAMES' = <<>> /\ out' = "terminal" /\ err' = "terminal"
    /\ runs' = runs + 1
    /\ UNCHANGED <<dirs, files, moved>>

(* The bound stops it here. *)
Rest == stage = "gone" /\ runs = MaxRuns /\ UNCHANGED vars

Next ==
    \/ NoHome \/ init_user_dir \/ update_datadir
    \/ EndingArg \/ ParseArg \/ EndArgs \/ Daemonize
    \/ CheckFails \/ check_logs \/ redirect_out_to_log \/ Log
    \/ Exit \/ Start \/ Rest

Spec == Init /\ [][Next]_vars
-----------------------------------------------------------------------------
(* Do exactly n of --learn stand in a row before the k-th argument?  It is *)
(* the value of the last of them if n is odd.                              *)
LearnsBefore(k, n) ==
    /\ \A i \in (k - n)..(k - 1) : given[i] = "--learn"
    /\ n = k - 1 \/ given[k - n - 1] # "--learn"

IsValue(k) == \E n \in 0..(k - 1) : n % 2 = 1 /\ LearnsBefore(k, n)

(* Of the first n arguments, those that count as this option. *)
Counted(flag, n) == {k \in 1..n : given[k] = flag /\ ~IsValue(k)}

(* main.cpp:80-110.  An option counts unless it is the value of a --learn  *)
(* before it, the last --learn decides, and one without a value or a       *)
(* --help that counts lets no start come this far.                         *)
ArgumentsAsGiven ==
    stage = "args" =>
        LET counted(flag) == Counted(flag, Len(given))
            learns == counted("--learn")
        IN  /\ daemon <=> counted("--daemon") # {}
            /\ counted("--help") = {} /\ Len(given) \notin learns
            /\ l_c = IF learns = {} THEN 1 ELSE atoi(given[Max(learns) + 1])

(* mfilesystem.cpp:173-193, main.cpp:54-55.  To the C library the paths    *)
(* of update_datadir name the directories it has assured; and with a name  *)
(* appended as a std::string they go on naming the directory.              *)
PathsReachDirsOnly ==
    stage \notin {"start", "user", "gone"} =>
        LET named(name) == Named(FILENAMES[name])
            below(name, file) == Named(FILENAMES[name] \o <<file>>)
        IN  /\ named("datadir") = DataDir /\ named("logdir") = LogDir
            /\ named("pythondir") = PythonDir
            /\ \A name \in {"datadir", "logdir", "pythondir"}, file \in FileNames :
                 below(name, file) = named(name)

(* mfilesystem.cpp:198-215, debug.cpp:167-170.  Over all runs the program  *)
(* neither renames, nor makes, nor empties, nor writes a file in the log   *)
(* directory it sets up.                                                   *)
LogsNeverTouched == [][ files' = files /\ moved' = moved ]_vars

(* debug.cpp:167-170.  From its redirection on, all a daemon says is lost. *)
DaemonSilent ==
    daemon /\ stage \in {"redirect", "run"} => out = "closed" /\ err = "closed"

(* mfilesystem.cpp:211 says of check_logs "current log too large move it": *)
(* once it has run, no log of Limit bytes is left.                         *)
LargeLogsMoved ==
    stage = "check" => \A name \in DOMAIN files \cap LogNames : files[name] < Limit
=============================================================================
