----------------------------- MODULE ServerStart ----------------------------
(***************************************************************************)
(* From the command line to the end of the server (src/server/vsx-main.c)  *)
(* and the thread that writes its log (src/server/vsx-log.c).              *)
(*                                                                         *)
(* The main function is a sequence of steps, any of which may be the last  *)
(* but for the ones that undo what was done.  The log is a buffer to which *)
(* the main thread adds under a mutex; the log thread takes all of it and  *)
(* writes without the mutex.  What happens under the mutex is one step     *)
(* here.  Of the server only what it logs while it runs is left: the rest  *)
(* is in ServerSocket and Lobby.                                           *)
(***************************************************************************)
EXTENDS Config

CONSTANTS StartPlans,   \* what a start may find, see NoPlan
          MaxLogged     \* so many messages may be logged before it is told to stop

VARIABLES start,    \* what this start finds
          at,       \* the step that main is about to take
          config,   \* what it has read
          sockets,  \* the number of sockets it listens on
          ids,      \* the group and the user it runs as
          status,   \* how the process that was started ended
          told,     \* SIGTERM or SIGINT came while the server ran
          said,     \* the messages given to vsx_log
          log       \* vsx-log.c, its thread and its file

startVars == <<start, at, config, sockets, ids, status, told, said, log>>

\* What is the matter with a plan is one of these, and nothing for a sound one.
Troubles == {"nothing", "arguments", "context", "log file", "socket", "group", "user",
             "fork", "run", "write"}

\* The file of -c, or those of XDG_CONFIG_DIRS in the order they are tried; the other
\* options of the command line; and the sockets that systemd gives.
NoPlan == [files |-> <<>>, daemonize |-> FALSE, fds |-> 0, log_file |-> Unset,
           user |-> Unset, group |-> Unset, trouble |-> "nothing"]
\* A file is what is read of it.
Missing == [there |-> FALSE, read |-> NoConfig]
File(text) == [there |-> TRUE, read |-> ConfigFrom(text)]

Root == [group |-> <<"root">>, user |-> <<"root">>]
NoLog == [open |-> FALSE, buffer |-> <<>>, writing |-> <<>>, file |-> <<>>,
          thread |-> "none", finished |-> FALSE, hadError |-> FALSE]

StartInit ==
    /\ start \in StartPlans
    /\ at = "arguments"
    /\ config = NoConfig
    /\ sockets = 0
    /\ ids = Root
    /\ status = "running"
    /\ told = FALSE
    /\ said = <<>>
    /\ log = NoLog

Exit(how) == at' = "exited" /\ status' = how
GoTo(step) == at' = step /\ UNCHANGED status
Trouble(what) == start.trouble = what

\* The command line is asked before the file.
OptionOf(option) ==
    IF start[option] # Unset THEN start[option] ELSE config.general[option]

(********************************** the log ********************************)
Signalled(l) == [l EXCEPT !.thread = IF @ = "waiting" THEN "woken" ELSE @]

Log(message) ==
    /\ said' = Append(said, message)
    /\ log' = IF log.open THEN Signalled([log EXCEPT !.buffer = Append(@, message)])
              ELSE log

LogOpened(l) == [l EXCEPT !.open = TRUE]
LogStarted(l) ==
    IF l.open /\ l.thread = "none" THEN [l EXCEPT !.thread = "looking"] ELSE l

\* Fault for a mutant: nobody wakes the thread for the end.
FinishedQuietly(l) == [l EXCEPT !.finished = TRUE]
Finished(l) == Signalled([l EXCEPT !.finished = TRUE])

\* With the mutex, at the head of the outer loop or out of a wait.
TakeBuffer(l) ==
    IF l.hadError THEN [l EXCEPT !.buffer = <<>>, !.thread = "looking"]
    ELSE [l EXCEPT !.writing = l.buffer, !.buffer = <<>>, !.thread = "writing"]

LogLooks ==
    /\ log.thread = "looking"
    /\ log' = IF log.buffer # <<>> THEN TakeBuffer(log)
              ELSE [log EXCEPT !.thread = IF log.finished THEN "ended" ELSE "waiting"]
    /\ UNCHANGED <<start, at, config, sockets, ids, status, told, said>>

LogWakes ==
    /\ log.thread = "woken"
    /\ log' = IF log.finished \/ log.buffer # <<>> THEN TakeBuffer(log)
              ELSE [log EXCEPT !.thread = "waiting"]
    /\ UNCHANGED <<start, at, config, sockets, ids, status, told, said>>

\* Without the mutex.  A write that fails may have written some.
LogWrites ==
    /\ log.thread = "writing"
    /\ \E n \in 0..Len(log.writing) :
         /\ n < Len(log.writing) => Trouble("write")
         /\ log' = [log EXCEPT !.file = @ \o SubSeq(log.writing, 1, n),
                               !.hadError = n < Len(log.writing),
                               !.writing = <<>>, !.thread = "looking"]
    /\ UNCHANGED <<start, at, config, sockets, ids, status, told, said>>

LogThread == LogLooks \/ LogWakes \/ LogWrites

(********************************* the start *******************************)
ProcessArguments ==
    /\ at = "arguments"
    /\ IF Trouble("arguments") THEN Exit("failure") ELSE GoTo("load config")
    /\ UNCHANGED <<start, config, sockets, ids, told, said, log>>

\* The first file that there is, be it right or wrong.
Loaded ==
    LET there == SelectSeq(start.files, LAMBDA file : file.there)
    IN  IF there = <<>> THEN NoConfig ELSE Head(there).read

LoadConfig ==
    /\ at = "load config"
    /\ config' = Loaded
    /\ IF Loaded = NoConfig THEN Exit("failure") ELSE GoTo("context")
    /\ UNCHANGED <<start, sockets, ids, told, said, log>>

MakeContext ==
    /\ at = "context"
    /\ IF Trouble("context") THEN GoTo("free") ELSE GoTo("log file")
    /\ UNCHANGED <<start, config, sockets, ids, told, said, log>>

SetLogFile ==
    /\ at = "log file"
    /\ IF OptionOf("log_file") = Unset THEN GoTo("create server") /\ UNCHANGED log
       ELSE IF Trouble("log file") THEN GoTo("free") /\ UNCHANGED log
       ELSE GoTo("create server") /\ log' = LogOpened(log)
    /\ UNCHANGED <<start, config, sockets, ids, told, said>>

CreateServer ==
    /\ at = "create server"
    /\ LET wanted == Len(config.servers)
           bad == start.fds \notin {0, wanted} \/ Trouble("socket")
       IN  /\ sockets' = IF bad THEN 0 ELSE wanted
           /\ IF bad THEN GoTo("close log") ELSE GoTo("privileges")
    /\ UNCHANGED <<start, config, ids, told, said, log>>

\* Only root may become another group or user.
Become(now, what) ==
    IF OptionOf(what) = Unset THEN now ELSE [now EXCEPT ![what] = OptionOf(what)]
MayBecome(now, what) == OptionOf(what) # Unset => now.user = Root.user /\ ~Trouble(what)

Privileges == <<"group", "user">>

DropPrivileges ==
    /\ at = "privileges"
    /\ LET first == Become(ids, Privileges[1])
           second == Become(first, Privileges[2])
       IN  IF MayBecome(ids, Privileges[1]) /\ MayBecome(first, Privileges[2])
           THEN GoTo("daemonize") /\ ids' = second
           ELSE Exit("failure") /\ UNCHANGED ids
    /\ UNCHANGED <<start, config, sockets, told, said, log>>

\* The child goes on without the threads of its parent, which has succeeded.
Forked(l) == [l EXCEPT !.thread = IF @ = "none" THEN @ ELSE "gone"]

Daemonize ==
    /\ at = "daemonize"
    /\ IF ~start.daemonize THEN GoTo("start log") /\ UNCHANGED log
       ELSE IF Trouble("fork") THEN Exit("failure") /\ UNCHANGED log
       ELSE /\ at' = "start log" /\ status' = "success" /\ log' = Forked(log)
    /\ UNCHANGED <<start, config, sockets, ids, told, said>>

StartLog ==
    /\ at = "start log"
    /\ GoTo("listen")
    /\ log' = LogStarted(log)
    /\ UNCHANGED <<start, config, sockets, ids, told, said>>

(********************************** the run ********************************)
Says(from, message, to) ==
    /\ at = from
    /\ Log(message)
    /\ GoTo(to)
    /\ UNCHANGED <<start, config, sockets, ids, told>>

Listen == Says("listen", "listening", "run")

Serve ==
    /\ Len(said) < MaxLogged /\ ~told
    /\ Says("run", Len(said), "run")

QuitSignal ==
    /\ at = "run" /\ ~told
    /\ told' = TRUE
    /\ UNCHANGED <<start, at, config, sockets, ids, status, said, log>>

QuitCallback == told /\ Says("run", "quit", "exit")
FatalError == Trouble("run") /\ Says("run", "error", "exit")
SayExiting == Says("exit", "exiting", "free server")

\* Those who still play leave, and their games go, which is logged.
FreeServer ==
    /\ at = "free server"
    /\ sockets' = 0
    /\ Log("left")
    /\ GoTo("close log")
    /\ UNCHANGED <<start, config, ids, told>>

CloseLog ==
    /\ at = "close log"
    /\ GoTo("join log")
    /\ log' = IF log.thread = "none" THEN log ELSE Finished(log)
    /\ UNCHANGED <<start, config, sockets, ids, told, said>>

JoinLog ==
    /\ at = "join log"
    /\ log.thread \in {"none", "ended"}
    /\ GoTo("free")
    /\ log' = [log EXCEPT !.thread = "none", !.buffer = <<>>, !.open = FALSE]
    /\ UNCHANGED <<start, config, sockets, ids, told, said>>

\* Whatever happened after the configuration was read, main returns zero.
Free ==
    /\ at = "free"
    /\ at' = "exited"
    /\ status' = "success"
    /\ UNCHANGED <<start, config, sockets, ids, told, said, log>>

Main ==
    \/ ProcessArguments \/ LoadConfig \/ MakeContext \/ SetLogFile \/ CreateServer
    \/ DropPrivileges \/ Daemonize \/ StartLog \/ Listen \/ QuitCallback \/ SayExiting
    \/ FreeServer \/ CloseLog \/ JoinLog \/ Free

StartNext == Main \/ LogThread \/ Serve \/ QuitSignal \/ FatalError

(******************************* what it promises **************************)
\* The file that a plan should be run with.
Configuration(plan) ==
    LET there == {i \in DOMAIN plan.files : plan.files[i].there}
    IN  IF there = {} THEN NoConfig
        ELSE plan.files[CHOOSE i \in there : \A j \in there : i <= j].read

ServesAsConfigured ==
    at \in {"listen", "run"} =>
        /\ config = Configuration(start) /\ config # NoConfig
        /\ sockets = Len(config.servers) /\ sockets > 0
        /\ \A what \in {"group", "user"} :
             ids[what] = IF OptionOf(what) = Unset THEN Root[what] ELSE OptionOf(what)
        /\ log.open <=> OptionOf("log_file") # Unset
        /\ log.open <=> log.thread \in {"looking", "waiting", "woken", "writing"}
        /\ start.daemonize <=> status = "success"

\* The file and what is on its way to it are what was said; a write that fails ends
\* the file, and closing the log loses nothing.
LogIsWhatWasSaid ==
    /\ IsPrefix(log.file, said)
    /\ log.open /\ ~log.hadError => log.file \o log.writing \o log.buffer = said
    /\ at = "free" /\ OptionOf("log_file") # Unset /\ ~log.hadError => log.file = said
    /\ at = "exited" => log.thread = "none"

Sound(plan) ==
    /\ plan.trouble \in {"nothing", "write"}
    /\ Configuration(plan) # NoConfig
    /\ plan.fds \in {0, Len(Configuration(plan).servers)}

\* What main and the log thread can do they do in the end; nobody has to log
\* anything, to stop the server or to let it fail.
StartFairness == WF_startVars(Main) /\ WF_startVars(LogThread)

StartSound ==
    /\ [](ServesAsConfigured /\ LogIsWhatWasSaid)
    /\ Sound(start) => <>(at = "run")
    /\ <>(at \in {"run", "exited"})
    /\ (told \/ at = "exit") ~> (at = "exited")
=============================================================================
