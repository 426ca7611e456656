------------------------------- MODULE Startup --------------------------------
(***************************************************************************)
(* The start of the server, from main to its first accept: the             *)
(* configuration (webserver/config/config.c), the logs, the root given as  *)
(* an argument, the listening socket (socket.c), the signals and the       *)
(* statistics (stats.c), with the ways in which each can fail.  Once it    *)
(* accepts, its children look their sites up in the same directory         *)
(* (SiteLookup).                                                           *)
(***************************************************************************)
EXTENDS SiteLookup, FiniteSets, Integers

CONSTANTS
  ServerFiles,  \* what config/server.cfg may be: sequences of lines, or NoFile
  NoFile,       \* config/server.cfg is not there
  LogDirs,      \* the directories in which logs can be written
  Addresses,    \* the addresses this machine can listen on
  Arguments,    \* argv[1]: "none", "good" or "bad", a root that is not usable
  MaxVhosts,    \* MAX_VHOSTS: 100 in the code
  Faults        \* the calls that may fail for reasons outside the model

ASSUME MaxVhostsAssumption == MaxVhosts \in Nat \ {0}
\* The value of a port line is what atoi makes of it.
ASSUME ServerFilesAssumption ==
  \A f \in ServerFiles \ {NoFile} :
    /\ Len(f) \in Nat
    /\ \A i \in 1 .. Len(f) :
         f[i].key = "port" /\ f[i].value # Null => f[i].value \in Int
ASSUME StartFaultsAssumption ==
  Faults \subseteq {"mmap", "socket", "setsockopt", "bind", "listen", "signal",
                    "sigaction", "sem_init"}

VARIABLES
  pc,           \* where main is
  file,         \* server.cfg
  argument,     \* argv[1]
  line,         \* lines of it read so far
  unread,       \* site files readdir has still to return
  config,       \* the static structure of config.c
  vhost_count,  \* its member of that name
  shared,       \* the copy the rest of the program reads, NoFile before it is made
  logs,         \* the logs that are open
  errors,       \* messages in errors.log
  sock,         \* "none" (-1), "bound" or "listening"
  bound,        \* the address and port of the socket
  handlers,     \* the signals whose disposition is set
  ready         \* what init_stats has set up

startVars == <<pc, file, argument, line, unread, config, vhost_count, shared,
               logs, errors, sock, bound, handlers, ready>>
vars == <<startVars, dir, lookupVars>>

\* Groups that a step leaves alone.
configVars == <<line, unread, config, vhost_count, shared>>
serviceVars == <<logs, errors, sock, bound, handlers, ready>>

\* What write_error is given at start-up, by the call or check that failed.
Messages == {"root", "socket", "setsockopt", "bind", "listen", "signal", "sigaction",
             "sem_init", "mmap"}

Settings == {"port", "listen_addr", "mimes_file", "logs_dir"}

\* The port is an unsigned short in sockaddr_in.
MaxPort == 65535
Htons(port) == port % (MaxPort + 1)

Defaults == [port |-> 8080, listen_addr |-> "127.0.0.1",
             mimes_file |-> "/types.txt", logs_dir |-> "/logs/"]

NoAddress == [listen_addr |-> Null, port |-> 0]

StartPoints ==
  {"mmap", "open", "line", "site", "requests.log", "errors.log", "root",
   "socket", "listen", "sigpipe", "sigchld", "semaphore", "stats",
   "accept", "exited", "crashed"}

TypeOK ==
  /\ LookupTypeOK
  /\ pc \in StartPoints
  /\ file \in ServerFiles
  /\ argument \in Arguments
  /\ file # NoFile => line \in 0 .. Len(file)
  /\ dir # NoDir => unread \subseteq DOMAIN dir
  /\ config.port \in Int
  /\ vhost_count \in 0 .. MaxVhosts
  /\ shared # NoFile => DOMAIN shared = Settings
  /\ logs \subseteq {"requests.log", "errors.log"}
  /\ errors \in Seq(Messages)
  /\ sock \in {"none", "bound", "listening"}
  /\ bound.port \in 0 .. MaxPort
  /\ handlers \subseteq {"SIGPIPE", "SIGCHLD"}
  /\ ready \subseteq {"semaphore", "stats"}

Init ==
  /\ LookupInit
  /\ pc = "mmap"
  /\ file \in ServerFiles
  /\ argument \in Arguments
  /\ line = 0
  /\ unread = {}
  /\ config = Defaults
  /\ vhost_count = 0
  /\ shared = NoFile
  /\ logs = {}
  /\ errors = <<>>
  /\ sock = "none"
  /\ bound = NoAddress
  /\ handlers = {}
  /\ ready = {}

-------------------------------------------------------------------------------
(* Steps of main.                                                          *)

\* The part of the state that nothing but start-up changes, and nothing in
\* start-up changes.
Given == <<file, argument, dir, lookupVars>>

Goto(point) == pc' = point

\* write_error: fprintf on a log that is not open is a crash.
WriteError(message, point) ==
  IF "errors.log" \in logs
    THEN errors' = Append(errors, message) /\ Goto(point)
    ELSE UNCHANGED errors /\ Goto("crashed")

\* Fails(call): the call fails; Works(call): it need not.
Fails(call) == call \in Faults

\* init_config gets its shared memory and writes defaults, among them strings
\* through the pointers of an uninitialised vhost_config: it may crash.
InitDefaults ==
  /\ pc = "mmap"
  /\ \/ Fails("mmap") /\ Goto("exited") /\ UNCHANGED <<config, vhost_count>>
     \/ /\ Goto("open") \/ Goto("crashed")
        /\ config' = Defaults
        /\ vhost_count' = 1
  /\ UNCHANGED <<Given, line, unread, shared, serviceVars>>

OpenServerFile ==
  /\ pc = "open"
  /\ Goto(IF file = NoFile THEN "exited" ELSE "line")
  /\ UNCHANGED <<Given, configVars, serviceVars>>

\* strcmp of a line without key, atoi and strcpy of a missing value.
Unusable(l) == l.key = Null \/ (l.key \in Settings /\ l.value = Null)

\* A line of server.cfg; comments are lines with the key "#".
ReadLine ==
  /\ pc = "line"
  /\ line < Len(file)
  /\ line' = line + 1
  /\ LET l == file[line + 1]
     IN  IF Unusable(l)
           THEN Goto("crashed") /\ UNCHANGED config
           ELSE /\ UNCHANGED pc
                /\ config' = IF l.key \in Settings
                               THEN [config EXCEPT ![l.key] = l.value]
                               ELSE config
  /\ UNCHANGED <<Given, unread, vhost_count, shared, serviceVars>>

EndOfLines ==
  /\ pc = "line"
  /\ line = Len(file)
  /\ IF dir = NoDir
       THEN Goto("exited") /\ UNCHANGED <<unread, vhost_count>>
       ELSE Goto("site") /\ unread' = DOMAIN dir /\ vhost_count' = 0
  /\ UNCHANGED <<Given, line, config, shared, serviceVars>>

\* What get_config_from_file does with the lines of a site file: a crash for
\* certain, or one that depends on where uninitialised pointers point to.
DiesReading(f) ==
  \E i \in DOMAIN f.lines :
    \/ f.lines[i].key = Null
    \/ f.lines[i].key \in {"hostname", "root"} /\ f.lines[i].value = Null

MayDieReading(f) ==
  DiesReading(f) \/ \E i \in DOMAIN f.lines : f.lines[i].key \in {"hostname", "root"}

\* Variant for mutation testing: one site too many is let in.
CountSiteTooMany ==
  IF vhost_count <= MaxVhosts
    THEN vhost_count' = vhost_count + 1 /\ UNCHANGED pc
    ELSE Goto("exited") /\ UNCHANGED vhost_count

CountSite ==
  IF vhost_count < MaxVhosts
    THEN vhost_count' = vhost_count + 1 /\ UNCHANGED pc
    ELSE Goto("exited") /\ UNCHANGED vhost_count

RefuseSite == Goto("exited") /\ UNCHANGED vhost_count

\* readdir returns n.
ReadSiteFile(n) ==
  /\ pc = "site"
  /\ n \in unread
  /\ unread' = unread \ {n}
  /\ \/ ~dir[n].readable /\ RefuseSite
     \/ /\ dir[n].readable
        /\ \/ MayDieReading(dir[n]) /\ Goto("crashed") /\ UNCHANGED vhost_count
           \/ ~DiesReading(dir[n]) /\ CountSite
  /\ UNCHANGED <<Given, line, config, shared, serviceVars>>

\* The structure is copied to the shared memory.
EndOfConfig ==
  /\ pc = "site"
  /\ unread = {}
  /\ shared' = config
  /\ Goto("requests.log")
  /\ UNCHANGED <<Given, line, unread, config, vhost_count, serviceVars>>

\* create_requests_logs_file and create_errors_logs_file.
OpenLog(log, next) ==
  /\ pc = log
  /\ IF shared.logs_dir \in LogDirs
       THEN logs' = logs \cup {log} /\ Goto(next)
       ELSE Goto("exited") /\ UNCHANGED logs
  /\ UNCHANGED <<Given, configVars, errors, sock, bound, handlers, ready>>

\* Variant for mutation testing: the second call is forgotten.
OpenLogsOnlyRequests == OpenLog("requests.log", "root")

OpenLogs == OpenLog("requests.log", "errors.log") \/ OpenLog("errors.log", "root")

CheckRoot ==
  /\ pc = "root"
  /\ IF argument = "bad"
       THEN WriteError("root", "exited")
       ELSE UNCHANGED errors /\ Goto("socket")
  /\ UNCHANGED <<Given, configVars, logs, sock, bound, handlers, ready>>

\* create_server; port 0 lets the system choose a port, 1 here.  main prints
\* that the server is running whatever is returned.
CreateServer ==
  LET port == Htons(shared.port)
  IN  /\ pc = "socket"
      /\ \/ /\ \E call \in {"socket", "setsockopt", "bind"} :
                 /\ Fails(call) \/ (call = "bind" /\ shared.listen_addr \notin Addresses)
                 /\ WriteError(call, "listen")
            /\ UNCHANGED <<sock, bound>>
         \/ /\ shared.listen_addr \in Addresses
            /\ sock' = "bound"
            /\ bound' = [listen_addr |-> shared.listen_addr,
                         port |-> IF port = 0 THEN 1 ELSE port]
            /\ Goto("listen")
            /\ UNCHANGED errors
      /\ UNCHANGED <<Given, configVars, logs, handlers, ready>>

\* Variant for mutation testing: the result of listen is not looked at.
ListenUnchecked ==
  /\ pc = "listen"
  /\ sock' = IF sock = "bound" THEN "listening" ELSE sock
  /\ Goto("sigpipe")
  /\ UNCHANGED <<Given, configVars, logs, errors, bound, handlers, ready>>

\* listen fails on -1 too: main has not looked at what create_server returned.
Listen ==
  /\ pc = "listen"
  /\ \/ /\ sock = "none" \/ Fails("listen")
        /\ WriteError("listen", "exited")
        /\ UNCHANGED sock
     \/ /\ sock = "bound"
        /\ sock' = "listening"
        /\ Goto("sigpipe")
        /\ UNCHANGED errors
  /\ UNCHANGED <<Given, configVars, logs, bound, handlers, ready>>

\* A call of init_signals or init_stats that succeeds or ends the program.
Setup(point, call, next) ==
  /\ pc = point
  /\ \/ Fails(call) /\ WriteError(call, "exited") /\ UNCHANGED <<handlers, ready>>
     \/ /\ Goto(next)
        /\ handlers' = CASE point = "sigpipe" -> handlers \cup {"SIGPIPE"}
                         [] point = "sigchld" -> handlers \cup {"SIGCHLD"}
                         [] OTHER -> handlers
        /\ ready' = IF point \in {"semaphore", "stats"} THEN ready \cup {point} ELSE ready
        /\ UNCHANGED errors
  /\ UNCHANGED <<Given, configVars, logs, sock, bound>>

InitSignals == \/ Setup("sigpipe", "signal", "sigchld")
               \/ Setup("sigchld", "sigaction", "semaphore")

InitStats == \/ Setup("semaphore", "sem_init", "stats")
             \/ Setup("stats", "mmap", "accept")

\* The children of the running server.
Lookup == pc = "accept" /\ LookupStep /\ UNCHANGED startVars

Next ==
  \/ InitDefaults \/ OpenServerFile \/ ReadLine \/ EndOfLines
  \/ \E n \in unread : ReadSiteFile(n)
  \/ EndOfConfig \/ OpenLogs \/ CheckRoot \/ CreateServer \/ Listen
  \/ InitSignals \/ InitStats
  \/ Lookup

Spec == Init /\ [][Next]_vars

-------------------------------------------------------------------------------
\* When main comes to its first accept, everything its loop and its children
\* use is there: both logs, a socket that listens, on the address and port of
\* the configuration, the two signal dispositions, the semaphore and the
\* statistics (main.c:38-64).
ReadyToAccept ==
  pc = "accept" =>
    /\ logs = {"requests.log", "errors.log"}
    /\ sock = "listening"
    /\ bound.listen_addr = shared.listen_addr
    /\ shared.port \in 1 .. MaxPort => bound.port = shared.port
    /\ handlers = {"SIGPIPE", "SIGCHLD"}
    /\ ready = {"semaphore", "stats"}

\* A start that fails once errors.log is open says why in it, and a start that
\* crashes does so while the configuration is read: nobody calls write_error
\* before there is a log (config.c, main.c:43-64).
FailsInTheLog ==
  /\ pc = "exited" /\ "errors.log" \in logs => errors # <<>>
  /\ pc = "crashed" => logs = {}
===============================================================================
