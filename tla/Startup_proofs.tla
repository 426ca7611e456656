---------------------------- MODULE Startup_proofs ----------------------------
(***************************************************************************)
(* What main has when it comes to its first accept, and how a start fails, *)
(* for any files, limits and faults.                                       *)
(***************************************************************************)
EXTENDS Startup, SequenceTheorems, TLAPS

\* The points of main before the logs are open, and after each of its stages.
Configuring == {"mmap", "open", "line", "site", "requests.log"}
AfterLogs == {"root", "socket", "listen", "sigpipe", "sigchld", "semaphore",
              "stats", "accept"}
AfterListen == {"sigpipe", "sigchld", "semaphore", "stats", "accept"}

\* The socket has the address and port of the configuration.
IsPort(port) == port \in 1 .. MaxPort
BoundAsConfigured ==
  /\ bound.listen_addr = shared.listen_addr
  /\ IsPort(shared.port) => bound.port = shared.port

LogsInv ==
  /\ pc \in Configuring \cup {"crashed"} => logs = {}
  /\ pc = "errors.log" => logs = {"requests.log"}
  /\ pc \in AfterLogs => logs = {"requests.log", "errors.log"}

SocketInv ==
  /\ pc = "listen" => sock = "none" \/ (sock = "bound" /\ BoundAsConfigured)
  /\ pc \in Configuring \cup {"errors.log", "root", "socket"} => sock = "none"
  /\ pc \in AfterListen => sock = "listening" /\ BoundAsConfigured

\* The four calls of init_signals and init_stats in their order.
SetupInv ==
  /\ pc = "sigchld" => handlers = {"SIGPIPE"}
  /\ pc \in {"semaphore", "stats", "accept"} => handlers = {"SIGPIPE", "SIGCHLD"}
  /\ pc \notin {"sigchld", "semaphore", "stats", "accept", "exited", "crashed"}
       => handlers = {}
  /\ pc = "stats" => ready = {"semaphore"}
  /\ pc = "accept" => ready = {"semaphore", "stats"}
  /\ pc \notin {"stats", "accept", "exited", "crashed"} => ready = {}

\* An exit after the logs are open has left a message.
ExitInv ==
  /\ errors \in Seq(Messages)
  /\ pc = "exited" /\ "errors.log" \in logs => errors # <<>>

StartInv == LogsInv /\ SocketInv /\ SetupInv /\ ExitInv

LEMMA StartInit == Init => StartInv
BY DEF Init, StartInv, LogsInv, SocketInv, SetupInv, ExitInv, Configuring, AfterLogs,
       AfterListen

\* The steps before the logs change neither the logs nor anything after them.
Configure ==
  /\ pc \in Configuring
  /\ pc' \in Configuring \cup {"exited", "crashed"}
  /\ UNCHANGED serviceVars

LEMMA Steps ==
  ASSUME [Next]_vars
  PROVE  \/ Configure \/ OpenLogs \/ CheckRoot \/ CreateServer \/ Listen
         \/ InitSignals \/ InitStats \/ UNCHANGED startVars
<1>1. CASE InitDefaults
  BY <1>1 DEF InitDefaults, Configure, Configuring, Goto
<1>2. CASE OpenServerFile
  BY <1>2 DEF OpenServerFile, Configure, Configuring, Goto
<1>3. CASE ReadLine
  BY <1>3 DEF ReadLine, Configure, Configuring, Goto
<1>4. CASE EndOfLines
  BY <1>4 DEF EndOfLines, Configure, Configuring, Goto
<1>5. ASSUME NEW n \in unread, ReadSiteFile(n) PROVE Configure
  BY <1>5 DEF ReadSiteFile, CountSite, RefuseSite, Configure, Configuring, Goto
<1>6. CASE EndOfConfig
  BY <1>6 DEF EndOfConfig, Configure, Configuring, Goto
<1>7. CASE Lookup
  BY <1>7 DEF Lookup
<1>8. CASE UNCHANGED vars
  BY <1>8 DEF vars
<1> QED
  BY <1>1, <1>2, <1>3, <1>4, <1>5, <1>6, <1>7, <1>8 DEF Next

\* write_error with both logs open goes where it is to go.
LEMMA Written ==
  ASSUME NEW message, NEW point, WriteError(message, point),
         logs = {"requests.log", "errors.log"}
  PROVE  pc' = point /\ errors' = Append(errors, message)
BY DEF WriteError, Goto

-------------------------------------------------------------------------------
(* The logs.                                                               *)

LEMMA LogsStep == StartInv /\ [Next]_vars => LogsInv'
<1> SUFFICES ASSUME StartInv, [Next]_vars PROVE LogsInv'
  OBVIOUS
<1>1. LogsInv
  BY DEF StartInv
<1> USE <1>1 DEF LogsInv, Configuring, AfterLogs
<1>2. CASE Configure
  BY <1>2 DEF Configure, serviceVars
<1>3. CASE OpenLogs
  BY <1>3 DEF OpenLogs, OpenLog, Goto
<1>4. CASE CheckRoot
  BY <1>4, Written DEF CheckRoot, Goto
<1>5. CASE CreateServer
  BY <1>5, Written DEF CreateServer, Goto
<1>6. CASE Listen
  BY <1>6, Written DEF Listen, Goto
<1>7. ASSUME NEW point \in AfterLogs, NEW call, NEW next \in AfterLogs,
             Setup(point, call, next)
      PROVE  LogsInv'
  BY <1>7, Written DEF Setup, Goto
<1>8. CASE UNCHANGED startVars
  BY <1>8 DEF startVars
<1> QED
  BY <1>2, <1>3, <1>4, <1>5, <1>6, <1>7, <1>8, Steps DEF InitSignals, InitStats

-------------------------------------------------------------------------------
(* The socket.                                                             *)

LEMMA ModSmaller ==
  ASSUME NEW p \in Int, NEW m \in Int, 0 < p, p < m
  PROVE  p % m = p
OBVIOUS

\* htons keeps a port that is one.
LEMMA HtonsKeeps ==
  ASSUME NEW port, IsPort(port)
  PROVE  Htons(port) = port /\ Htons(port) # 0
<1>1. MaxPort \in Nat
  BY DEF MaxPort
<1>2. PICK p \in 1 .. MaxPort : p = port
  BY DEF IsPort
<1>3. p \in Int /\ 0 < p /\ p < MaxPort + 1
  BY <1>1
<1>4. p % (MaxPort + 1) = p
  BY <1>1, <1>3, ModSmaller
<1> QED
  BY <1>2, <1>3, <1>4 DEF Htons

LEMMA BoundStays ==
  ASSUME UNCHANGED <<bound, shared>>
  PROVE  BoundAsConfigured' = BoundAsConfigured
BY DEF BoundAsConfigured

LEMMA SocketBound ==
  ASSUME CreateServer, sock' = "bound", sock = "none"
  PROVE  BoundAsConfigured'
<1>1. /\ shared' = shared
      /\ bound' = [listen_addr |-> shared.listen_addr,
                   port |-> IF Htons(shared.port) = 0 THEN 1 ELSE Htons(shared.port)]
  BY DEF CreateServer, configVars
<1>2. IsPort(shared.port) => bound'.port = shared.port
  BY <1>1, HtonsKeeps
<1> QED
  BY <1>1, <1>2 DEF BoundAsConfigured

\* main comes to listen without a socket when create_server failed.
LEMMA NoSocket ==
  ASSUME pc' = "listen", sock' = "none"
  PROVE  SocketInv'
BY DEF SocketInv, Configuring, AfterListen

LEMMA SocketStep == StartInv /\ [Next]_vars => SocketInv'
<1> SUFFICES ASSUME StartInv, [Next]_vars PROVE SocketInv'
  OBVIOUS
<1>1. SocketInv /\ (pc \in AfterLogs => logs = {"requests.log", "errors.log"})
  BY DEF StartInv, LogsInv
<1> USE <1>1 DEF SocketInv, Configuring, AfterListen, AfterLogs
<1>2. CASE Configure
  BY <1>2 DEF Configure, serviceVars
<1>3. CASE OpenLogs
  BY <1>3 DEF OpenLogs, OpenLog, Goto
<1>4. CASE CheckRoot
  BY <1>4, Written DEF CheckRoot, Goto
<1>5. CASE CreateServer
  <2>1. pc = "socket" /\ sock = "none"
    BY <1>5 DEF CreateServer
  <2>2. ASSUME NEW call, WriteError(call, "listen"), UNCHANGED <<sock, bound>>
        PROVE  SocketInv'
    <3>1. pc' = "listen" /\ sock' = "none"
      BY <2>1, <2>2, Written
    <3> QED
      BY <3>1, NoSocket
  <2>3. CASE sock' = "bound" /\ Goto("listen")
    BY <1>5, <2>1, <2>3, SocketBound DEF Goto
  <2> QED
    BY <1>5, <2>2, <2>3 DEF CreateServer
<1>6. CASE Listen
  BY <1>6, Written, BoundStays DEF Listen, Goto, configVars
<1>7. ASSUME NEW point \in AfterListen, NEW call, NEW next \in AfterListen,
             Setup(point, call, next)
      PROVE  SocketInv'
  BY <1>7, Written, BoundStays DEF Setup, Goto, configVars
<1>8. CASE UNCHANGED startVars
  BY <1>8, BoundStays DEF startVars
<1> QED
  BY <1>2, <1>3, <1>4, <1>5, <1>6, <1>7, <1>8, Steps DEF InitSignals, InitStats

-------------------------------------------------------------------------------
(* Signals and statistics.                                                 *)

LEMMA SetupStep == StartInv /\ [Next]_vars => SetupInv'
<1> SUFFICES ASSUME StartInv, [Next]_vars PROVE SetupInv'
  OBVIOUS
<1>1. SetupInv /\ (pc \in AfterLogs => logs = {"requests.log", "errors.log"})
  BY DEF StartInv, LogsInv
<1> USE <1>1 DEF SetupInv, AfterLogs
<1>2. CASE Configure
  BY <1>2 DEF Configure, serviceVars, Configuring
<1>3. CASE OpenLogs
  BY <1>3 DEF OpenLogs, OpenLog, Goto
<1>4. CASE CheckRoot
  BY <1>4, Written DEF CheckRoot, Goto
<1>5. CASE CreateServer
  BY <1>5, Written DEF CreateServer, Goto
<1>6. CASE Listen
  BY <1>6, Written DEF Listen, Goto
<1>7. CASE Setup("sigpipe", "signal", "sigchld")
  BY <1>7, Written DEF Setup, Goto
<1>8. CASE Setup("sigchld", "sigaction", "semaphore")
  BY <1>8, Written DEF Setup, Goto
<1>9. CASE Setup("semaphore", "sem_init", "stats")
  BY <1>9, Written DEF Setup, Goto
<1>10. CASE Setup("stats", "mmap", "accept")
  BY <1>10, Written DEF Setup, Goto
<1>11. CASE UNCHANGED startVars
  BY <1>11 DEF startVars
<1> QED
  BY <1>2, <1>3, <1>4, <1>5, <1>6, <1>7, <1>8, <1>9, <1>10, <1>11, Steps
  DEF InitSignals, InitStats

-------------------------------------------------------------------------------
(* Exits.                                                                  *)

\* A message that is written stays.
LEMMA WriteErrorStep ==
  ASSUME ExitInv, LogsInv, NEW message \in Messages, NEW point,
         WriteError(message, point)
  PROVE  ExitInv'
<1>1. Append(errors, message) \in Seq(Messages) /\ Append(errors, message) # <<>>
  BY AppendProperties DEF ExitInv
<1>2. CASE "errors.log" \in logs
  BY <1>1, <1>2 DEF WriteError, ExitInv
<1>3. CASE "errors.log" \notin logs
  BY <1>3 DEF WriteError, ExitInv, Goto
<1> QED
  BY <1>2, <1>3

LEMMA ExitStep == StartInv /\ [Next]_vars => ExitInv'
<1> SUFFICES ASSUME StartInv, [Next]_vars PROVE ExitInv'
  OBVIOUS
<1>1. ExitInv /\ LogsInv
  BY DEF StartInv
<1>2. CASE Configure
  <2>1. errors' = errors /\ logs' = {}
    BY <1>1, <1>2 DEF Configure, serviceVars, LogsInv
  <2> QED
    BY <1>1, <2>1 DEF ExitInv
<1>3. CASE OpenLogs
  BY <1>1, <1>3 DEF OpenLogs, OpenLog, Goto, ExitInv, LogsInv, Configuring
<1>4. ASSUME NEW message \in Messages, NEW point, WriteError(message, point)
      PROVE  ExitInv'
  BY <1>1, <1>4, WriteErrorStep
<1>5. ASSUME NEW point, point # "exited", UNCHANGED errors, Goto(point)
      PROVE  ExitInv'
  BY <1>1, <1>5 DEF ExitInv, Goto
<1>6. CASE CheckRoot
  BY <1>4, <1>5, <1>6 DEF CheckRoot, Messages
<1>7. CASE CreateServer
  BY <1>4, <1>5, <1>7 DEF CreateServer, Messages
<1>8. CASE Listen
  BY <1>4, <1>5, <1>8 DEF Listen, Messages
<1>9. ASSUME NEW point, NEW call \in Messages, NEW next, next # "exited",
             Setup(point, call, next)
      PROVE  ExitInv'
  BY <1>4, <1>5, <1>9 DEF Setup
<1>10. CASE UNCHANGED startVars
  BY <1>1, <1>10 DEF startVars, ExitInv
<1> QED
  BY <1>2, <1>3, <1>6, <1>7, <1>8, <1>9, <1>10, Steps
  DEF InitSignals, InitStats, Messages

-------------------------------------------------------------------------------
\* The stages of the start follow each other: whatever fails, what a point of
\* main relies on has been done.
THEOREM StartInvariance == Spec => []StartInv
<1>1. StartInv /\ [Next]_vars => StartInv'
  BY LogsStep, SocketStep, SetupStep, ExitStep DEF StartInv
<1> QED
  BY <1>1, StartInit, PTL DEF Spec

\* main comes to accept with its logs, its socket, its handlers and its
\* statistics (main.c:38-64).
THEOREM ReadyToAcceptHolds == Spec => []ReadyToAccept
<1>1. StartInv => ReadyToAccept
  <2> SUFFICES ASSUME StartInv, pc = "accept" PROVE ReadyToAccept
    BY DEF ReadyToAccept
  <2>1. logs = {"requests.log", "errors.log"}
    BY DEF StartInv, LogsInv, AfterLogs
  <2>2. sock = "listening" /\ BoundAsConfigured
    BY DEF StartInv, SocketInv, AfterListen
  <2>3. handlers = {"SIGPIPE", "SIGCHLD"} /\ ready = {"semaphore", "stats"}
    BY DEF StartInv, SetupInv
  <2> QED
    BY <2>1, <2>2, <2>3 DEF ReadyToAccept, BoundAsConfigured, IsPort
<1> QED
  BY <1>1, StartInvariance, PTL

\* A start fails with a message, once there is a log, or crashes before.
THEOREM FailsInTheLogHolds == Spec => []FailsInTheLog
<1>1. StartInv => FailsInTheLog
  BY DEF StartInv, LogsInv, ExitInv, FailsInTheLog
<1> QED
  BY <1>1, StartInvariance, PTL
-------------------------------------------------------------------------------
(* The lookups of the children.                                            *)

\* The lookup has a file open, or has stopped in it.
InEntry == {"lines", "found", "crashed"}
Points == {"idle", "reading", "lines", "found", "none", "crashed"}

Gives(l, key) == l.key = key /\ l.value # Null

\* v is what the first r lines say of key: the value of the last one that
\* gives it one, or NULL when none does.
SaidOf(lines, r, key, v) ==
  \/ v = Null /\ \A i \in 1 .. r : ~Gives(lines[i], key)
  \/ \E i \in 1 .. r : /\ Gives(lines[i], key)
                       /\ lines[i].value = v
                       /\ \A j \in (i + 1) .. r : ~Gives(lines[j], key)

PlaceInv ==
  /\ at \in Points
  /\ host \in Hosts
  /\ dir \in SiteDirs
  /\ at \in {"reading"} \cup InEntry => dir # NoDir
  /\ at \in {"reading", "lines"} => left \subseteq DOMAIN dir
  /\ at \in InEntry => /\ entry \in DOMAIN dir
                       /\ dir[entry].readable
                       /\ row \in 0 .. Len(dir[entry].lines)

\* The pointers are what the lines read so far say.
PointersInv ==
  /\ DOMAIN found = DOMAIN Blank
  /\ at \in InEntry =>
       \A key \in DOMAIN Blank : SaidOf(dir[entry].lines, row, key, found[key])
  /\ at \in {"found", "crashed"} =>
       row = Len(dir[entry].lines) /\ found.hostname = host
  /\ at = "found" => found.root # Null /\ found.log_dir # Null
  /\ at = "crashed" => found.root = Null \/ found.log_dir = Null

\* A file that readdir has returned and that is not open is not the host's.
SearchedInv ==
  at \in {"reading", "lines"} =>
    \A n \in DOMAIN dir \ left : OfHost(dir[n]) => at = "lines" /\ n = entry

LookupInv == PlaceInv /\ PointersInv /\ SearchedInv /\ MissedMeansAbsent

LEMMA LookupSteps ==
  ASSUME [Next]_vars
  PROVE  LookupStep \/ UNCHANGED <<dir, lookupVars>>
<1> USE DEF Given
<1>1. CASE InitDefaults
  BY <1>1 DEF InitDefaults
<1>2. CASE OpenServerFile
  BY <1>2 DEF OpenServerFile
<1>3. CASE ReadLine
  BY <1>3 DEF ReadLine
<1>4. CASE EndOfLines
  BY <1>4 DEF EndOfLines
<1>5. ASSUME NEW n \in unread, ReadSiteFile(n) PROVE UNCHANGED <<dir, lookupVars>>
  BY <1>5 DEF ReadSiteFile
<1>6. CASE EndOfConfig
  BY <1>6 DEF EndOfConfig
<1>7. CASE OpenLogs
  BY <1>7 DEF OpenLogs, OpenLog
<1>8. CASE CheckRoot
  BY <1>8 DEF CheckRoot
<1>9. CASE CreateServer
  BY <1>9 DEF CreateServer
<1>10. CASE Listen
  BY <1>10 DEF Listen
<1>11. CASE InitSignals \/ InitStats
  BY <1>11 DEF InitSignals, InitStats, Setup
<1>12. CASE Lookup
  BY <1>12 DEF Lookup
<1>13. CASE UNCHANGED vars
  BY <1>13 DEF vars
<1> QED
  BY <1>1, <1>2, <1>3, <1>4, <1>5, <1>6, <1>7, <1>8, <1>9, <1>10, <1>11, <1>12,
     <1>13 DEF Next

\* What all lines of a file say is what IsLast says of it.
LEMMA SaidIsLast ==
  ASSUME NEW f, DOMAIN f.lines = 1 .. Len(f.lines), Len(f.lines) \in Nat,
         NEW key, NEW v, SaidOf(f.lines, Len(f.lines), key, v)
  PROVE  /\ v # Null => IsLast(f, key, v)
         /\ v = Null => ~Named(f, key)
         /\ \A w : IsLast(f, key, w) => v = w
<1> DEFINE N == Len(f.lines)
           said(i) == f.lines[i].key = key /\ f.lines[i].value # Null
<1>1. \A i \in 1 .. N : Gives(f.lines[i], key) <=> said(i)
  BY DEF Gives
<1>2. CASE v = Null
  <2>1. \A i \in 1 .. N : ~said(i)
    BY <1>1, <1>2 DEF SaidOf, Gives
  <2> QED
    BY <1>2, <2>1 DEF Named, IsLast
<1>3. CASE v # Null
  <2>1. PICK i \in 1 .. N : /\ said(i)
                            /\ f.lines[i].value = v
                            /\ \A j \in (i + 1) .. N : ~said(j)
    BY <1>1, <1>3 DEF SaidOf, Gives
  <2>2. \A j \in 1 .. N : j > i => ~said(j)
    BY <2>1
  <2>3. IsLast(f, key, v)
    BY <1>3, <2>1, <2>2 DEF IsLast
  <2>4. ASSUME NEW w, IsLast(f, key, w) PROVE v = w
    <3>1. PICK k \in 1 .. N : /\ said(k)
                              /\ f.lines[k].value = w
                              /\ \A j \in 1 .. N : j > k => ~said(j)
      BY <2>4 DEF IsLast
    <3>2. k = i
      BY <2>1, <2>2, <3>1
    <3> QED
      BY <2>1, <3>1, <3>2
  <2> QED
    BY <1>3, <2>3, <2>4
<1> QED
  BY <1>2, <1>3

\* One more line is taken.
LEMMA SaidOfNext ==
  ASSUME NEW lines, NEW r \in Nat, NEW key, NEW v, SaidOf(lines, r, key, v)
  PROVE  /\ Gives(lines[r + 1], key) => SaidOf(lines, r + 1, key, lines[r + 1].value)
         /\ ~Gives(lines[r + 1], key) => SaidOf(lines, r + 1, key, v)
<1>1. CASE Gives(lines[r + 1], key)
  <2>1. r + 1 \in 1 .. r + 1 /\ (r + 1 + 1) .. (r + 1) = {}
    OBVIOUS
  <2> QED
    BY <1>1, <2>1 DEF SaidOf
<1>2. CASE ~Gives(lines[r + 1], key)
  <2>1. \A i \in 1 .. r + 1 : i \in 1 .. r \/ i = r + 1
    OBVIOUS
  <2>2. CASE v = Null /\ \A i \in 1 .. r : ~Gives(lines[i], key)
    BY <1>2, <2>1, <2>2 DEF SaidOf
  <2>3. ASSUME NEW i \in 1 .. r, Gives(lines[i], key), lines[i].value = v,
               \A j \in (i + 1) .. r : ~Gives(lines[j], key)
        PROVE  SaidOf(lines, r + 1, key, v)
    <3>1. i \in 1 .. r + 1 /\ \A j \in (i + 1) .. (r + 1) : j \in (i + 1) .. r \/ j = r + 1
      OBVIOUS
    <3> QED
      BY <1>2, <2>3, <3>1 DEF SaidOf
  <2> QED
    BY <1>2, <2>2, <2>3 DEF SaidOf
<1> QED
  BY <1>1, <1>2
\* A file of config/sites as strtok sees it.
LEMMA FilesOfDirs ==
  ASSUME PlaceInv, dir # NoDir, NEW n \in DOMAIN dir
  PROVE  /\ DOMAIN dir[n].lines = 1 .. Len(dir[n].lines)
         /\ Len(dir[n].lines) \in Nat
         /\ ~IsLast(dir[n], "hostname", "")
BY SiteDirsAssumption DEF PlaceInv, IsLast, ValuesOf

LEMMA LookupStarts == Init => LookupInv
<1> SUFFICES ASSUME Init PROVE LookupInv
  OBVIOUS
<1>1. /\ at = "idle" /\ host \in Hosts /\ dir \in SiteDirs
      /\ DOMAIN found = DOMAIN Blank
  BY DEF Init, LookupInit
<1> QED
  BY <1>1 DEF LookupInv, PlaceInv, PointersInv, SearchedInv, MissedMeansAbsent, Points,
              InEntry

LEMMA PlaceStep == LookupInv /\ LookupStep => PlaceInv'
<1> SUFFICES ASSUME PlaceInv, LookupStep PROVE PlaceInv'
  BY DEF LookupInv
<1>0. \A n \in DOMAIN dir : dir # NoDir => Len(dir[n].lines) \in Nat
  BY FilesOfDirs
<1> USE DEF PlaceInv, Points, InEntry
<1>1. CASE EditSites
  BY <1>1 DEF EditSites
<1>2. ASSUME NEW h \in Hosts, OpenSites(h) PROVE PlaceInv'
  BY <1>2 DEF OpenSites
<1>3. ASSUME NEW n \in left, OpenEntry(n) PROVE PlaceInv'
  <2>1. /\ dir # NoDir /\ n \in DOMAIN dir /\ left \ {n} \subseteq DOMAIN dir
        /\ at = "reading" /\ UNCHANGED <<dir, host>> /\ left' = left \ {n}
    BY <1>3 DEF OpenEntry
  <2>2. CASE dir[n].readable
    <3>1. 0 \in 0 .. Len(dir[n].lines)
      BY <1>0, <2>1
    <3> QED
      BY <1>3, <2>1, <2>2, <3>1 DEF OpenEntry
  <2>3. CASE ~dir[n].readable
    BY <1>3, <2>1, <2>3 DEF OpenEntry
  <2> QED
    BY <2>2, <2>3
<1>4. CASE TakeLine
  <2>1. /\ dir # NoDir /\ entry \in DOMAIN dir /\ row \in 0 .. Len(dir[entry].lines)
        /\ row < Len(dir[entry].lines) /\ row' = row + 1
    BY <1>4 DEF TakeLine
  <2>2. row + 1 \in 0 .. Len(dir[entry].lines)
    BY <1>0, <2>1
  <2> QED
    BY <1>4, <2>1, <2>2 DEF TakeLine
<1>5. CASE CloseEntry
  BY <1>5 DEF CloseEntry
<1>6. CASE EndOfSites
  BY <1>6 DEF EndOfSites
<1> QED
  BY <1>1, <1>2, <1>3, <1>4, <1>5, <1>6 DEF LookupStep

LEMMA PointersStep == LookupInv /\ LookupStep => PointersInv'
<1> SUFFICES ASSUME PlaceInv, PointersInv, LookupStep PROVE PointersInv'
  BY DEF LookupInv
<1> USE DEF PointersInv, InEntry
<1>1. CASE EditSites
  BY <1>1 DEF EditSites
<1>2. ASSUME NEW h \in Hosts, OpenSites(h) PROVE PointersInv'
  BY <1>2 DEF OpenSites
<1>3. ASSUME NEW n \in left, OpenEntry(n) PROVE PointersInv'
  <2>1. CASE dir[n].readable
    <3>1. dir' = dir /\ at' = "lines" /\ entry' = n /\ row' = 0 /\ found' = Blank
      BY <1>3, <2>1 DEF OpenEntry
    <3>2. \A key \in DOMAIN Blank : Blank[key] = Null
      BY DEF Blank
    <3>3. \A key \in DOMAIN Blank : SaidOf(dir[n].lines, 0, key, Blank[key])
      BY <3>2 DEF SaidOf
    <3> QED
      BY <3>1, <3>3
  <2>2. CASE ~dir[n].readable
    BY <1>3, <2>2 DEF OpenEntry
  <2> QED
    BY <2>1, <2>2
<1>4. CASE TakeLine
  <2> DEFINE lines == dir[entry].lines
             new == lines[row + 1]
  <2>1. /\ at = "lines" /\ at' = "lines" /\ dir' = dir /\ entry' = entry
        /\ row' = row + 1 /\ found' = Take(found, new)
    BY <1>4 DEF TakeLine
  <2>2. row \in Nat
    BY <2>1 DEF PlaceInv
  <2>3. DOMAIN found' = DOMAIN Blank
    BY <2>1 DEF Take
  <2>4. ASSUME NEW key \in DOMAIN Blank
        PROVE  SaidOf(lines, row + 1, key, found'[key])
    <3>1. SaidOf(lines, row, key, found[key])
      BY <2>1
    <3>2. CASE Gives(new, key)
      <4>1. found'[key] = new.value
        BY <2>1, <3>2 DEF Take, Gives
      <4> QED
        BY <2>2, <3>1, <3>2, <4>1, SaidOfNext
    <3>3. CASE ~Gives(new, key)
      <4>1. found'[key] = found[key]
        BY <2>1, <3>3 DEF Take, Gives
      <4> QED
        BY <2>2, <3>1, <3>3, <4>1, SaidOfNext
    <3> QED
      BY <3>2, <3>3
  <2> QED
    BY <2>1, <2>3, <2>4
<1>5. CASE CloseEntry
  BY <1>5 DEF CloseEntry
<1>6. CASE EndOfSites
  BY <1>6 DEF EndOfSites
<1> QED
  BY <1>1, <1>2, <1>3, <1>4, <1>5, <1>6 DEF LookupStep
\* The pointers at the end of a file are what IsLast says of it.
LEMMA AtEnd ==
  ASSUME PlaceInv, PointersInv, at \in InEntry, row = Len(dir[entry].lines),
         NEW key \in DOMAIN Blank
  PROVE  /\ found[key] # Null => IsLast(dir[entry], key, found[key])
         /\ found[key] = Null => ~Named(dir[entry], key)
         /\ \A w : IsLast(dir[entry], key, w) => found[key] = w
<1>1. dir # NoDir /\ entry \in DOMAIN dir
  BY DEF PlaceInv
<1>2. DOMAIN dir[entry].lines = 1 .. Len(dir[entry].lines) /\ Len(dir[entry].lines) \in Nat
  BY <1>1, FilesOfDirs
<1>3. SaidOf(dir[entry].lines, Len(dir[entry].lines), key, found[key])
  BY DEF PointersInv
<1> QED
  BY <1>2, <1>3, SaidIsLast

\* The file just read is not the host's, if it does not say so.
LEMMA NotThisFile ==
  ASSUME PlaceInv, PointersInv, CloseEntry, found.hostname # host
  PROVE  ~OfHost(dir[entry])
<1>1. "hostname" \in DOMAIN Blank
  BY DEF Blank
<1>2. at \in InEntry /\ row = Len(dir[entry].lines)
  BY DEF CloseEntry, InEntry
<1> QED
  BY <1>1, <1>2, AtEnd DEF OfHost

LEMMA SearchedStep == LookupInv /\ LookupStep => SearchedInv' /\ MissedMeansAbsent'
<1> SUFFICES ASSUME PlaceInv, PointersInv, SearchedInv, MissedMeansAbsent, LookupStep
             PROVE  SearchedInv' /\ MissedMeansAbsent'
  BY DEF LookupInv
<1> USE DEF SearchedInv, MissedMeansAbsent
<1>1. CASE EditSites
  BY <1>1 DEF EditSites
<1>2. ASSUME NEW h \in Hosts, OpenSites(h) PROVE SearchedInv' /\ MissedMeansAbsent'
  <2>1. dir' = dir /\ host' = h
    BY <1>2 DEF OpenSites
  <2>2. CASE h = "" \/ dir = NoDir
    <3>1. at' = "none"
      BY <1>2, <2>2 DEF OpenSites
    <3>2. ASSUME dir # NoDir, NEW n \in DOMAIN dir PROVE ~IsLast(dir[n], "hostname", h)
      BY <2>2, <3>2, FilesOfDirs
    <3> QED
      BY <2>1, <3>1, <3>2 DEF OfHost
  <2>3. CASE ~(h = "" \/ dir = NoDir)
    BY <1>2, <2>3 DEF OpenSites
  <2> QED
    BY <2>2, <2>3
<1>3. ASSUME NEW n \in left, OpenEntry(n) PROVE SearchedInv' /\ MissedMeansAbsent'
  <2>1. /\ at = "reading" /\ left' = left \ {n} /\ dir' = dir /\ host' = host
        /\ at' = (IF dir[n].readable THEN "lines" ELSE "reading")
        /\ dir[n].readable => entry' = n
    BY <1>3 DEF OpenEntry
  <2> QED
    BY <2>1 DEF OfHost
<1>4. CASE TakeLine
  BY <1>4 DEF TakeLine, OfHost
<1>5. CASE CloseEntry
  BY <1>5, NotThisFile DEF CloseEntry, OfHost
<1>6. CASE EndOfSites
  BY <1>6 DEF EndOfSites, OfHost
<1> QED
  BY <1>1, <1>2, <1>3, <1>4, <1>5, <1>6 DEF LookupStep

LEMMA LookupUnchanged ==
  ASSUME LookupInv, UNCHANGED <<dir, lookupVars>>
  PROVE  LookupInv'
BY DEF lookupVars, LookupInv, PlaceInv, PointersInv, SearchedInv, MissedMeansAbsent, OfHost

\* The lookup reads the files one after the other, and its pointers say what the
\* open file has said so far.
THEOREM LookupInvariance == Spec => []LookupInv
<1>1. LookupInv /\ LookupStep => LookupInv'
  BY PlaceStep, PointersStep, SearchedStep DEF LookupInv
<1>2. LookupInv /\ [Next]_vars => LookupInv'
  BY <1>1, LookupSteps, LookupUnchanged
<1> QED
  BY <1>2, LookupStarts, PTL DEF Spec

\* A site that is found is what one file says (hosts.c:48-82).
THEOREM FoundInOneFileHolds == Spec => []FoundInOneFile
<1>1. LookupInv => FoundInOneFile
  <2> SUFFICES ASSUME LookupInv, at = "found" PROVE FoundInOneFile
    BY DEF FoundInOneFile
  <2>1. PlaceInv /\ PointersInv /\ at \in InEntry /\ row = Len(dir[entry].lines)
    BY DEF LookupInv, PointersInv, InEntry
  <2>2. host # Null /\ found.hostname = host
    BY <2>1, NullAssumption DEF PlaceInv, PointersInv
  <2>3. \A key \in DOMAIN Blank : found[key] # Null
    BY <2>1, <2>2 DEF PointersInv, Blank
  <2>4. \A key \in DOMAIN Blank : IsLast(dir[entry], key, found[key])
    BY <2>1, <2>3, AtEnd
  <2>5. "hostname" \in DOMAIN Blank
    BY DEF Blank
  <2>6. entry \in DOMAIN dir /\ OfHost(dir[entry])
    BY <2>1, <2>2, <2>4, <2>5 DEF OfHost, PlaceInv
  <2> QED
    BY <2>4, <2>6 DEF FoundInOneFile
<1> QED
  BY <1>1, LookupInvariance, PTL

\* A lookup that comes back without a site has missed no file of the host
\* (hosts.c:40-87).
THEOREM MissedMeansAbsentHolds == Spec => []MissedMeansAbsent
<1>1. LookupInv => MissedMeansAbsent
  BY DEF LookupInv
<1> QED
  BY <1>1, LookupInvariance, PTL

\* A lookup dies only of a file of its host without root or log_dir
\* (hosts.c:74-76).
THEOREM CrashNeedsIncompleteHolds == Spec => []CrashNeedsIncomplete
<1>1. LookupInv => CrashNeedsIncomplete
  <2> SUFFICES ASSUME LookupInv, at = "crashed" PROVE CrashNeedsIncomplete
    BY DEF CrashNeedsIncomplete
  <2>1. PlaceInv /\ PointersInv /\ at \in InEntry /\ row = Len(dir[entry].lines)
    BY DEF LookupInv, PointersInv, InEntry
  <2>2. host # Null /\ found.hostname = host /\ (found.root = Null \/ found.log_dir = Null)
    BY <2>1, NullAssumption DEF PlaceInv, PointersInv
  <2>3. {"hostname", "root", "log_dir"} = DOMAIN Blank
    BY DEF Blank
  <2>4. entry \in DOMAIN dir /\ OfHost(dir[entry])
    BY <2>1, <2>2, <2>3, AtEnd DEF OfHost, PlaceInv
  <2>5. ~Named(dir[entry], "root") \/ ~Named(dir[entry], "log_dir")
    BY <2>1, <2>2, <2>3, AtEnd
  <2> QED
    BY <2>4, <2>5 DEF CrashNeedsIncomplete
<1> QED
  BY <1>1, LookupInvariance, PTL

-------------------------------------------------------------------------------
(* Types.  What main has read of its files is what its later steps use.    *)

Configured == {"requests.log", "errors.log"} \cup AfterLogs

ConfigTypes ==
  /\ pc \in StartPoints
  /\ file \in ServerFiles
  /\ argument \in Arguments
  /\ file # NoFile => line \in 0 .. Len(file)
  /\ dir # NoDir => unread \subseteq DOMAIN dir
  /\ DOMAIN config = Settings /\ config.port \in Int
  /\ vhost_count \in 0 .. MaxVhosts
  /\ shared # NoFile => DOMAIN shared = Settings

ConfigInv ==
  /\ ConfigTypes
  /\ pc = "line" => file # NoFile
  /\ pc \in Configured => unread = {} /\ shared.port \in Int

ServiceTypes ==
  /\ logs \subseteq {"requests.log", "errors.log"}
  /\ sock \in {"none", "bound", "listening"}
  /\ bound.port \in 0 .. MaxPort
  /\ handlers \subseteq {"SIGPIPE", "SIGCHLD"}
  /\ ready \subseteq {"semaphore", "stats"}

LEMMA ConfigStarts == Init => ConfigInv
<1> SUFFICES ASSUME Init PROVE ConfigInv
  OBVIOUS
<1>1. file # NoFile => 0 \in 0 .. Len(file)
  BY ServerFilesAssumption DEF Init
<1>2. 0 \in 0 .. MaxVhosts
  BY MaxVhostsAssumption
<1>3. DOMAIN Defaults = Settings /\ Defaults.port \in Int
  BY DEF Defaults, Settings
<1> QED
  BY <1>1, <1>2, <1>3
  DEF Init, ConfigInv, ConfigTypes, StartPoints, Configured, AfterLogs

\* A line that is usable gives a setting a value of its type.
LEMMA SettingTaken ==
  ASSUME ConfigInv, ReadLine, ~Unusable(file[line + 1])
  PROVE  DOMAIN config' = Settings /\ config'.port \in Int
<1> DEFINE l == file[line + 1]
<1>1. file \in ServerFiles \ {NoFile} /\ line \in 0 .. Len(file) /\ line < Len(file)
  BY DEF ConfigInv, ConfigTypes, ReadLine
<1>2. line + 1 \in 1 .. Len(file)
  BY <1>1, ServerFilesAssumption
<1>3. l.key = "port" /\ l.value # Null => l.value \in Int
  BY <1>1, <1>2, ServerFilesAssumption
<1>4. l.key \in Settings => l.value # Null
  BY DEF Unusable
<1>5. config' = IF l.key \in Settings THEN [config EXCEPT ![l.key] = l.value] ELSE config
  BY DEF ReadLine
<1>6. DOMAIN config = Settings /\ config.port \in Int /\ "port" \in Settings
  BY DEF ConfigInv, ConfigTypes, Settings
<1> HIDE DEF l
<1> QED
  BY <1>3, <1>4, <1>5, <1>6

\* The steps that come after the configuration leave it alone.
LEMMA ConfigStays ==
  ASSUME ConfigInv, pc \in Configured, pc' \in Configured \cup {"exited", "crashed"},
         UNCHANGED <<Given, configVars>>
  PROVE  ConfigInv'
BY DEF ConfigInv, ConfigTypes, Given, configVars, StartPoints, Configured, AfterLogs

LEMMA LateSteps ==
  ASSUME OpenLogs \/ CheckRoot \/ CreateServer \/ Listen \/ InitSignals \/ InitStats
  PROVE  /\ pc \in Configured
         /\ pc' \in Configured \cup {"exited", "crashed"}
         /\ UNCHANGED <<Given, configVars>>
<1> USE DEF Configured, AfterLogs, Goto
<1>1. CASE OpenLogs
  BY <1>1 DEF OpenLogs, OpenLog
<1>2. CASE CheckRoot
  BY <1>2 DEF CheckRoot, WriteError
<1>3. CASE CreateServer
  BY <1>3 DEF CreateServer, WriteError
<1>4. CASE Listen
  BY <1>4 DEF Listen, WriteError
<1>5. ASSUME NEW point \in AfterLogs, NEW call, NEW next \in AfterLogs,
             Setup(point, call, next)
      PROVE  /\ pc \in Configured
             /\ pc' \in Configured \cup {"exited", "crashed"}
             /\ UNCHANGED <<Given, configVars>>
  BY <1>5 DEF Setup, WriteError
<1> QED
  BY <1>1, <1>2, <1>3, <1>4, <1>5 DEF InitSignals, InitStats

LEMMA ConfigStep == ConfigInv /\ [Next]_vars => ConfigInv'
<1> SUFFICES ASSUME ConfigInv, [Next]_vars PROVE ConfigInv'
  OBVIOUS
<1>0. /\ ConfigTypes
      /\ file # NoFile => Len(file) \in Nat
      /\ MaxVhosts \in Nat \ {0}
  BY ServerFilesAssumption, MaxVhostsAssumption DEF ConfigInv, ConfigTypes
<1> USE DEF StartPoints, Configured, AfterLogs, Goto
<1>1. CASE InitDefaults
  <2>1. DOMAIN Defaults = Settings /\ Defaults.port \in Int /\ 1 \in 0 .. MaxVhosts
    BY <1>0 DEF Defaults, Settings
  <2> QED
    BY <1>1, <2>1 DEF InitDefaults, ConfigInv, ConfigTypes, Given
<1>2. CASE OpenServerFile
  BY <1>2 DEF OpenServerFile, ConfigInv, ConfigTypes, Given, configVars
<1>3. CASE ReadLine
  <2>1. line + 1 \in 0 .. Len(file)
    BY <1>0, <1>3 DEF ReadLine, ConfigInv, ConfigTypes
  <2>2. /\ line' = line + 1
        /\ pc' \in {"line", "crashed"}
        /\ UNCHANGED <<Given, unread, vhost_count, shared>>
        /\ UNCHANGED config \/ ~Unusable(file[line + 1])
    BY <1>3 DEF ReadLine
  <2>3. DOMAIN config' = Settings /\ config'.port \in Int
    BY <1>0, <1>3, <2>2, SettingTaken DEF ConfigTypes
  <2>4. pc = "line"
    BY <1>3 DEF ReadLine
  <2> QED
    BY <2>1, <2>2, <2>3, <2>4 DEF ConfigInv, ConfigTypes, Given
<1>4. CASE EndOfLines
  BY <1>0, <1>4 DEF EndOfLines, ConfigInv, ConfigTypes, Given
<1>5. ASSUME NEW n \in unread, ReadSiteFile(n) PROVE ConfigInv'
  <2>1. vhost_count' \in 0 .. MaxVhosts
    BY <1>0, <1>5 DEF ReadSiteFile, RefuseSite, CountSite, ConfigTypes
  <2>2. /\ pc' \in {"site", "exited", "crashed"}
        /\ unread' = unread \ {n}
        /\ UNCHANGED <<Given, line, config, shared>>
    BY <1>5 DEF ReadSiteFile, RefuseSite, CountSite
  <2> QED
    BY <2>1, <2>2 DEF ConfigInv, ConfigTypes, Given
<1>6. CASE EndOfConfig
  BY <1>6 DEF EndOfConfig, ConfigInv, ConfigTypes, Given
<1>7. CASE OpenLogs \/ CheckRoot \/ CreateServer \/ Listen \/ InitSignals \/ InitStats
  BY <1>7, LateSteps, ConfigStays
<1>8. CASE Lookup
  BY <1>8 DEF Lookup, startVars, ConfigInv, ConfigTypes
<1>9. CASE UNCHANGED vars
  BY <1>9 DEF vars, startVars, ConfigInv, ConfigTypes
<1> QED
  BY <1>1, <1>2, <1>3, <1>4, <1>5, <1>6, <1>7, <1>8, <1>9 DEF Next
LEMMA ModRange ==
  ASSUME NEW p \in Int, NEW m \in Nat \ {0}
  PROVE  p % m \in 0 .. m - 1
OBVIOUS

\* htons makes a port of any number; port 0 is 1 here.
LEMMA BoundPort ==
  ASSUME NEW port, port \in Int
  PROVE  (IF Htons(port) = 0 THEN 1 ELSE Htons(port)) \in 0 .. MaxPort
<1>1. PICK m \in Nat \ {0} : m = MaxPort + 1 /\ m - 1 = MaxPort
  BY DEF MaxPort
<1>2. port % m \in 0 .. m - 1
  BY ModRange
<1>3. Htons(port) \in 0 .. MaxPort
  BY <1>1, <1>2 DEF Htons
<1>4. 1 \in 0 .. MaxPort
  BY DEF MaxPort
<1> QED
  BY <1>3, <1>4

LEMMA ServiceStarts == Init => ServiceTypes
<1>1. 0 \in 0 .. MaxPort
  BY DEF MaxPort
<1> QED
  BY <1>1 DEF Init, ServiceTypes, NoAddress

LEMMA ServiceStep == ConfigInv /\ ServiceTypes /\ [Next]_vars => ServiceTypes'
<1> SUFFICES ASSUME ConfigInv, ServiceTypes, [Next]_vars PROVE ServiceTypes'
  OBVIOUS
<1> USE DEF ServiceTypes
<1>1. CASE Configure
  BY <1>1 DEF Configure, serviceVars
<1>2. CASE OpenLogs
  BY <1>2 DEF OpenLogs, OpenLog
<1>3. CASE CheckRoot
  BY <1>3 DEF CheckRoot
<1>4. CASE CreateServer
  <2>1. shared.port \in Int
    BY <1>4 DEF CreateServer, ConfigInv, Configured, AfterLogs
  <2>2. \/ UNCHANGED bound
        \/ bound'.port = IF Htons(shared.port) = 0 THEN 1 ELSE Htons(shared.port)
    BY <1>4 DEF CreateServer
  <2>3. bound'.port \in 0 .. MaxPort
    BY <2>1, <2>2, BoundPort
  <2>4. sock' \in {"none", "bound", "listening"} /\ UNCHANGED <<logs, handlers, ready>>
    BY <1>4 DEF CreateServer
  <2> QED
    BY <2>3, <2>4
<1>5. CASE Listen
  BY <1>5 DEF Listen
<1>6. ASSUME NEW point, NEW call, NEW next, Setup(point, call, next)
      PROVE  ServiceTypes'
  BY <1>6 DEF Setup
<1>7. CASE UNCHANGED startVars
  BY <1>7 DEF startVars
<1> QED
  BY <1>1, <1>2, <1>3, <1>4, <1>5, <1>6, <1>7, Steps DEF InitSignals, InitStats

\* What the lookup has of the directory.
LookupTypes ==
  /\ row \in Nat
  /\ dir # NoDir => /\ left \subseteq DOMAIN dir
                    /\ entry \in DOMAIN dir \cup {Null}
                    /\ found \in [DOMAIN Blank -> Values]

LEMMA BlankTyped == Blank \in [DOMAIN Blank -> Values]
<1>1. \A key \in DOMAIN Blank : Blank[key] = Null
  BY DEF Blank
<1>2. Null \in Values
  BY DEF Values
<1>3. Blank = [key \in DOMAIN Blank |-> Blank[key]]
  BY DEF Blank
<1> QED
  BY <1>1, <1>2, <1>3

\* The value of a line that is taken is one of the directory's.
LEMMA LineTaken ==
  ASSUME LookupInv, LookupTypes, TakeLine
  PROVE  found' \in [DOMAIN Blank -> Values]
<1> DEFINE l == dir[entry].lines[row + 1]
<1>1. /\ dir # NoDir /\ entry \in DOMAIN dir /\ row \in Nat
      /\ row < Len(dir[entry].lines) /\ found' = Take(found, l)
      /\ found \in [DOMAIN Blank -> Values]
  BY DEF TakeLine, LookupInv, PlaceInv, InEntry, LookupTypes
<1>2. row + 1 \in DOMAIN dir[entry].lines
  <2>1. /\ DOMAIN dir[entry].lines = 1 .. Len(dir[entry].lines)
        /\ Len(dir[entry].lines) \in Nat
    BY <1>1, FilesOfDirs DEF LookupInv
  <2> QED
    BY <1>1, <2>1
<1>3. l.value \in Values
  <2>1. l.value \in ValuesOf(dir[entry])
    BY <1>2 DEF ValuesOf
  <2> QED
    BY <1>1, <2>1 DEF Values
<1>4. found' \in [DOMAIN Blank -> Values]
  BY <1>1, <1>3 DEF Take
<1> QED
  BY <1>4

LEMMA LookupTypesStep == LookupInv /\ LookupTypes /\ LookupStep => LookupTypes'
<1> SUFFICES ASSUME LookupInv, LookupTypes, LookupStep PROVE LookupTypes'
  OBVIOUS
<1>0. UNCHANGED dir => Values' = Values
  BY DEF Values
<1>1. CASE EditSites
  <2>1. /\ \A key \in DOMAIN Blank : Blank[key] = Null
        /\ Blank = [key \in DOMAIN Blank |-> Blank[key]]
    BY DEF Blank
  <2>2. Null \in Values'
    BY DEF Values
  <2>3. Blank \in [DOMAIN Blank -> Values']
    BY <2>1, <2>2
  <2> QED
    BY <1>1, <2>3 DEF EditSites, LookupTypes
<1>2. ASSUME NEW h \in Hosts, OpenSites(h) PROVE LookupTypes'
  BY <1>0, <1>2, BlankTyped DEF OpenSites, LookupTypes
<1>3. ASSUME NEW n \in left, OpenEntry(n) PROVE LookupTypes'
  BY <1>0, <1>3, BlankTyped DEF OpenEntry, LookupTypes, LookupInv, PlaceInv
<1>4. CASE TakeLine
  BY <1>0, <1>4, LineTaken DEF TakeLine, LookupTypes
<1>5. CASE CloseEntry
  BY <1>0, <1>5 DEF CloseEntry, LookupTypes
<1>6. CASE EndOfSites
  BY <1>0, <1>6 DEF EndOfSites, LookupTypes
<1> QED
  BY <1>1, <1>2, <1>3, <1>4, <1>5, <1>6 DEF LookupStep

\* Every variable keeps its type: the port of the socket is one of 16 bits,
\* whatever server.cfg says, and there are never more than MAX_VHOSTS sites.
THEOREM TypeCorrect == Spec => []TypeOK
<1> DEFINE Types == ConfigInv /\ ServiceTypes /\ LookupTypes
<1>1. Init => Types
  <2>1. Init => LookupTypes
    BY BlankTyped DEF Init, LookupInit, LookupTypes
  <2> QED
    BY <2>1, ConfigStarts, ServiceStarts
<1>2. LookupInv /\ Types /\ [Next]_vars => Types'
  <2>1. LookupTypes /\ UNCHANGED <<dir, lookupVars>> => LookupTypes'
    BY DEF LookupTypes, lookupVars, Values
  <2> QED
    BY <2>1, ConfigStep, ServiceStep, LookupSteps, LookupTypesStep
<1>3. StartInv /\ LookupInv /\ Types => TypeOK
  <2> SUFFICES ASSUME StartInv, LookupInv, Types PROVE TypeOK
    OBVIOUS
  <2>1. LookupTypeOK
    BY DEF LookupInv, PlaceInv, Points, LookupTypes, LookupTypeOK
  <2>2. errors \in Seq(Messages)
    BY DEF StartInv, ExitInv
  <2> QED
    BY <2>1, <2>2 DEF ConfigInv, ConfigTypes, ServiceTypes, TypeOK
<1> HIDE DEF Types
<1> QED
  BY <1>1, <1>2, <1>3, StartInvariance, LookupInvariance, PTL DEF Spec
===============================================================================
