-------------------------------- MODULE Server --------------------------------
(***************************************************************************)
(* The processes of the server, after start-up: main, which accepts        *)
(* connections one after the other, and one child per connection, which    *)
(* reads a request, answers it and exits (webserver/main.c); the signal    *)
(* that tells main about ended children; the shared statistics             *)
(* (SharedStats); the request log, which every child buffers on its own    *)
(* and writes when the buffer is full and when it exits.                   *)
(*                                                                         *)
(* A request is reduced to what respond_client decides with: the method,   *)
(* a shape that says how far through its checks the request comes, and     *)
(* whether its line of the log is longer than the buffer of the stream.    *)
(***************************************************************************)
EXTENDS Naturals, Sequences, FiniteSets

CONSTANTS
  Conns,      \* connections; the child forked for c is called c as well
  Parent,     \* the process that runs main
  NoConn,     \* the value of socket_client and client_ip before any connection
  Backlog,    \* the second argument of listen: 10 in the code
  Requests,   \* the requests clients send
  Faults,     \* the calls that may fail for reasons outside the model
  EvalOrder   \* the order in which the compiled send_stats reads the counters

Shapes ==
  { "short",       \* fewer than three words: parse_http_request returns early
    "badversion",  \* the third word is not HTTP/<major>.<minor>
    "badtarget",   \* the target is made of '?' only
    "newversion",  \* http_major is above 1
    "stats",       \* the target is rewritten to "stats"
    "nohost",      \* no Host header, or none of the sites has that name
    "nologdir",    \* the site has no log_dir line
    "badroot",     \* the root of the site cannot be used
    "missing",     \* check_and_open finds no regular file it can open
    "noext",       \* it does, and the name of the file has no extension
    "file" }       \* it does, and the name has one

Methods == {"HTTP_GET", "HTTP_HEAD", "HTTP_UNSUPPORTED"}

\* The User-Agent, which ends the line of the log, has up to 8 KB (main.c:158),
\* the buffer of the stream 4 KB.
AllRequests == [method : Methods, shape : Shapes, long : BOOLEAN]

NoRequest == [method |-> "none", shape |-> "none", long |-> FALSE]

Counters == {"served_connections", "served_requests", "ok_200", "ko_400",
             "ko_403", "ko_404", "ko_405"}

\* The largest int: a counter that passes it is undefined behaviour.
INT_MAX == 2147483647

ASSUME ConnsAssumption == Parent \notin Conns /\ NoConn \notin Conns
ASSUME BacklogAssumption == Backlog \in Nat \ {0}
ASSUME RequestsAssumption == Requests \subseteq AllRequests
ASSUME FaultsAssumption == Faults \subseteq {"accept", "fork", "fdopen", "vanish"}
ASSUME EvalOrderAssumption ==
  /\ EvalOrder \in [1 .. Cardinality(Counters) -> Counters]
  /\ \A k \in Counters : \E i \in DOMAIN EvalOrder : EvalOrder[i] = k

VARIABLES
  client,        \* what the client of c has done: idle, open, sent or gone
  request,       \* the request it sent
  got,           \* the parts of the answer it has received
  backlog,       \* connections not accepted yet
  ppc,           \* where main is in its loop
  socket_client, \* main's variable of that name
  client_ip,     \* the global that holds the address of the last peer
  fds,           \* connections main has open
  sigchld,       \* SIGCHLD is pending for main
  handler,       \* main is running child_handler
  cpc,           \* where each child is in respond_client
  ip,            \* the child's copy of client_ip
  buffered,      \* log lines in the child's stdio buffer
  snap,          \* the counters send_stats has read so far
  requests_log,  \* the file requests.log
  sem, asleep, phase, want, reg, stats   \* see SharedStats

clientVars == <<client, request>>
loopVars   == <<ppc, socket_client, client_ip, fds>>
signalVars == <<sigchld, handler>>
childVars  == <<cpc, ip, buffered, snap>>
statsVars  == <<sem, asleep, phase, want, reg, stats>>
vars == <<clientVars, got, backlog, loopVars, signalVars, childVars,
          requests_log, statsVars>>

Stats == INSTANCE SharedStats
           WITH Procs <- Conns \cup {Parent}, MaxCount <- INT_MAX

LoopPoints == {"accept", "getpeername", "count", "fork", "close", "exited"}
Live == {"reading", "routing", "counting", "status", "headers", "page",
         "body", "closing", "exiting"}
ChildPoints == {"none", "zombie", "reaped"} \cup Live

\* A line of the log, or one of the two pieces in which a long one is written:
\* the head, with address and code, and the tail.
LogLines == [ip : Conns \cup {NoConn}, code : {200, 400, 404, 405},
             part : {"whole", "head", "tail"}]

TypeOK ==
  /\ client \in [Conns -> {"idle", "open", "sent", "gone"}]
  /\ request \in [Conns -> Requests \cup {NoRequest}]
  /\ got \in [Conns -> SUBSET {"status", "headers", "body"}]
  /\ backlog \in Seq(Conns)
  /\ ppc \in LoopPoints
  /\ socket_client \in Conns \cup {NoConn}
  /\ client_ip \in Conns \cup {NoConn}
  /\ fds \in SUBSET Conns
  /\ sigchld \in BOOLEAN
  /\ handler \in BOOLEAN
  /\ cpc \in [Conns -> ChildPoints]
  /\ ip \in [Conns -> Conns \cup {NoConn}]
  /\ buffered \in [Conns -> Seq(LogLines)]
  /\ snap \in [Conns -> Seq(Nat)]
  /\ requests_log \in Seq(LogLines)
  /\ Stats!TypeOK

Init ==
  /\ client = [c \in Conns |-> "idle"]
  /\ request = [c \in Conns |-> NoRequest]
  /\ got = [c \in Conns |-> {}]
  /\ backlog = <<>>
  /\ ppc = "accept"
  /\ socket_client = NoConn
  /\ client_ip = NoConn
  /\ fds = {}
  /\ sigchld = FALSE
  /\ handler = FALSE
  /\ cpc = [c \in Conns |-> "none"]
  /\ ip = [c \in Conns |-> NoConn]
  /\ buffered = [c \in Conns |-> <<>>]
  /\ snap = [c \in Conns |-> <<>>]
  /\ requests_log = <<>>
  /\ Stats!Init

-------------------------------------------------------------------------------
(* What respond_client decides about a request.                            *)

Supported(r) == r.method # "HTTP_UNSUPPORTED"

\* parse_http_request has returned 0 and left fields of the request, its
\* headers at least, uninitialised.
Unparsed(r) == r.shape \in {"short", "badversion"}

\* The answer to a request of a supported method that passes, or fails, the
\* checks as its shape says.
ShapeCode == [newversion |-> 505, stats |-> 200, nohost |-> 400,
              missing |-> 404, noext |-> 200, file |-> 200]

Code(r) == IF Unparsed(r) THEN 400
           ELSE IF ~Supported(r) THEN 405
           ELSE ShapeCode[r.shape]

\* The counter of each code; 505 has none, and no line in the log either.
CounterOf(code) == CASE code = 200 -> "ok_200"
                     [] code = 400 -> "ko_400"
                     [] code = 404 -> "ko_404"
                     [] code = 405 -> "ko_405"

\* write_request calls rewrite_target, which exits when the target has nothing
\* but '?'; check_root exits when the root is not a usable directory.
MayExit(r) ==
  \/ Unparsed(r)
  \/ r.shape = "badtarget"
  \/ r.shape = "badroot" /\ Supported(r)

\* get_vhost_config duplicates the missing log_dir; write_request searches
\* uninitialised headers.
MayCrash(r) == Unparsed(r) \/ (r.shape = "nologdir" /\ Supported(r))

MayAnswer(r) ==
  \/ Unparsed(r)
  \/ ~Supported(r) /\ r.shape # "badtarget"
  \/ r.shape \in DOMAIN ShapeCode

\* The process that serves a page of statistics does so whatever the method.
IsStats(r) == Supported(r) /\ r.shape = "stats"

-------------------------------------------------------------------------------
(* Clients.  They may do nothing for ever, or leave at any time.           *)

\* The listening socket is never closed, and every child inherits it.
Listening == ppc # "exited" \/ \E c \in Conns : cpc[c] \in Live

Connect(c) ==
  /\ client[c] = "idle"
  /\ Listening
  /\ Len(backlog) < Backlog
  /\ client' = [client EXCEPT ![c] = "open"]
  /\ backlog' = Append(backlog, c)
  /\ UNCHANGED <<request, got, loopVars, signalVars, childVars, requests_log,
                 statsVars>>

SendRequest(c, r) ==
  /\ client[c] = "open"
  /\ client' = [client EXCEPT ![c] = "sent"]
  /\ request' = [request EXCEPT ![c] = r]
  /\ UNCHANGED <<got, backlog, loopVars, signalVars, childVars, requests_log,
                 statsVars>>

Leave(c) ==
  /\ client[c] \in {"open", "sent"}
  /\ client' = [client EXCEPT ![c] = "gone"]
  /\ UNCHANGED <<request, got, backlog, loopVars, signalVars, childVars,
                 requests_log, statsVars>>

\* What reaches the client of c when a part of the answer is written.
Deliver(c, part) ==
  got' = IF client[c] = "gone" THEN got ELSE [got EXCEPT ![c] = @ \cup {part}]

-------------------------------------------------------------------------------
(* main.                                                                   *)

\* main runs its loop when it is not in child_handler.
MainAt(point) == ppc = point /\ ~handler

Accept ==
  /\ MainAt("accept")
  /\ backlog # <<>>
  /\ socket_client' = Head(backlog)
  /\ backlog' = Tail(backlog)
  /\ fds' = fds \cup {Head(backlog)}
  /\ ppc' = "getpeername"
  /\ UNCHANGED <<client_ip, clientVars, got, signalVars, childVars,
                 requests_log, statsVars>>

\* exit(EXIT_FAILURE) in main: its descriptors are closed, and the system
\* adopts and reaps its children.
ParentExit ==
  /\ ppc' = "exited"
  /\ fds' = {}
  /\ sigchld' = FALSE
  /\ cpc' = [c \in Conns |-> IF cpc[c] = "zombie" THEN "reaped" ELSE cpc[c]]
  /\ UNCHANGED <<client_ip, clientVars, got, backlog, handler, ip, buffered,
                 snap, requests_log, statsVars>>

AcceptError ==
  /\ MainAt("accept")
  /\ "accept" \in Faults
  /\ socket_client' = NoConn
  /\ ParentExit

\* getpeername succeeds, client_ip is set and main enters sem_wait.
GetPeerName ==
  /\ MainAt("getpeername")
  /\ client_ip' = socket_client
  /\ ppc' = "count"
  /\ Stats!SemWait(Parent, "served_connections")
  /\ UNCHANGED <<socket_client, fds, clientVars, got, backlog, signalVars,
                 childVars, requests_log>>

\* It fails when the client has reset the connection in the meantime.
GetPeerNameError ==
  /\ MainAt("getpeername")
  /\ client[socket_client] = "gone"
  /\ ParentExit
  /\ UNCHANGED socket_client

\* Variant for mutation testing: sem_trywait in the place of sem_wait, with
\* the connection left uncounted when the semaphore is taken.
CountConnectionIfFree ==
  /\ MainAt("count")
  /\ \/ /\ Stats!Advance(Parent)
        /\ ppc' = IF phase'[Parent] = "out" THEN "fork" ELSE "count"
     \/ /\ phase[Parent] = "wait"
        /\ sem = 0
        /\ phase' = [phase EXCEPT ![Parent] = "out"]
        /\ want' = [want EXCEPT ![Parent] = {}]
        /\ ppc' = "fork"
        /\ UNCHANGED <<sem, asleep, reg, stats>>
  /\ UNCHANGED <<socket_client, client_ip, fds, clientVars, got, backlog,
                 signalVars, childVars, requests_log>>

\* served_connections++, one step at a time.
CountConnection ==
  /\ MainAt("count")
  /\ Stats!Advance(Parent)
  /\ ppc' = IF phase'[Parent] = "out" THEN "fork" ELSE "count"
  /\ UNCHANGED <<socket_client, client_ip, fds, clientVars, got, backlog,
                 signalVars, childVars, requests_log>>

Fork ==
  /\ MainAt("fork")
  /\ cpc' = [cpc EXCEPT ![socket_client] = "reading"]
  /\ ip' = [ip EXCEPT ![socket_client] = client_ip]
  /\ ppc' = "close"
  /\ UNCHANGED <<socket_client, client_ip, fds, clientVars, got, backlog,
                 signalVars, buffered, snap, requests_log, statsVars>>

ForkError ==
  /\ MainAt("fork")
  /\ "fork" \in Faults
  /\ ParentExit
  /\ UNCHANGED socket_client

\* Variant for mutation testing: main does not close its copy of the socket.
CloseClientForgotten ==
  /\ MainAt("close")
  /\ ppc' = "accept"
  /\ UNCHANGED <<socket_client, client_ip, fds, clientVars, got, backlog,
                 signalVars, childVars, requests_log, statsVars>>

CloseClient ==
  /\ MainAt("close")
  /\ fds' = fds \ {socket_client}
  /\ ppc' = "accept"
  /\ UNCHANGED <<socket_client, client_ip, clientVars, got, backlog,
                 signalVars, childVars, requests_log, statsVars>>

-------------------------------------------------------------------------------
(* SIGCHLD and child_handler.                                              *)

Zombies == {c \in Conns : cpc[c] = "zombie"}

\* Variant for mutation testing: without SA_RESTART accept returns EINTR, and
\* main exits.
TakeSignalInAccept ==
  /\ ppc # "exited"
  /\ sigchld
  /\ ~handler
  /\ IF ppc = "accept"
       THEN ParentExit /\ socket_client' = NoConn
       ELSE /\ sigchld' = FALSE
            /\ handler' = TRUE
            /\ IF Parent \in asleep
                 THEN Stats!Interrupt(Parent)
                 ELSE UNCHANGED statsVars
            /\ UNCHANGED <<clientVars, got, backlog, loopVars, childVars,
                           requests_log>>

\* Variant for mutation testing: the signal does not disturb sem_wait.
TakeSignalAsleep ==
  /\ ppc # "exited"
  /\ sigchld
  /\ ~handler
  /\ sigchld' = FALSE
  /\ handler' = TRUE
  /\ UNCHANGED <<clientVars, got, backlog, loopVars, childVars, requests_log,
                 statsVars>>

\* The signal is delivered; SA_RESTART makes an interrupted accept start over,
\* which shows nowhere, and an interrupted sem_wait look at the semaphore.
TakeSignal ==
  /\ ppc # "exited"
  /\ sigchld
  /\ ~handler
  /\ sigchld' = FALSE
  /\ handler' = TRUE
  /\ IF Parent \in asleep THEN Stats!Interrupt(Parent) ELSE UNCHANGED statsVars
  /\ UNCHANGED <<clientVars, got, backlog, loopVars, childVars, requests_log>>

\* waitpid returns an ended child.
Reap(c) ==
  /\ handler
  /\ cpc[c] = "zombie"
  /\ cpc' = [cpc EXCEPT ![c] = "reaped"]
  /\ UNCHANGED <<clientVars, got, backlog, loopVars, signalVars, ip, buffered,
                 snap, requests_log, statsVars>>

\* Variant for mutation testing: if in the place of while.
HandlerReturnUnchecked ==
  /\ handler
  /\ handler' = FALSE
  /\ UNCHANGED <<sigchld, clientVars, got, backlog, loopVars, childVars,
                 requests_log, statsVars>>

\* waitpid returns 0 or -1, and the handler returns.
HandlerReturn ==
  /\ handler
  /\ Zombies = {}
  /\ handler' = FALSE
  /\ UNCHANGED <<sigchld, clientVars, got, backlog, loopVars, childVars,
                 requests_log, statsVars>>

-------------------------------------------------------------------------------
(* The child that serves c.                                                *)

\* A step of the child that moves it and nothing else.
Goto(c, point) == cpc' = [cpc EXCEPT ![c] = point]
MoveTo(c, point) ==
  /\ Goto(c, point)
  /\ UNCHANGED <<clientVars, backlog, loopVars, signalVars, ip, buffered, snap,
                 requests_log, statsVars>>

\* The process of c ends: a zombie, and SIGCHLD, if main is there to see it.
Die(c) ==
  /\ Goto(c, IF ppc = "exited" THEN "reaped" ELSE "zombie")
  /\ sigchld' = (sigchld \/ ppc # "exited")

\* It is killed by SIGSEGV: what it has buffered is lost.
Crash(c) ==
  /\ Die(c)
  /\ UNCHANGED <<clientVars, got, backlog, loopVars, handler, ip, buffered,
                 snap, requests_log, statsVars>>

FdopenError(c) ==
  /\ cpc[c] = "reading"
  /\ "fdopen" \in Faults
  /\ MoveTo(c, "exiting")
  /\ UNCHANGED got

\* Request line and header block are there.
ReadRequest(c) ==
  /\ cpc[c] = "reading"
  /\ request[c] # NoRequest
  /\ MoveTo(c, "routing")
  /\ UNCHANGED got

\* Variant for mutation testing: a failing fgets is tried again.
ReadFailsAgain(c) ==
  /\ cpc[c] = "reading"
  /\ client[c] = "gone"
  /\ UNCHANGED vars

ReadFails(c) ==
  /\ cpc[c] = "reading"
  /\ client[c] = "gone"
  /\ MoveTo(c, "exiting")
  /\ UNCHANGED got

\* write_request.  A line longer than the buffer fills it, which writes it out;
\* the rest, the end of the line at least, stays in the buffer.
WriteRequest(c, address, code) ==
  LET Piece(part) == [ip |-> address, code |-> code, part |-> part]
      last == IF request[c].long THEN "tail" ELSE "whole"
  IN  /\ requests_log' = IF request[c].long
                            THEN Append(requests_log, Piece("head"))
                            ELSE requests_log
      /\ buffered' = [buffered EXCEPT ![c] = Append(@, Piece(last))]

\* Variant for mutation testing: the log is not buffered.
LogAndCountUnbuffered(c) ==
  LET code == Code(request[c])
  IN  /\ cpc[c] = "routing"
      /\ MayAnswer(request[c])
      /\ code # 505
      /\ requests_log' = Append(requests_log, [ip |-> ip[c], code |-> code,
                                                 part |-> "whole"])
      /\ Stats!SemWait(c, CounterOf(code))
      /\ Goto(c, "counting")
      /\ UNCHANGED <<clientVars, got, backlog, loopVars, signalVars, ip, snap,
                     buffered>>

\* Variant for mutation testing: client_ip is shared with main.
LogAndCountSharedIp(c) ==
  LET code == Code(request[c])
  IN  /\ cpc[c] = "routing"
      /\ MayAnswer(request[c])
      /\ code # 505
      /\ WriteRequest(c, client_ip, code)
      /\ Stats!SemWait(c, CounterOf(code))
      /\ Goto(c, "counting")
      /\ UNCHANGED <<clientVars, got, backlog, loopVars, signalVars, ip, snap>>

\* Variant for mutation testing: the counter is incremented without the
\* semaphore.
LogAndCountUnlocked(c) ==
  LET code == Code(request[c])
  IN  /\ cpc[c] = "routing"
      /\ MayAnswer(request[c])
      /\ code # 505
      /\ WriteRequest(c, ip[c], code)
      /\ stats' = [stats EXCEPT ![CounterOf(code)] = @ + 1]
      /\ Goto(c, "status")
      /\ UNCHANGED <<clientVars, got, backlog, loopVars, signalVars, ip, snap,
                     sem, asleep, phase, want, reg>>

\* write_request, then on the way to the counter of the code.
LogAndCount(c) ==
  LET code == Code(request[c])
  IN  /\ cpc[c] = "routing"
      /\ MayAnswer(request[c])
      /\ code # 505
      /\ WriteRequest(c, ip[c], code)
      /\ Stats!SemWait(c, CounterOf(code))
      /\ Goto(c, "counting")
      /\ UNCHANGED <<clientVars, got, backlog, loopVars, signalVars, ip, snap>>

\* Variant for mutation testing: 505 is logged like the other answers.
RefuseVersionLogged(c) ==
  /\ cpc[c] = "routing"
  /\ MayAnswer(request[c])
  /\ Code(request[c]) = 505
  /\ WriteRequest(c, ip[c], 505)
  /\ Goto(c, "status")
  /\ UNCHANGED <<clientVars, got, backlog, loopVars, signalVars, ip, snap,
                 statsVars>>

\* The answer 505 is neither logged nor counted.
RefuseVersion(c) ==
  /\ cpc[c] = "routing"
  /\ MayAnswer(request[c])
  /\ Code(request[c]) = 505
  /\ MoveTo(c, "status")
  /\ UNCHANGED got

ExitEarly(c) ==
  /\ cpc[c] = "routing"
  /\ MayExit(request[c])
  /\ MoveTo(c, "exiting")
  /\ UNCHANGED got

CrashEarly(c) ==
  /\ cpc[c] = "routing"
  /\ MayCrash(request[c])
  /\ Crash(c)

\* The counter of the code, one step at a time.
CountResponse(c) ==
  /\ cpc[c] = "counting"
  /\ Stats!Advance(c)
  /\ Goto(c, IF phase'[c] = "out" THEN "status" ELSE "counting")
  /\ UNCHANGED <<clientVars, got, backlog, loopVars, signalVars, ip, buffered,
                 snap, requests_log>>

\* For HEAD, error_message is still NULL when strlen is applied to it.
HasNullMessage(c) == Code(request[c]) # 200 /\ request[c].method = "HTTP_HEAD"

\* Variant for mutation testing: the message is measured before sem_post.
CrashOnNullInside(c) ==
  /\ cpc[c] = "counting"
  /\ phase[c] = "stored"
  /\ HasNullMessage(c)
  /\ Crash(c)

CrashOnNull(c) ==
  /\ cpc[c] = "status"
  /\ HasNullMessage(c)
  /\ Crash(c)

SendStatus(c) ==
  /\ cpc[c] = "status"
  /\ ~HasNullMessage(c)
  /\ Deliver(c, "status")
  /\ MoveTo(c, "headers")

\* get_mime_type increments the NULL that strrchr returns for a name without
\* extension; the file may be gone when it is opened again.
HasDeadlyFile(c) ==
  /\ Code(request[c]) = 200
  /\ \/ request[c].shape = "noext"
     \/ request[c].shape = "file" /\ "vanish" \in Faults

CrashInHeaders(c) ==
  /\ cpc[c] = "headers"
  /\ HasDeadlyFile(c)
  /\ Crash(c)

SendHeaders(c) ==
  /\ cpc[c] = "headers"
  /\ Code(request[c]) = 200 => request[c].shape # "noext"
  /\ Deliver(c, "headers")
  /\ MoveTo(c, IF IsStats(request[c]) THEN "page" ELSE "body")

\* send_stats returns when the headers cannot be written; send_response goes on.
StatsHeadersFail(c) ==
  /\ cpc[c] = "headers"
  /\ IsStats(request[c])
  /\ client[c] = "gone"
  /\ MoveTo(c, "closing")
  /\ UNCHANGED got

\* Variant for mutation testing: the counters are read from left to right.
ReadCounterFromLeft(c) ==
  /\ cpc[c] = "page"
  /\ snap' = [snap EXCEPT ![c] =
                <<stats[EvalOrder[Len(EvalOrder) - Len(@)]]>> \o @]
  /\ Goto(c, IF Len(snap'[c]) = Len(EvalOrder) THEN "body" ELSE "page")
  /\ UNCHANGED <<clientVars, got, backlog, loopVars, signalVars, ip, buffered,
                 requests_log, statsVars>>

\* send_stats reads one counter more, without the semaphore.
ReadCounter(c) ==
  /\ cpc[c] = "page"
  /\ snap' = [snap EXCEPT ![c] = Append(@, stats[EvalOrder[Len(@) + 1]])]
  /\ Goto(c, IF Len(snap'[c]) = Len(EvalOrder) THEN "body" ELSE "page")
  /\ UNCHANGED <<clientVars, got, backlog, loopVars, signalVars, ip, buffered,
                 requests_log, statsVars>>

\* The page of statistics is sent whatever the method.
SendBody(c) ==
  /\ cpc[c] = "body"
  /\ IF request[c].method = "HTTP_HEAD" /\ ~IsStats(request[c])
       THEN UNCHANGED got
       ELSE Deliver(c, "body")
  /\ MoveTo(c, "closing")

\* free_headers on headers that were never initialised.
CrashFreeing(c) ==
  /\ cpc[c] = "closing"
  /\ Unparsed(request[c])
  /\ Crash(c)

CloseStream(c) ==
  /\ cpc[c] = "closing"
  /\ MoveTo(c, "exiting")
  /\ UNCHANGED got

\* Variant for mutation testing: _exit, which flushes nothing.
ExitUnflushed(c) ==
  /\ cpc[c] = "exiting"
  /\ Die(c)
  /\ UNCHANGED <<clientVars, got, backlog, loopVars, handler, ip, buffered,
                 snap, requests_log, statsVars>>

\* exit flushes the log.
Exit(c) ==
  /\ cpc[c] = "exiting"
  /\ requests_log' = requests_log \o buffered[c]
  /\ buffered' = [buffered EXCEPT ![c] = <<>>]
  /\ Die(c)
  /\ UNCHANGED <<clientVars, got, backlog, loopVars, handler, ip, snap,
                 statsVars>>

-------------------------------------------------------------------------------
ClientStep(c) == Connect(c) \/ Leave(c) \/ \E r \in Requests : SendRequest(c, r)

MainStep == Accept \/ GetPeerName \/ CountConnection \/ Fork \/ CloseClient

MainError == AcceptError \/ GetPeerNameError \/ ForkError

HandlerStep == HandlerReturn \/ \E c \in Conns : Reap(c)

ChildStep(c) ==
  \/ ReadRequest(c) \/ ReadFails(c)
  \/ LogAndCount(c) \/ RefuseVersion(c) \/ ExitEarly(c) \/ CrashEarly(c)
  \/ CountResponse(c)
  \/ CrashOnNull(c) \/ SendStatus(c)
  \/ CrashInHeaders(c) \/ SendHeaders(c) \/ StatsHeadersFail(c)
  \/ ReadCounter(c)
  \/ SendBody(c)
  \/ CrashFreeing(c) \/ CloseStream(c)
  \/ Exit(c)

Next ==
  \/ MainStep
  \/ MainError
  \/ TakeSignal
  \/ HandlerStep
  \/ \E c \in Conns : ClientStep(c) \/ FdopenError(c) \/ ChildStep(c)

Spec == Init /\ [][Next]_vars

\* The system runs every process that can run and delivers pending signals.
\* Nothing is asked of the clients, and the calls in Faults need not fail.
FairSpec ==
  /\ Spec
  /\ WF_vars(MainStep)
  /\ WF_vars(TakeSignal)
  /\ WF_vars(HandlerStep)
  /\ \A c \in Conns : WF_vars(ChildStep(c))

-------------------------------------------------------------------------------
(* Safety.                                                                 *)

Ended(c) == cpc[c] \in {"zombie", "reaped"}

\* The statistics are used as SharedStats says, by main and by the children,
\* whatever else these do: signals, errors and crashes never touch them.
StatsProtocol == Stats!Spec

\* Nobody ends, in any of the ways main.c, file.c and the faults have, while
\* it holds the semaphore or is queueing for it: all others would block.
HoldersAreAlive ==
  /\ phase[Parent] # "out" => ppc = "count"
  /\ \A c \in Conns : phase[c] # "out" => cpc[c] = "counting"

\* A child that has ended is not overlooked, though SIGCHLD does not queue:
\* either the signal is pending or the loop of child_handler is not through.
NoLostZombie == Zombies # {} => sigchld \/ handler

\* served_connections is the number of connections handed to a child, with
\* the one on which main is between increment and fork (main.c:90-94).
ExactConnections ==
  LET between == ppc = "fork" \/ (ppc = "count" /\ phase[Parent] = "stored")
  IN  ppc # "exited" =>
        stats["served_connections"] =
          Cardinality({c \in Conns : cpc[c] # "none"})
            + IF between THEN 1 ELSE 0

LinesIn(parts, code) ==
  Cardinality({i \in DOMAIN requests_log :
                 requests_log[i].part \in parts /\ requests_log[i].code = code})

\* Children with a line that is begun in the log and not counted yet.
BegunUncounted(code) ==
  {c \in Conns : /\ cpc[c] = "counting" /\ phase[c] # "stored"
                 /\ request[c].long /\ Code(request[c]) = code}

AnsweredWith(code) == {c \in Conns : "status" \in got[c]
                                       /\ Code(request[c]) = code}

\* No complete line is in the log, and no client has an answer, before it is
\* counted: the end of a line is written at exit, and the status line follows
\* sem_post.  Of a line longer than the buffer, which shows its code before it
\* is complete, the counter lacks those that are still waiting to be counted.
CountedFirst ==
  \A code \in {200, 400, 404, 405} :
    LET counted == stats[CounterOf(code)]
    IN  /\ LinesIn({"whole", "tail"}, code) <= counted
        /\ Cardinality(AnsweredWith(code)) <= counted
        /\ LinesIn({"whole", "head"}, code)
             <= counted + Cardinality(BegunUncounted(code))

\* After write_request, what can still kill the child of c.
MayDieLogged(c) == HasNullMessage(c) \/ HasDeadlyFile(c) \/ Unparsed(request[c])

PiecesOf(c) == {i \in DOMAIN requests_log : requests_log[i].ip = c}
Complete(i) == requests_log[i].part # "head"

\* The log has at most one line per connection, with the address of that
\* connection though client_ip is a global that main keeps overwriting, and
\* with the code that its client has been answered.  The line is whole, or in
\* two pieces in their order, between which those of others may come; it gets
\* its end when its child ends, and lacks it for good only after a crash.
LogFaithful ==
  /\ \A i, j \in DOMAIN requests_log :
       i < j /\ requests_log[i].ip = requests_log[j].ip =>
         requests_log[i].part = "head" /\ requests_log[j].part = "tail"
  /\ \A i \in DOMAIN requests_log :
       LET c == requests_log[i].ip
       IN  /\ c \in Conns /\ request[c] # NoRequest
           /\ requests_log[i].code = Code(request[c])
           /\ requests_log[i].part = "tail" =>
                \E j \in PiecesOf(c) : j < i
           /\ Complete(i) => Ended(c)
           /\ Ended(c) /\ ~MayDieLogged(c) => \E j \in PiecesOf(c) : Complete(j)

\* Once the headers of an answer have gone out nothing more goes wrong: the
\* child writes the whole of its log line (505 has none) and, except for HEAD,
\* the body before it ends.  Requests that were not parsed are excepted:
\* free_headers runs on headers that were never initialised.
WholeAnswer ==
  \A c \in Conns :
    Ended(c) /\ "headers" \in got[c] /\ client[c] # "gone"
             /\ ~Unparsed(request[c]) =>
      /\ Code(request[c]) = 505 \/ \E i \in PiecesOf(c) : Complete(i)
      /\ "body" \in got[c] \/ request[c].method = "HTTP_HEAD"

\* main ends for no other reason than a call of its own that fails, which for
\* getpeername needs that the client it is about to serve has gone: nothing a
\* child does, its crash included, no signal and no other client ends it.
ParentSurvives ==
  ppc = "exited" =>
    \/ Faults \cap {"accept", "fork"} # {}
    \/ \E c \in Conns : c = socket_client /\ client[c] = "gone"

\* The value the page of c shows for counter k.
Shown(c, k) == snap[c][CHOOSE i \in DOMAIN EvalOrder : EvalOrder[i] = k]

\* The page of statistics is read without the semaphore, and still, with the
\* arguments of snprintf evaluated from right to left, as gcc does, it never
\* shows more answers than connections, and it shows the answer it is part of.
PageAddsUp ==
  \A c \in Conns :
    Len(snap[c]) = Len(EvalOrder) =>
      /\ Shown(c, "ok_200") > 0
      /\ Shown(c, "ok_200") + Shown(c, "ko_400") + Shown(c, "ko_404")
           + Shown(c, "ko_405") <= Shown(c, "served_connections")

-------------------------------------------------------------------------------
(* Liveness, under FairSpec.                                               *)

\* main always comes back to accept, though it may sleep in sem_wait with
\* nobody to wake it but the SIGCHLD of the child it is waiting for.
MainReturns == []<>(ppc \in {"accept", "exited"})

\* Every connection is handed to a child, unless main has ended (it does when
\* a client is gone by the time of getpeername).
EveryClientForked ==
  \A c \in Conns : client[c] # "idle" ~> cpc[c] # "none" \/ ppc = "exited"

\* Every child that ends is reaped.
ZombiesReaped == \A c \in Conns : cpc[c] = "zombie" ~> cpc[c] = "reaped"

\* Once the child has ended, main does not keep the connection open: the
\* client sees the end of the answer.
ConnectionsEnd == \A c \in Conns : Ended(c) ~> c \notin fds

\* A child that has its request, or whose client is gone, ends, unless it
\* sleeps in sem_wait: nothing else in respond_client holds it up.
ChildEndsOrSleeps ==
  \A c \in Conns :
    cpc[c] \in Live /\ (request[c] # NoRequest \/ client[c] = "gone") ~>
      Ended(c) \/ c \in asleep

-------------------------------------------------------------------------------
(* What comments of the code say of it, and the code does not do.          *)

\* main.c:93, "if no errors, we send response to the client": a client that
\* asks for a file that is there, and stays, gets it, unless main has ended.
ResponseSent ==
  \A c \in Conns :
    request[c].shape = "file" ~>
      "body" \in got[c] \/ client[c] = "gone" \/ ppc = "exited"

\* No connection is under way.
Quiet == /\ backlog = <<>>
         /\ ppc = "accept"
         /\ \A c \in Conns : cpc[c] = "none" \/ Ended(c)
         /\ \A c \in Conns : client[c] # "gone"

\* stats.h:24, "number of 404 responses the server has sent".
NotFoundSent ==
  Quiet => stats["ko_404"] = Cardinality(AnsweredWith(404))
===============================================================================
