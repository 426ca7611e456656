---------------------------- MODULE Server_proofs ----------------------------
(* Theorems about Server, for any number of connections, any backlog, any  *)
(* set of requests and any set of faults.                                  *)
EXTENDS Server, FiniteSetTheorems, TLAPS

\* The theorems about the statistics, for the processes of the server.
StatsProofs == INSTANCE SharedStats_proofs
                 WITH Procs <- Conns \cup {Parent}, MaxCount <- INT_MAX

(***************************************************************************)
(* The statistics inside the server are SharedStats.                       *)
(***************************************************************************)

\* A step of the server is a step of SharedStats or leaves its variables.
LEMMA StepUsesStats == ASSUME [Next]_vars PROVE [Stats!Next]_statsVars
<1> USE DEF statsVars
<1>1. CASE MainStep
  BY <1>1 DEF MainStep, Accept, GetPeerName, CountConnection, Fork,
     CloseClient, Stats!Next, Counters
<1>2. CASE MainError
  BY <1>2 DEF MainError, AcceptError, GetPeerNameError, ForkError, ParentExit
<1>3. CASE TakeSignal
  BY <1>3 DEF TakeSignal, Stats!Next
<1>4. CASE HandlerStep
  BY <1>4 DEF HandlerStep, HandlerReturn, Reap
<1>5. ASSUME NEW c \in Conns, ClientStep(c)
      PROVE  UNCHANGED statsVars
  BY <1>5 DEF ClientStep, Connect, Leave, SendRequest
<1>6. ASSUME NEW c \in Conns, FdopenError(c)
      PROVE  UNCHANGED statsVars
  BY <1>6 DEF FdopenError, MoveTo
<1>7. ASSUME NEW c \in Conns, ChildStep(c)
      PROVE  [Stats!Next]_statsVars
  <2>1. CASE LogAndCount(c)
    <3>1. Stats!SemWait(c, CounterOf(Code(request[c])))
      BY <2>1 DEF LogAndCount
    <3>2. Code(request[c]) \in {200, 400, 404, 405}
      BY <2>1 DEF LogAndCount, Code, MayAnswer, ShapeCode, Supported, Unparsed
    <3>3. CounterOf(Code(request[c])) \in Counters
      BY <3>2 DEF CounterOf, Counters
    <3>4. QED
      BY <3>1, <3>3 DEF Stats!Next
  <2>2. CASE CountResponse(c)
    BY <2>2 DEF CountResponse, Stats!Next
  <2>3. CASE \/ ReadRequest(c) \/ ReadFails(c) \/ RefuseVersion(c)
             \/ ExitEarly(c) \/ SendStatus(c) \/ SendHeaders(c)
             \/ StatsHeadersFail(c) \/ SendBody(c) \/ CloseStream(c)
    BY <2>3 DEF ReadRequest, ReadFails, RefuseVersion, ExitEarly, SendStatus,
       SendHeaders, StatsHeadersFail, SendBody, CloseStream, MoveTo
  <2>4. CASE \/ CrashEarly(c) \/ CrashOnNull(c) \/ CrashInHeaders(c)
             \/ CrashFreeing(c) \/ ReadCounter(c) \/ Exit(c)
    BY <2>4 DEF CrashEarly, CrashOnNull, CrashInHeaders, CrashFreeing, Crash,
       ReadCounter, Exit
  <2>5. QED
    BY <1>7, <2>1, <2>2, <2>3, <2>4 DEF ChildStep
<1>8. CASE UNCHANGED vars
  BY <1>8 DEF vars
<1>9. QED
  BY <1>1, <1>2, <1>3, <1>4, <1>5, <1>6, <1>7, <1>8 DEF Next

\* The server implements SharedStats: nothing that main, a child, a signal, an
\* error or a crash does breaks the protocol of the statistics.
THEOREM StatsProtocolHolds == Spec => StatsProtocol
<1>1. Init => Stats!Init
  BY DEF Init
<1>2. [Next]_vars => [Stats!Next]_statsVars
  BY StepUsesStats
<1>3. QED
  BY <1>1, <1>2, PTL DEF Spec, StatsProtocol, Stats!Spec, Stats!statsVars,
     statsVars

\* The two instances of SharedStats, in Server and here, are the same.
LEMMA SameStats ==
  /\ Stats!Init <=> StatsProofs!Init
  /\ Stats!Next <=> StatsProofs!Next
  /\ Stats!statsVars = StatsProofs!statsVars
  /\ Stats!IInv <=> StatsProofs!IInv
<1>1. Stats!Init <=> StatsProofs!Init
  BY DEF Stats!Init, StatsProofs!Init
<1>2. \A p \in Conns \cup {Parent} : Stats!Advance(p) <=> StatsProofs!Advance(p)
  BY Zenon DEF Stats!Advance, StatsProofs!Advance, Stats!SemTake, StatsProofs!SemTake,
     Stats!SemSleep, StatsProofs!SemSleep, Stats!Load, StatsProofs!Load,
     Stats!Store, StatsProofs!Store, Stats!SemPost, StatsProofs!SemPost,
     Stats!AfterWake, StatsProofs!AfterWake, Stats!SharesFutex,
     StatsProofs!SharesFutex, Stats!PShared, StatsProofs!PShared
<1>3. Stats!Next <=> StatsProofs!Next
  BY Zenon, <1>2 DEF Stats!Next, StatsProofs!Next, Stats!SemWait, StatsProofs!SemWait,
     Stats!Interrupt, StatsProofs!Interrupt
<1>4. Stats!statsVars = StatsProofs!statsVars
  BY DEF Stats!statsVars, StatsProofs!statsVars
<1>5. Stats!IInv <=> StatsProofs!IInv
  BY DEF Stats!IInv, StatsProofs!IInv, Stats!TypeOK, StatsProofs!TypeOK,
     Stats!Phases, StatsProofs!Phases, Stats!Inside, StatsProofs!Inside,
     Stats!MutualExclusion, StatsProofs!MutualExclusion,
     Stats!SemaphoreCountsInside, StatsProofs!SemaphoreCountsInside,
     Stats!LoadedIsFresh, StatsProofs!LoadedIsFresh,
     Stats!SleepersWait, StatsProofs!SleepersWait,
     Stats!OneCounter, StatsProofs!OneCounter
<1>6. QED
  BY <1>1, <1>3, <1>4, <1>5

\* What is proved of SharedStats holds in the server: its invariant, with
\* mutual exclusion between main and the children.
THEOREM StatsInvariance == Spec => []Stats!IInv
<1>1. INT_MAX \in Nat
  BY DEF INT_MAX
<1>2. Stats!Init => Stats!IInv
  BY <1>1, SameStats, StatsProofs!InitIInv
<1>3. StatsProofs!IInv /\ [StatsProofs!Next]_(StatsProofs!statsVars)
        => StatsProofs!IInv'
  BY <1>1, StatsProofs!StepIInv
<1>4. [Stats!Next]_(Stats!statsVars)
        => [StatsProofs!Next]_(StatsProofs!statsVars)
  <2>1. ASSUME UNCHANGED Stats!statsVars PROVE UNCHANGED StatsProofs!statsVars
    BY <2>1 DEF Stats!statsVars, StatsProofs!statsVars
  <2>2. QED
    BY <2>1, SameStats
<1>5. QED
  BY <1>2, <1>3, <1>4, SameStats, StatsProtocolHolds, PTL
     DEF StatsProtocol, Stats!Spec

(***************************************************************************)
(* No ended child is overlooked.                                           *)
(***************************************************************************)

\* NoLostZombie is inductive once cpc has its type.
ZombieInv ==
  /\ cpc \in [Conns -> ChildPoints]
  /\ NoLostZombie

\* Whichever way a child ends, SIGCHLD is pending afterwards.
LEMMA DieSignals ==
  ASSUME NEW c \in Conns, ZombieInv, Die(c), UNCHANGED handler
  PROVE  ZombieInv'
<1>1. cpc' \in [Conns -> ChildPoints]
  BY DEF ZombieInv, ChildPoints, Die, Goto
<1>2. CASE ppc # "exited"
  <2>1. sigchld'
    BY <1>2, Zenon DEF Die
  <2>2. QED
    BY <1>1, <2>1 DEF ZombieInv, NoLostZombie
<1>3. CASE ppc = "exited"
  <2>1. Zombies' \subseteq Zombies
    BY <1>3 DEF Zombies, Die, Goto, ZombieInv
  <2>2. sigchld => sigchld'
    BY Zenon DEF Die
  <2>3. QED
    BY <1>1, <2>1, <2>2 DEF ZombieInv, NoLostZombie
<1>4. QED
  BY <1>2, <1>3

\* A step that moves a child to a point where it lives makes no zombie.
LEMMA MoveKeepsZombies ==
  ASSUME NEW c, NEW point \in Live, ZombieInv, Goto(c, point),
         UNCHANGED signalVars
  PROVE  ZombieInv'
BY DEF ZombieInv, ChildPoints, Live, NoLostZombie, Zombies, Goto, signalVars

\* The system reaps the zombies that main leaves behind.
LEMMA ExitReaps == ASSUME ZombieInv, ParentExit PROVE ZombieInv'
BY DEF ParentExit, ZombieInv, ChildPoints, Live, NoLostZombie, Zombies

LEMMA StepZombieInv == ZombieInv /\ [Next]_vars => ZombieInv'
<1> SUFFICES ASSUME ZombieInv, [Next]_vars PROVE ZombieInv'
  OBVIOUS
<1>1. CASE MainStep
  <2>1. CASE Fork
    BY <2>1, MoveKeepsZombies DEF Fork, Live, Goto
  <2>2. CASE Accept \/ GetPeerName \/ CountConnection \/ CloseClient
    BY <2>2 DEF Accept, GetPeerName, CountConnection, CloseClient, childVars,
       signalVars, ZombieInv, NoLostZombie, Zombies
  <2>3. QED
    BY <1>1, <2>1, <2>2 DEF MainStep
<1>2. CASE MainError
  BY <1>2, ExitReaps DEF MainError, AcceptError, GetPeerNameError, ForkError
<1>3. CASE TakeSignal
  BY <1>3 DEF TakeSignal, childVars, ZombieInv, NoLostZombie, Zombies
<1>4. CASE HandlerStep
  <2>1. CASE HandlerReturn
    BY <2>1 DEF HandlerReturn, childVars, ZombieInv, NoLostZombie, Zombies
  <2>2. ASSUME NEW c \in Conns, Reap(c) PROVE ZombieInv'
    BY <2>2 DEF Reap, signalVars, ZombieInv, NoLostZombie, ChildPoints
  <2>3. QED
    BY <1>4, <2>1, <2>2 DEF HandlerStep
<1>5. ASSUME NEW c \in Conns, ClientStep(c) PROVE ZombieInv'
  BY <1>5 DEF ClientStep, Connect, Leave, SendRequest, childVars, signalVars,
     ZombieInv, NoLostZombie, Zombies
<1>6. ASSUME NEW c \in Conns, FdopenError(c) PROVE ZombieInv'
  BY <1>6, MoveKeepsZombies DEF FdopenError, MoveTo, Live
<1>7. ASSUME NEW c \in Conns, ChildStep(c) PROVE ZombieInv'
  <2>1. CASE \/ ReadRequest(c) \/ ReadFails(c) \/ RefuseVersion(c)
             \/ ExitEarly(c) \/ SendStatus(c) \/ SendHeaders(c)
             \/ StatsHeadersFail(c) \/ SendBody(c) \/ CloseStream(c)
    <3>1. PICK point \in Live : MoveTo(c, point)
      BY <2>1 DEF ReadRequest, ReadFails, RefuseVersion, ExitEarly, SendStatus,
         SendHeaders, StatsHeadersFail, SendBody, CloseStream, Live
    <3>2. QED
      BY <3>1, MoveKeepsZombies DEF MoveTo
  <2>2. CASE LogAndCount(c) \/ CountResponse(c) \/ ReadCounter(c)
    <3>1. PICK point \in Live : Goto(c, point)
      BY <2>2 DEF LogAndCount, CountResponse, ReadCounter, Live
    <3>2. UNCHANGED signalVars
      BY <2>2 DEF LogAndCount, CountResponse, ReadCounter
    <3>3. QED
      BY <3>1, <3>2, MoveKeepsZombies
  <2>3. CASE \/ CrashEarly(c) \/ CrashOnNull(c) \/ CrashInHeaders(c)
             \/ CrashFreeing(c) \/ Exit(c)
    BY <2>3, DieSignals DEF CrashEarly, CrashOnNull, CrashInHeaders,
       CrashFreeing, Crash, Exit
  <2>4. QED
    BY <1>7, <2>1, <2>2, <2>3 DEF ChildStep
<1>8. CASE UNCHANGED vars
  BY <1>8 DEF vars, childVars, signalVars, ZombieInv, NoLostZombie, Zombies
<1>9. QED
  BY <1>1, <1>2, <1>3, <1>4, <1>5, <1>6, <1>7, <1>8 DEF Next

\* SIGCHLD does not queue and child_handler reaps in a loop (main.c:130-132):
\* in every reachable state a zombie still has a signal pending for it or the
\* loop still running.
THEOREM NoLostZombieHolds == Spec => []NoLostZombie
<1>1. Init => ZombieInv
  BY DEF Init, ZombieInv, ChildPoints, NoLostZombie, Zombies
<1>2. ZombieInv => NoLostZombie
  BY DEF ZombieInv
<1>3. QED
  BY <1>1, <1>2, StepZombieInv, PTL DEF Spec

(***************************************************************************)
(* A connection is handed over once: from its client to the backlog, from  *)
(* there to main, from main to one child.                                  *)
(***************************************************************************)

Handing == {"getpeername", "count", "fork"}

FreshInv ==
  /\ cpc \in [Conns -> ChildPoints]
  /\ client \in [Conns -> {"idle", "open", "sent", "gone"}]
  /\ backlog \in Seq(Conns)
  /\ \A i, j \in 1 .. Len(backlog) : backlog[i] = backlog[j] => i = j
  /\ \A i \in 1 .. Len(backlog) :
       client[backlog[i]] # "idle" /\ cpc[backlog[i]] = "none"
  /\ ppc \in Handing =>
       /\ socket_client \in Conns
       /\ client[socket_client] # "idle"
       /\ cpc[socket_client] = "none"
       /\ \A i \in 1 .. Len(backlog) : backlog[i] # socket_client
  /\ \A c \in Conns : cpc[c] # "none" => client[c] # "idle"

\* A child that exists moves on, or ends, and main stays where it is.
LEMMA ChildMoveFresh ==
  ASSUME NEW c \in Conns, NEW point \in ChildPoints \ {"none"},
         FreshInv, cpc[c] # "none", Goto(c, point),
         UNCHANGED <<client, backlog, ppc, socket_client>>
  PROVE  FreshInv'
BY DEF FreshInv, Goto, ChildPoints, Live, Handing

LEMMA StepFreshInv == FreshInv /\ [Next]_vars => FreshInv'
<1> SUFFICES ASSUME FreshInv, [Next]_vars PROVE FreshInv'
  OBVIOUS
<1>1. CASE Accept
  <2>1. /\ backlog # <<>>
        /\ backlog' = Tail(backlog)
        /\ socket_client' = Head(backlog)
        /\ cpc' = cpc /\ client' = client
    BY <1>1 DEF Accept, childVars, clientVars
  <2>2. /\ Len(backlog) \in Nat \ {0}
        /\ backlog' \in Seq(Conns)
        /\ Len(backlog') = Len(backlog) - 1
        /\ \A i \in 1 .. Len(backlog') : backlog'[i] = backlog[i + 1]
        /\ socket_client' = backlog[1] /\ socket_client' \in Conns
    BY <2>1 DEF FreshInv
  <2>3. QED
    BY <2>1, <2>2 DEF FreshInv
<1>2. CASE GetPeerName \/ CountConnection
  BY <1>2 DEF GetPeerName, CountConnection, MainAt, FreshInv, Handing,
     clientVars, childVars
<1>3. CASE Fork
  BY <1>3 DEF Fork, MainAt, FreshInv, Handing, clientVars, ChildPoints, Live
<1>4. CASE CloseClient
  BY <1>4 DEF CloseClient, MainAt, FreshInv, Handing, clientVars, childVars
<1>5. CASE MainError
  BY <1>5 DEF MainError, AcceptError, GetPeerNameError, ForkError, ParentExit,
     FreshInv, Handing, clientVars, ChildPoints, Live
<1>6. CASE TakeSignal
  BY <1>6 DEF TakeSignal, clientVars, loopVars, childVars, FreshInv
<1>7. CASE HandlerStep
  BY <1>7 DEF HandlerStep, HandlerReturn, Reap, clientVars, loopVars, childVars,
     FreshInv, Handing, ChildPoints, Live
<1>8. ASSUME NEW c \in Conns, Connect(c) PROVE FreshInv'
  <2>1. /\ client[c] = "idle"
        /\ client' = [client EXCEPT ![c] = "open"]
        /\ backlog' = Append(backlog, c)
        /\ UNCHANGED <<cpc, ppc, socket_client>>
    BY <1>8 DEF Connect, childVars, loopVars
  <2>2. /\ Len(backlog) \in Nat
        /\ backlog' \in Seq(Conns)
        /\ Len(backlog') = Len(backlog) + 1
        /\ backlog'[Len(backlog) + 1] = c
        /\ \A i \in 1 .. Len(backlog) : backlog'[i] = backlog[i]
                                        /\ backlog[i] \in Conns
    BY <2>1 DEF FreshInv
  <2>3. QED
    BY <2>1, <2>2 DEF FreshInv
<1>9. ASSUME NEW c \in Conns, Leave(c) \/ \E r \in Requests : SendRequest(c, r)
      PROVE  FreshInv'
  BY <1>9 DEF Leave, SendRequest, childVars, loopVars, FreshInv
<1>10. ASSUME NEW c \in Conns, FdopenError(c) \/ ChildStep(c)
       PROVE  FreshInv'
  <2>1. UNCHANGED <<client, backlog, ppc, socket_client>>
    BY <1>10 DEF FdopenError, ChildStep, ReadRequest, ReadFails, LogAndCount,
       RefuseVersion, ExitEarly, CrashEarly, CountResponse, CrashOnNull,
       SendStatus, CrashInHeaders, SendHeaders, StatsHeadersFail, ReadCounter,
       SendBody, CrashFreeing, CloseStream, Exit, MoveTo, Crash, clientVars,
       loopVars
  <2>2. PICK point \in ChildPoints \ {"none"} : Goto(c, point)
    BY <1>10 DEF FdopenError, ChildStep, ReadRequest, ReadFails, LogAndCount,
       RefuseVersion, ExitEarly, CrashEarly, CountResponse, CrashOnNull,
       SendStatus, CrashInHeaders, SendHeaders, StatsHeadersFail, ReadCounter,
       SendBody, CrashFreeing, CloseStream, Exit, MoveTo, Crash, Die,
       ChildPoints, Live
  <2>3. cpc[c] # "none"
    BY <1>10 DEF FdopenError, ChildStep, ReadRequest, ReadFails, LogAndCount,
       RefuseVersion, ExitEarly, CrashEarly, CountResponse, CrashOnNull,
       SendStatus, CrashInHeaders, SendHeaders, StatsHeadersFail, ReadCounter,
       SendBody, CrashFreeing, CloseStream, Exit
  <2>4. QED
    BY <2>1, <2>2, <2>3, ChildMoveFresh
<1>11. CASE UNCHANGED vars
  BY <1>11 DEF vars, clientVars, loopVars, childVars, FreshInv
<1>12. QED
  BY <1>1, <1>2, <1>3, <1>4, <1>5, <1>6, <1>7, <1>8, <1>9, <1>10, <1>11
     DEF Next, MainStep, ClientStep

\* No connection is in the backlog twice, or handed to two children, or handed
\* to a child while it is still in the backlog (main.c:74-94).
THEOREM FreshInvariance == Spec => []FreshInv
<1>1. Init => FreshInv
  BY DEF Init, FreshInv, ChildPoints, Handing
<1>2. QED
  BY <1>1, StepFreshInv, PTL DEF Spec

(***************************************************************************)
(* The semaphore is never left behind by a process that ends.              *)
(***************************************************************************)

\* A step of SharedStats by p leaves the other processes where they are.
LEMMA AdvanceIsLocal ==
  ASSUME NEW p \in Conns \cup {Parent}, NEW q \in Conns \cup {Parent}, q # p,
         Stats!TypeOK,
         Stats!Advance(p) \/ \E k \in Counters : Stats!SemWait(p, k)
  PROVE  phase'[q] = phase[q]
BY DEF Stats!TypeOK, Stats!Advance, Stats!SemTake, Stats!SemSleep, Stats!Load,
   Stats!Store, Stats!SemPost, Stats!SemWait

\* A child outside the statements that use the semaphore stays outside.
LEMMA OtherPoints ==
  ASSUME HoldersAreAlive, cpc \in [Conns -> ChildPoints],
         NEW c \in Conns, cpc[c] # "counting", NEW point, Goto(c, point),
         UNCHANGED <<ppc, phase>>
  PROVE  HoldersAreAlive'
BY DEF HoldersAreAlive, Goto

LEMMA StepHolders ==
  HoldersAreAlive /\ FreshInv /\ Stats!TypeOK /\ [Next]_vars
    => HoldersAreAlive'
<1> SUFFICES ASSUME HoldersAreAlive, FreshInv, Stats!TypeOK,
                    [Next]_vars
             PROVE  HoldersAreAlive'
  OBVIOUS
<1> USE ConnsAssumption
<1>1. CASE Accept \/ CloseClient
  BY <1>1 DEF Accept, CloseClient, MainAt, childVars, statsVars,
     HoldersAreAlive
<1>2. CASE GetPeerName
  <2>1. \A c \in Conns : phase'[c] = phase[c]
    BY <1>2, AdvanceIsLocal DEF GetPeerName, Counters
  <2>2. QED
    BY <1>2, <2>1 DEF GetPeerName, childVars, HoldersAreAlive
<1>3. CASE CountConnection
  <2>1. \A c \in Conns : phase'[c] = phase[c]
    BY <1>3, AdvanceIsLocal DEF CountConnection
  <2>2. QED
    BY <1>3, <2>1 DEF CountConnection, childVars, HoldersAreAlive
<1>4. CASE Fork
  <2>1. /\ cpc[socket_client] = "none"
        /\ socket_client \in Conns
    BY <1>4 DEF Fork, MainAt, FreshInv, Handing
  <2>2. QED
    BY <1>4, <2>1 DEF Fork, MainAt, statsVars, FreshInv, HoldersAreAlive
<1>5. CASE MainError
  BY <1>5 DEF MainError, AcceptError, GetPeerNameError, ForkError, ParentExit,
     MainAt, FreshInv, statsVars, HoldersAreAlive
<1>6. CASE TakeSignal
  <2>1. UNCHANGED phase
    BY <1>6 DEF TakeSignal, Stats!Interrupt, statsVars
  <2>2. QED
    BY <1>6, <2>1 DEF TakeSignal, loopVars, childVars, HoldersAreAlive
<1>7. CASE HandlerStep
  BY <1>7 DEF HandlerStep, HandlerReturn, Reap, FreshInv, loopVars, childVars,
     statsVars, HoldersAreAlive
<1>8. ASSUME NEW c \in Conns, ClientStep(c) PROVE HoldersAreAlive'
  BY <1>8 DEF ClientStep, Connect, Leave, SendRequest, loopVars, childVars,
     statsVars, HoldersAreAlive
<1>9. ASSUME NEW c \in Conns, LogAndCount(c) PROVE HoldersAreAlive'
  <2>1. Stats!SemWait(c, CounterOf(Code(request[c])))
    BY <1>9 DEF LogAndCount
  <2>2. \A q \in Conns \cup {Parent} : q # c => phase'[q] = phase[q]
    BY <2>1 DEF Stats!SemWait, Stats!TypeOK
  <2>3. QED
    BY <1>9, <2>2 DEF LogAndCount, Goto, loopVars, FreshInv, HoldersAreAlive
<1>10. ASSUME NEW c \in Conns, CountResponse(c) PROVE HoldersAreAlive'
  <2>1. \A q \in Conns \cup {Parent} : q # c => phase'[q] = phase[q]
    BY <1>10, AdvanceIsLocal DEF CountResponse
  <2>2. QED
    BY <1>10, <2>1 DEF CountResponse, Goto, loopVars, FreshInv,
       HoldersAreAlive
<1>11. ASSUME NEW c \in Conns, FdopenError(c) \/ ChildStep(c),
              ~LogAndCount(c), ~CountResponse(c)
       PROVE  HoldersAreAlive'
  <2>1. UNCHANGED <<ppc, phase>>
    BY <1>11 DEF FdopenError, ChildStep, ReadRequest, ReadFails,
       RefuseVersion, ExitEarly, CrashEarly, CrashOnNull, SendStatus,
       CrashInHeaders, SendHeaders, StatsHeadersFail, ReadCounter, SendBody,
       CrashFreeing, CloseStream, Exit, MoveTo, Crash, loopVars, statsVars
  <2>2. \E point : Goto(c, point)
    BY <1>11 DEF FdopenError, ChildStep, ReadRequest, ReadFails,
       RefuseVersion, ExitEarly, CrashEarly, CrashOnNull, SendStatus,
       CrashInHeaders, SendHeaders, StatsHeadersFail, ReadCounter, SendBody,
       CrashFreeing, CloseStream, Exit, MoveTo, Crash, Die
  <2>3. cpc[c] # "counting"
    BY <1>11 DEF FdopenError, ChildStep, ReadRequest, ReadFails,
       RefuseVersion, ExitEarly, CrashEarly, CrashOnNull, SendStatus,
       CrashInHeaders, SendHeaders, StatsHeadersFail, ReadCounter, SendBody,
       CrashFreeing, CloseStream, Exit
  <2>4. QED
    BY <2>1, <2>2, <2>3, OtherPoints DEF FreshInv
<1>12. CASE UNCHANGED vars
  BY <1>12 DEF vars, loopVars, childVars, statsVars, HoldersAreAlive
<1>13. QED
  BY <1>1, <1>2, <1>3, <1>4, <1>5, <1>6, <1>7, <1>8, <1>9, <1>10, <1>11,
     <1>12 DEF Next, MainStep

\* No exit, crash or error of main or of a child comes between a sem_wait and
\* its sem_post: the semaphore is never held by a process that has ended.
THEOREM HoldersAreAliveHolds == Spec => []HoldersAreAlive
<1>1. Init => HoldersAreAlive
  BY DEF Init, Stats!Init, HoldersAreAlive
<1>2. Stats!IInv => Stats!TypeOK
  BY DEF Stats!IInv
<1>3. QED
  BY <1>1, <1>2, StepHolders, FreshInvariance, StatsInvariance, PTL DEF Spec

(***************************************************************************)
(* main ends only by a call of its own that fails.                         *)
(***************************************************************************)

LEMMA StepSurvives == ParentSurvives /\ FreshInv /\ [Next]_vars => ParentSurvives'
<1> SUFFICES ASSUME ParentSurvives, FreshInv, [Next]_vars PROVE ParentSurvives'
  OBVIOUS
<1>1. \A c \in Conns : client[c] = "gone" => client'[c] = "gone"
  <2>1. ASSUME NEW c \in Conns, ClientStep(c)
        PROVE  \A d \in Conns : client[d] = "gone" => client'[d] = "gone"
    BY <2>1 DEF ClientStep, Connect, Leave, SendRequest, FreshInv
  <2>2. CASE MainStep \/ MainError
    BY <2>2 DEF MainStep, Accept, GetPeerName, CountConnection, Fork, CloseClient,
       MainError, AcceptError, GetPeerNameError, ForkError, ParentExit, clientVars
  <2>3. CASE TakeSignal \/ HandlerStep
    BY <2>3 DEF TakeSignal, HandlerStep, HandlerReturn, Reap, clientVars
  <2>4. ASSUME NEW c \in Conns, FdopenError(c) \/ ChildStep(c)
        PROVE  client' = client
    BY <2>4 DEF FdopenError, ChildStep, ReadRequest, ReadFails, LogAndCount,
       RefuseVersion, ExitEarly, CrashEarly, CountResponse, CrashOnNull,
       SendStatus, CrashInHeaders, SendHeaders, StatsHeadersFail, ReadCounter,
       SendBody, CrashFreeing, CloseStream, Exit, MoveTo, Crash, clientVars
  <2>5. CASE UNCHANGED vars
    BY <2>5 DEF vars, clientVars
  <2> QED
    BY <2>1, <2>2, <2>3, <2>4, <2>5 DEF Next
<1>2. CASE ppc' # "exited" \/ ppc = "exited"
  <2>1. ppc = "exited" => socket_client' = socket_client
    <3>1. CASE MainStep \/ MainError
      BY <3>1 DEF MainStep, MainAt, Accept, GetPeerName, CountConnection, Fork,
         CloseClient, MainError, AcceptError, GetPeerNameError, ForkError
    <3>2. CASE TakeSignal \/ HandlerStep \/ UNCHANGED vars
      BY <3>2 DEF TakeSignal, HandlerStep, HandlerReturn, Reap, loopVars, vars
    <3>3. ASSUME NEW c \in Conns, ClientStep(c) PROVE socket_client' = socket_client
      BY <3>3 DEF ClientStep, Connect, Leave, SendRequest, loopVars
    <3>4. ASSUME NEW c \in Conns, FdopenError(c) \/ ChildStep(c)
          PROVE  socket_client' = socket_client
      BY <3>4 DEF FdopenError, ChildStep, ReadRequest, ReadFails, LogAndCount,
         RefuseVersion, ExitEarly, CrashEarly, CountResponse, CrashOnNull,
         SendStatus, CrashInHeaders, SendHeaders, StatsHeadersFail, ReadCounter,
         SendBody, CrashFreeing, CloseStream, Exit, MoveTo, Crash, loopVars
    <3> QED
      BY <3>1, <3>2, <3>3, <3>4 DEF Next
  <2> QED
    BY <1>1, <1>2, <2>1 DEF ParentSurvives
<1>3. CASE ppc' = "exited" /\ ppc # "exited"
  <2>1. MainError
    <3>1. CASE MainStep
      BY <1>3, <3>1 DEF MainStep, Accept, GetPeerName, CountConnection, Fork,
         CloseClient
    <3>2. CASE TakeSignal \/ HandlerStep \/ UNCHANGED vars
      BY <1>3, <3>2 DEF TakeSignal, HandlerStep, HandlerReturn, Reap, loopVars, vars
    <3>3. ASSUME NEW c \in Conns, ClientStep(c) PROVE FALSE
      BY <1>3, <3>3 DEF ClientStep, Connect, Leave, SendRequest, loopVars
    <3>4. ASSUME NEW c \in Conns, FdopenError(c) \/ ChildStep(c) PROVE FALSE
      BY <1>3, <3>4 DEF FdopenError, ChildStep, ReadRequest, ReadFails, LogAndCount,
         RefuseVersion, ExitEarly, CrashEarly, CountResponse, CrashOnNull,
         SendStatus, CrashInHeaders, SendHeaders, StatsHeadersFail, ReadCounter,
         SendBody, CrashFreeing, CloseStream, Exit, MoveTo, Crash, loopVars
    <3> QED
      BY <3>1, <3>2, <3>3, <3>4 DEF Next
  <2>2. CASE GetPeerNameError
    <3>1. /\ socket_client \in Conns /\ client[socket_client] = "gone"
          /\ socket_client' = socket_client
      BY <2>2 DEF GetPeerNameError, MainAt, FreshInv, Handing
    <3> QED
      BY <1>1, <3>1 DEF ParentSurvives
  <2>3. CASE AcceptError \/ ForkError
    BY <2>3 DEF AcceptError, ForkError, ParentSurvives
  <2> QED
    BY <2>1, <2>2, <2>3 DEF MainError
<1> QED
  BY <1>2, <1>3

\* No child, signal or crash ends main: it exits when accept or fork fails, or
\* when a client is gone by the time of getpeername (main.c:74-86, 140-144).
THEOREM ParentSurvivesHolds == Spec => []ParentSurvives
<1>1. Init => ParentSurvives
  BY DEF Init, ParentSurvives
<1> QED
  BY <1>1, StepSurvives, FreshInvariance, PTL DEF Spec

(***************************************************************************)
(* served_connections is the number of connections handed to a child.      *)
(***************************************************************************)

Served == "served_connections"
Forked == {c \in Conns : cpc[c] # "none"}

\* main is between its increment and fork.
Between == ppc = "fork" \/ (ppc = "count" /\ phase[Parent] = "stored")

\* Only main is ever after served_connections, and it counts nothing else.
WantInv ==
  /\ want[Parent] \subseteq {Served}
  /\ \A c \in Conns : Served \notin want[c]
  /\ ppc = "count" => phase[Parent] # "out"

ExactInv ==
  /\ IsFiniteSet(Forked)
  /\ ppc # "exited" => stats[Served] = Cardinality(Forked) + IF Between THEN 1 ELSE 0

CountInv == WantInv /\ ExactInv

\* Everything else that is known when the server takes a step.
Known == FreshInv /\ Stats!IInv /\ HoldersAreAlive

\* A step that neither forks nor touches the statistics, and leaves main on the
\* same side of its increment.
Apart ==
  /\ UNCHANGED statsVars
  /\ Forked' = Forked
  /\ \/ ppc' = ppc
     \/ ppc' = "exited"
     \/ ppc' \notin {"count", "fork"} /\ ppc \notin {"count", "fork", "exited"}

LEMMA ChildApart ==
  ASSUME NEW c \in Conns, FreshInv, cpc[c] # "none", NEW point, point # "none",
         Goto(c, point), UNCHANGED <<ppc, statsVars>>
  PROVE  Apart
BY DEF FreshInv, Goto, Apart, Forked

\* All other steps.
LEMMA StepsApart ==
  ASSUME FreshInv, [Next]_vars
  PROVE  \/ Apart \/ GetPeerName \/ CountConnection \/ Fork \/ TakeSignal
         \/ \E c \in Conns : LogAndCount(c) \/ CountResponse(c)
<1>1. CASE Accept \/ CloseClient
  BY <1>1 DEF Accept, CloseClient, MainAt, Apart, Forked, childVars
<1>2. CASE MainError
  BY <1>2 DEF MainError, AcceptError, GetPeerNameError, ForkError, ParentExit, Apart,
     Forked, FreshInv
<1>3. CASE HandlerStep
  BY <1>3 DEF HandlerStep, HandlerReturn, Reap, Apart, Forked, FreshInv, loopVars,
     childVars
<1>4. ASSUME NEW c \in Conns, ClientStep(c) PROVE Apart
  BY <1>4 DEF ClientStep, Connect, Leave, SendRequest, Apart, Forked, loopVars,
     childVars
<1>5. ASSUME NEW c \in Conns, FdopenError(c) \/ ChildStep(c),
             ~LogAndCount(c), ~CountResponse(c)
      PROVE  Apart
  <2>1. UNCHANGED <<ppc, statsVars>>
    BY <1>5 DEF FdopenError, ChildStep, ReadRequest, ReadFails, RefuseVersion,
       ExitEarly, CrashEarly, CrashOnNull, SendStatus, CrashInHeaders, SendHeaders,
       StatsHeadersFail, ReadCounter, SendBody, CrashFreeing, CloseStream, Exit,
       MoveTo, Crash, loopVars
  <2>2. PICK point \in ChildPoints \ {"none"} : Goto(c, point)
    BY <1>5 DEF FdopenError, ChildStep, ReadRequest, ReadFails, RefuseVersion,
       ExitEarly, CrashEarly, CrashOnNull, SendStatus, CrashInHeaders, SendHeaders,
       StatsHeadersFail, ReadCounter, SendBody, CrashFreeing, CloseStream, Exit,
       MoveTo, Crash, Die, ChildPoints, Live
  <2>3. cpc[c] # "none"
    BY <1>5 DEF FdopenError, ChildStep, ReadRequest, ReadFails, RefuseVersion,
       ExitEarly, CrashEarly, CrashOnNull, SendStatus, CrashInHeaders, SendHeaders,
       StatsHeadersFail, ReadCounter, SendBody, CrashFreeing, CloseStream, Exit
  <2> QED
    BY <2>1, <2>2, <2>3, ChildApart
<1>6. CASE UNCHANGED vars
  BY <1>6 DEF vars, Apart, Forked, loopVars, childVars
<1> QED
  BY <1>1, <1>2, <1>3, <1>4, <1>5, <1>6 DEF Next, MainStep

\* A step of the statistics by a child after another counter.
LEMMA OthersCount ==
  ASSUME NEW c \in Conns, Stats!IInv, WantInv,
         Stats!Advance(c) \/ \E k \in Counters \ {Served} : Stats!SemWait(c, k)
  PROVE  /\ stats'[Served] = stats[Served]
         /\ phase'[Parent] = phase[Parent]
         /\ want'[Parent] = want[Parent]
         /\ \A d \in Conns : Served \notin want'[d]
<1>1. Stats!TypeOK /\ c # Parent
  BY ConnsAssumption DEF Stats!IInv
<1>2. CASE \E k \in Counters \ {Served} : Stats!SemWait(c, k)
  BY <1>1, <1>2 DEF Stats!SemWait, Stats!TypeOK, WantInv
<1>3. CASE Stats!SemTake(c) \/ Stats!SemSleep(c) \/ Stats!Load(c)
  BY <1>1, <1>3 DEF Stats!SemTake, Stats!SemSleep, Stats!Load, Stats!TypeOK, WantInv
<1>4. CASE Stats!Store(c)
  BY <1>1, <1>4 DEF Stats!Store, Stats!TypeOK, WantInv
<1>5. CASE Stats!SemPost(c)
  BY <1>1, <1>5 DEF Stats!SemPost, Stats!TypeOK, WantInv
<1> QED
  BY <1>2, <1>3, <1>4, <1>5 DEF Stats!Advance

\* A step of the increment of main: the counter and Between go up together,
\* and main leaves the three statements by sem_post only.
LEMMA MainCounts ==
  ASSUME Stats!IInv, WantInv, Stats!Advance(Parent)
  PROVE  /\ want'[Parent] \subseteq {Served}
         /\ \A c \in Conns : want'[c] = want[c]
         /\ \/ /\ stats'[Served] = stats[Served]
               /\ phase[Parent] # "stored" /\ phase'[Parent] \notin {"stored", "out"}
            \/ /\ stats'[Served] = stats[Served] + 1
               /\ phase[Parent] # "stored" /\ phase'[Parent] = "stored"
            \/ /\ stats'[Served] = stats[Served]
               /\ phase[Parent] = "stored" /\ phase'[Parent] = "out"
<1>1. /\ Stats!TypeOK
      /\ phase[Parent] = "loaded" => \A k \in want[Parent] : reg[Parent] = stats[k]
  BY DEF Stats!IInv, Stats!LoadedIsFresh
<1>2. Served \in Counters /\ Parent \notin Conns
  BY ConnsAssumption DEF Served, Counters
<1>3. CASE Stats!SemTake(Parent) \/ Stats!SemSleep(Parent) \/ Stats!Load(Parent)
  BY <1>1, <1>2, <1>3
  DEF Stats!SemTake, Stats!SemSleep, Stats!Load, Stats!TypeOK, WantInv
<1>4. CASE Stats!Store(Parent)
  BY <1>1, <1>2, <1>4 DEF Stats!Store, Stats!TypeOK, WantInv
<1>5. CASE Stats!SemPost(Parent)
  BY <1>1, <1>2, <1>5 DEF Stats!SemPost, Stats!TypeOK, WantInv
<1> QED
  BY <1>3, <1>4, <1>5 DEF Stats!Advance

LEMMA StepCountInv == CountInv /\ Known /\ [Next]_vars => CountInv'
<1> SUFFICES ASSUME CountInv, Known, [Next]_vars PROVE CountInv'
  OBVIOUS
<1>1. WantInv /\ ExactInv /\ FreshInv /\ Stats!IInv /\ Stats!TypeOK /\ HoldersAreAlive
  BY DEF CountInv, Known, Stats!IInv
<1>2. CASE Apart
  BY <1>1, <1>2 DEF CountInv, WantInv, ExactInv, Apart, Between, statsVars
<1>3. CASE GetPeerName
  <2>1. /\ ppc = "getpeername" /\ ppc' = "count" /\ Forked' = Forked
        /\ phase'[Parent] = "wait" /\ want'[Parent] = {Served} /\ stats' = stats
        /\ \A c \in Conns : want'[c] = want[c]
    BY <1>1, <1>3, ConnsAssumption
    DEF GetPeerName, MainAt, Stats!SemWait, Stats!TypeOK, Forked, childVars, Served
  <2> QED
    BY <1>1, <2>1 DEF CountInv, WantInv, ExactInv, Between
<1>4. CASE CountConnection
  <2>1. /\ ppc = "count" /\ Stats!Advance(Parent) /\ Forked' = Forked
        /\ ppc' = IF phase'[Parent] = "out" THEN "fork" ELSE "count"
    BY <1>4 DEF CountConnection, MainAt, Forked, childVars
  <2>2. WantInv'
    BY <1>1, <2>1, MainCounts DEF WantInv
  <2>3. ExactInv'
    <3>1. Cardinality(Forked) \in Nat
      BY <1>1, FS_CardinalityType DEF ExactInv
    <3> QED
      BY <1>1, <2>1, <3>1, MainCounts DEF ExactInv, Between
  <2> QED
    BY <2>2, <2>3 DEF CountInv
<1>5. CASE Fork
  <2>1. /\ ppc = "fork" /\ ppc' = "close" /\ UNCHANGED statsVars
        /\ socket_client \notin Forked /\ Forked' = Forked \cup {socket_client}
    BY <1>1, <1>5 DEF Fork, MainAt, FreshInv, Handing, Forked
  <2>2. IsFiniteSet(Forked') /\ Cardinality(Forked') = Cardinality(Forked) + 1
    BY <1>1, <2>1, FS_AddElement DEF ExactInv
  <2>3. Cardinality(Forked) \in Nat
    BY <1>1, FS_CardinalityType DEF ExactInv
  <2> QED
    BY <1>1, <2>1, <2>2, <2>3 DEF CountInv, WantInv, ExactInv, Between, statsVars
<1>6. CASE TakeSignal
  <2>1. UNCHANGED <<ppc, phase, want, stats>> /\ Forked' = Forked
    BY <1>6 DEF TakeSignal, Stats!Interrupt, statsVars, loopVars, childVars, Forked
  <2> QED
    BY <1>1, <2>1 DEF CountInv, WantInv, ExactInv, Between
<1>7. ASSUME NEW c \in Conns, LogAndCount(c) \/ CountResponse(c)
      PROVE  CountInv'
  <2>1. ppc' = ppc /\ Forked' = Forked
    BY <1>1, <1>7 DEF LogAndCount, CountResponse, Goto, loopVars, FreshInv, Forked
  <2>2. Stats!Advance(c) \/ \E k \in Counters \ {Served} : Stats!SemWait(c, k)
    <3>1. CASE CountResponse(c)
      BY <3>1 DEF CountResponse
    <3>2. CASE LogAndCount(c)
      <4>1. Stats!SemWait(c, CounterOf(Code(request[c])))
        BY <3>2 DEF LogAndCount
      <4>2. Code(request[c]) \in {200, 400, 404, 405}
        BY <3>2 DEF LogAndCount, Code, MayAnswer, ShapeCode, Supported, Unparsed
      <4>3. CounterOf(Code(request[c])) \in Counters \ {Served}
        BY <4>2 DEF CounterOf, Counters, Served
      <4> QED
        BY <4>1, <4>3
    <3> QED
      BY <1>7, <3>1, <3>2
  <2>3. WantInv' /\ stats'[Served] = stats[Served] /\ phase'[Parent] = phase[Parent]
    BY <1>1, <2>1, <2>2, OthersCount DEF WantInv
  <2> QED
    BY <1>1, <2>1, <2>3 DEF CountInv, ExactInv, Between
<1> QED
  BY <1>1, <1>2, <1>3, <1>4, <1>5, <1>6, <1>7, StepsApart

THEOREM CountInvariance == Spec => []CountInv
<1>1. Init => CountInv
  <2> SUFFICES ASSUME Init PROVE CountInv
    OBVIOUS
  <2>1. Forked = {} /\ ppc = "accept" /\ stats[Served] = 0
    BY DEF Init, Forked, Stats!Init, Served, Counters
  <2>2. WantInv
    BY <2>1 DEF Init, WantInv, Stats!Init
  <2> QED
    BY <2>1, <2>2, FS_EmptySet DEF CountInv, ExactInv, Between
<1>2. Spec => []Known
  BY FreshInvariance, StatsInvariance, HoldersAreAliveHolds, PTL DEF Known
<1> QED
  BY <1>1, <1>2, StepCountInv, PTL DEF Spec

\* served_connections is exact at every moment, for any number of connections
\* and whatever the children count meanwhile (main.c:89-94, 140).
THEOREM ExactConnectionsHolds == Spec => []ExactConnections
<1>1. CountInv => ExactConnections
  BY DEF CountInv, ExactInv, ExactConnections, Between, Forked, Served
<1> QED
  BY <1>1, CountInvariance, PTL
===============================================================================
