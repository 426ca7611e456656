--------------------------- MODULE ServerCounts_proofs ------------------------
(* Theorems about Server: what the counters of the statistics count, what  *)
(* the page of statistics shows, and the types.                            *)
EXTENDS ServerAnswers_proofs

Codes == {200, 400, 404, 405}

\* c has been given to write_request: its line, or a piece of it, is in its buffer
\* or in the log.
HasLine(c) == buffered[c] # <<>> \/ Begun(c)

\* It has still to store its increment.
Unstored(c) == cpc[c] = "counting" /\ phase[c] # "stored"

\* The connections that are in the counter of a code.
Counted(code) ==
  {c \in Conns : HasLine(c) /\ ~Unstored(c) /\ Code(request[c]) = code}

\* A child that counts is after the counter of its answer.
CountingInv ==
  \A c \in Conns : cpc[c] = "counting" =>
    /\ phase[c] # "out"
    /\ Code(request[c]) \in Codes
    /\ want[c] = {CounterOf(Code(request[c]))}

CountersExact ==
  \A code \in Codes :
    /\ IsFiniteSet(Counted(code))
    /\ stats[CounterOf(code)] = Cardinality(Counted(code))

\* What is proved elsewhere of every state.
Base == AnswersInv /\ FreshInv /\ Stats!IInv /\ CountInv /\ HoldersAreAlive

-------------------------------------------------------------------------------
(* Codes and counters.                                                     *)

LEMMA CodeFacts ==
  ASSUME NEW c, LogAndCount(c)
  PROVE  Code(request[c]) \in Codes
BY DEF LogAndCount, Code, MayAnswer, ShapeCode, Supported, Unparsed, Codes

LEMMA CounterFacts ==
  /\ \A code \in Codes : CounterOf(code) \in Counters \ {Served}
  /\ \A code, d \in Codes : CounterOf(code) = CounterOf(d) => code = d
<1>1. /\ CounterOf(200) = "ok_200" /\ CounterOf(400) = "ko_400"
      /\ CounterOf(404) = "ko_404" /\ CounterOf(405) = "ko_405"
  BY DEF CounterOf
<1> QED
  BY <1>1 DEF Codes, Counters, Served

\* The line of a connection, and what it needs.
LEMMA LineNeeds ==
  ASSUME Base, NEW c \in Conns, HasLine(c)
  PROVE  /\ request[c] # NoRequest
         /\ cpc[c] \in Logged \cup {"exiting", "zombie", "reaped"}
<1>1. ConnInv(c) /\ cpc[c] \in ChildPoints
  BY DEF Base, AnswersInv, Types
<1>2. CASE buffered[c] # <<>>
  BY <1>1, <1>2 DEF ConnInv, BufferInv, ChildPoints, Live, Logged
<1>3. CASE Begun(c)
  BY <1>1, <1>3 DEF ConnInv, PieceInv, Ended
<1> QED
  BY <1>2, <1>3 DEF HasLine

\* Lines are made by write_request only, and stay.
LEMMA LinesChange ==
  ASSUME Base, [Next]_vars
  PROVE  \/ UNCHANGED <<buffered, requests_log>>
         \/ \E c \in Conns : LogAndCount(c) \/ Exit(c)
<1>1. CASE MainStep \/ MainError \/ TakeSignal \/ HandlerStep \/ UNCHANGED vars
  BY <1>1 DEF MainStep, Accept, GetPeerName, CountConnection, Fork, CloseClient,
     MainError, AcceptError, GetPeerNameError, ForkError, ParentExit, TakeSignal,
     HandlerStep, HandlerReturn, Reap, vars, childVars
<1>2. ASSUME NEW c \in Conns, ClientStep(c)
      PROVE  UNCHANGED <<buffered, requests_log>>
  BY <1>2 DEF ClientStep, Connect, Leave, SendRequest, childVars
<1>3. ASSUME NEW c \in Conns, FdopenError(c) \/ ChildStep(c), ~LogAndCount(c), ~Exit(c)
      PROVE  UNCHANGED <<buffered, requests_log>>
  BY <1>3 DEF FdopenError, ChildStep, ReadRequest, ReadFails, RefuseVersion,
     ExitEarly, CrashEarly, CountResponse, CrashOnNull, SendStatus, CrashInHeaders,
     SendHeaders, StatsHeadersFail, ReadCounter, SendBody, CrashFreeing,
     CloseStream, MoveTo, Crash
<1> QED
  BY <1>1, <1>2, <1>3 DEF Next

LEMMA LogMakesLine ==
  ASSUME Base, NEW c \in Conns, LogAndCount(c)
  PROVE  /\ ~HasLine(c) /\ HasLine(c)'
         /\ \A d \in Conns : d # c => (HasLine(d)' <=> HasLine(d))
<1>1. /\ Types /\ ConnInv(c) /\ LogInv /\ cpc[c] = "routing"
      /\ WriteRequest(c, ip[c], Code(request[c]))
  BY DEF Base, AnswersInv, LogAndCount
<1>2. ~HasLine(c)
  BY <1>1, LineNeeds DEF Logged
<1>3. buffered[c] = <<>> /\ ip[c] = c
  BY <1>1 DEF ConnInv, BufferInv
<1>4. buffered'[c] # <<>> /\ \A d \in Conns : d # c => buffered'[d] = buffered[d]
  BY <1>1, <1>3 DEF Types, WriteRequest
<1>5. ASSUME NEW d \in Conns, d # c PROVE Begun(d)' <=> Begun(d)
  <2>1. CASE ~request[c].long
    BY <1>1, <2>1, SamePieces DEF WriteRequest
  <2>2. CASE request[c].long
    <3> DEFINE n == Len(requests_log)
               piece == [ip |-> c, code |-> Code(request[c]), part |-> "head"]
    <3>1. requests_log' = Append(requests_log, piece)
      BY <1>1, <1>3, <2>2 DEF WriteRequest
    <3>2. piece.ip = c
      OBVIOUS
    <3> HIDE DEF piece
    <3>3. /\ n \in Nat /\ Len(requests_log') = n + 1 /\ requests_log'[n + 1] = piece
          /\ \A i \in 1 .. n : requests_log'[i] = requests_log[i]
      BY <1>1, <3>1 DEF LogInv
    <3> QED
      BY <1>5, <3>2, <3>3 DEF Begun
  <2> QED
    BY <2>1, <2>2
<1> QED
  BY <1>2, <1>4, <1>5 DEF HasLine

LEMMA ExitKeepsLines ==
  ASSUME Base, NEW c \in Conns, Exit(c)
  PROVE  \A d \in Conns : HasLine(d)' <=> HasLine(d)
<1>1. /\ Types /\ ConnInv(c) /\ LogInv /\ cpc[c] = "exiting"
      /\ buffered' = [buffered EXCEPT ![c] = <<>>]
      /\ requests_log' = requests_log \o buffered[c]
  BY DEF Base, AnswersInv, Exit
<1>2. requests_log \in Seq(Lines) /\ Len(requests_log) \in Nat
  BY <1>1 DEF LogInv
<1>3. CASE buffered[c] = <<>>
  <2>1. requests_log' = requests_log /\ \A d \in Conns : buffered'[d] = buffered[d]
    BY <1>1, <1>2, <1>3 DEF Types
  <2> QED
    BY <2>1, SamePieces DEF HasLine
<1>4. CASE buffered[c] # <<>>
  <2>1. buffered[c] = <<LineOf(c)>> /\ LineOf(c) \in Lines /\ LineOf(c).ip = c
    BY <1>1, <1>4 DEF ConnInv, BufferInv, LineOf
  <2>2. /\ Len(requests_log') = Len(requests_log) + 1
        /\ \A i \in 1 .. Len(requests_log) : requests_log'[i] = requests_log[i]
        /\ requests_log'[Len(requests_log) + 1] = LineOf(c)
    BY <1>1, <1>2, <2>1
  <2>3. HasLine(c) /\ HasLine(c)'
    BY <1>2, <1>4, <2>1, <2>2 DEF HasLine, Begun
  <2>4. ASSUME NEW d \in Conns, d # c PROVE HasLine(d)' <=> HasLine(d)
    <3>1. buffered'[d] = buffered[d]
      BY <1>1, <2>4 DEF Types
    <3>2. Begun(d)' <=> Begun(d)
      BY <1>2, <2>1, <2>2, <2>4 DEF Begun
    <3> QED
      BY <3>1, <3>2 DEF HasLine
  <2> QED
    BY <2>3, <2>4
<1> QED
  BY <1>3, <1>4

\* A request that has a line is not changed any more.
LEMMA RequestsStay ==
  ASSUME Base, [Next]_vars, NEW c \in Conns, request[c] # NoRequest
  PROVE  request'[c] = request[c]
<1>1. \A d \in Conns : RequestInv(d)
  BY DEF Base, AnswersInv, ConnInv
<1>2. CASE MainStep \/ MainError \/ TakeSignal \/ HandlerStep \/ UNCHANGED vars
  BY <1>2 DEF MainStep, Accept, GetPeerName, CountConnection, Fork, CloseClient,
     MainError, AcceptError, GetPeerNameError, ForkError, ParentExit, TakeSignal,
     HandlerStep, HandlerReturn, Reap, vars, clientVars
<1>3. ASSUME NEW d \in Conns, ClientStep(d) PROVE request'[c] = request[c]
  <2>1. CASE Connect(d) \/ Leave(d)
    BY <2>1 DEF Connect, Leave
  <2>2. ASSUME NEW r \in Requests, SendRequest(d, r) PROVE request'[c] = request[c]
    BY <1>1, <2>2 DEF SendRequest, RequestInv
  <2> QED
    BY <1>3, <2>1, <2>2 DEF ClientStep
<1>4. ASSUME NEW d \in Conns, FdopenError(d) \/ ChildStep(d) PROVE request' = request
  BY <1>4 DEF FdopenError, ChildStep, ReadRequest, ReadFails, LogAndCount,
     RefuseVersion, ExitEarly, CrashEarly, CountResponse, CrashOnNull, SendStatus,
     CrashInHeaders, SendHeaders, StatsHeadersFail, ReadCounter, SendBody,
     CrashFreeing, CloseStream, Exit, MoveTo, Crash, clientVars
<1> QED
  BY <1>2, <1>3, <1>4 DEF Next

LEMMA LinesStay ==
  ASSUME Base, [Next]_vars, NEW c \in Conns
  PROVE  /\ HasLine(c) => HasLine(c)' /\ request'[c] = request[c]
         /\ HasLine(c)' /\ ~HasLine(c) => LogAndCount(c)
<1>1. HasLine(c) => request'[c] = request[c]
  BY LineNeeds, RequestsStay
<1>2. CASE UNCHANGED <<buffered, requests_log>>
  BY <1>1, <1>2, SamePieces DEF HasLine
<1>3. ASSUME NEW d \in Conns, LogAndCount(d)
      PROVE  (HasLine(c) => HasLine(c)') /\ (HasLine(c)' /\ ~HasLine(c) => LogAndCount(c))
  BY <1>3, LogMakesLine
<1>4. ASSUME NEW d \in Conns, Exit(d) PROVE HasLine(c)' <=> HasLine(c)
  BY <1>4, ExitKeepsLines
<1> QED
  BY <1>1, <1>2, <1>3, <1>4, LinesChange

-------------------------------------------------------------------------------
(* The increments.                                                         *)

LEMMA StatsLocal ==
  ASSUME NEW p \in Conns \cup {Parent}, NEW q \in Conns \cup {Parent}, q # p,
         Stats!TypeOK,
         Stats!Advance(p) \/ \E k \in Counters : Stats!SemWait(p, k)
  PROVE  phase'[q] = phase[q] /\ want'[q] = want[q]
BY DEF Stats!TypeOK, Stats!Advance, Stats!SemTake, Stats!SemSleep, Stats!Load,
   Stats!Store, Stats!SemPost, Stats!SemWait

\* Only its own two actions move a child in the three statements.
LEMMA PhaseLocal ==
  ASSUME Base, [Next]_vars, NEW c \in Conns, ~LogAndCount(c), ~CountResponse(c)
  PROVE  /\ phase'[c] = phase[c] /\ want'[c] = want[c]
         /\ cpc'[c] = "counting" <=> cpc[c] = "counting"
<1>1. Stats!TypeOK /\ Types /\ FreshInv /\ c # Parent
  BY ConnsAssumption DEF Base, AnswersInv, Stats!IInv
<1>2. CASE Accept \/ CloseClient \/ MainError \/ HandlerStep \/ UNCHANGED vars
  BY <1>1, <1>2 DEF Accept, CloseClient, MainError, AcceptError, GetPeerNameError,
     ForkError, ParentExit, HandlerStep, HandlerReturn, Reap, Types, vars, childVars,
     statsVars
<1>3. CASE GetPeerName \/ CountConnection
  <2>1. cpc' = cpc
    BY <1>3 DEF GetPeerName, CountConnection, childVars
  <2>2. Stats!Advance(Parent) \/ \E k \in Counters : Stats!SemWait(Parent, k)
    BY <1>3 DEF GetPeerName, CountConnection, Counters
  <2> QED
    BY <1>1, <2>1, <2>2, StatsLocal
<1>4. CASE Fork
  BY <1>1, <1>4 DEF Fork, MainAt, FreshInv, Handing, Types, statsVars
<1>5. CASE TakeSignal
  BY <1>5 DEF TakeSignal, Stats!Interrupt, childVars, statsVars
<1>6. ASSUME NEW d \in Conns, ClientStep(d)
      PROVE  UNCHANGED <<phase, want, cpc>>
  BY <1>6 DEF ClientStep, Connect, Leave, SendRequest, childVars, statsVars
<1>7. ASSUME NEW d \in Conns, LogAndCount(d) \/ CountResponse(d)
      PROVE  phase'[c] = phase[c] /\ want'[c] = want[c] /\ cpc'[c] = cpc[c]
  <2>1. d # c
    BY <1>7
  <2>2. cpc'[c] = cpc[c]
    BY <1>1, <1>7, <2>1 DEF LogAndCount, CountResponse, Goto, Types
  <2>3. Stats!Advance(d) \/ \E k \in Counters : Stats!SemWait(d, k)
    BY <1>7, CodeFacts, CounterFacts DEF LogAndCount, CountResponse
  <2> QED
    BY <1>1, <2>1, <2>2, <2>3, StatsLocal
<1>8. ASSUME NEW d \in Conns, FdopenError(d) \/ ChildStep(d),
             ~LogAndCount(d), ~CountResponse(d)
      PROVE  /\ UNCHANGED <<phase, want>>
             /\ cpc'[c] = "counting" <=> cpc[c] = "counting"
  BY <1>1, <1>8 DEF FdopenError, ChildStep, ReadRequest, ReadFails, RefuseVersion,
     ExitEarly, CrashEarly, CrashOnNull, SendStatus, CrashInHeaders, SendHeaders,
     StatsHeadersFail, ReadCounter, SendBody, CrashFreeing, CloseStream, Exit,
     MoveTo, Crash, Die, Goto, Types, statsVars
<1> QED
  BY <1>2, <1>3, <1>4, <1>5, <1>6, <1>7, <1>8 DEF Next, MainStep

LEMMA StepCountingInv ==
  CountingInv /\ Base /\ [Next]_vars => CountingInv'
<1> SUFFICES ASSUME CountingInv, Base, [Next]_vars, NEW c \in Conns,
                    cpc'[c] = "counting"
             PROVE  /\ phase'[c] # "out"
                    /\ Code(request'[c]) \in Codes
                    /\ want'[c] = {CounterOf(Code(request'[c]))}
  BY DEF CountingInv
<1>1. Stats!TypeOK /\ Types /\ ConnInv(c)
  BY DEF Base, AnswersInv, Stats!IInv
<1>2. CASE LogAndCount(c)
  <2>1. request'[c] = request[c] /\ Stats!SemWait(c, CounterOf(Code(request[c])))
    BY <1>2 DEF LogAndCount, clientVars
  <2> QED
    BY <1>1, <1>2, <2>1, CodeFacts DEF Stats!SemWait, Stats!TypeOK
<1>3. CASE CountResponse(c)
  <2>1. /\ request'[c] = request[c] /\ cpc[c] = "counting" /\ Stats!Advance(c)
        /\ phase'[c] # "out"
    BY <1>1, <1>3 DEF CountResponse, clientVars, Goto, Types
  <2>2. want'[c] = want[c]
    BY <1>1, <2>1 DEF Stats!Advance, Stats!SemTake, Stats!SemSleep, Stats!Load,
       Stats!Store, Stats!SemPost, Stats!TypeOK
  <2> QED
    BY <2>1, <2>2 DEF CountingInv
<1>4. CASE ~LogAndCount(c) /\ ~CountResponse(c)
  <2>1. /\ phase'[c] = phase[c] /\ want'[c] = want[c] /\ cpc[c] = "counting"
    BY <1>4, PhaseLocal
  <2>2. request[c] # NoRequest
    BY <1>1, <2>1 DEF ConnInv, RequestInv, Routed
  <2> QED
    BY <2>1, <2>2, RequestsStay DEF CountingInv
<1> QED
  BY <1>2, <1>3, <1>4

\* The step is the store of p.
Stores(p) == phase[p] = "loaded" /\ phase'[p] = "stored"

\* A step either leaves all counters alone or is the store of one process, and
\* adds one to the counter it is after.
LEMMA CountersChange ==
  ASSUME Base, [Next]_vars
  PROVE  \/ stats' = stats /\ \A q \in Conns \cup {Parent} : ~Stores(q)
         \/ \E p \in Conns \cup {Parent} : \E k \in Counters :
              /\ Stores(p) /\ \A q \in Conns \cup {Parent} : q # p => ~Stores(q)
              /\ want[p] = {k}
              /\ stats' = [stats EXCEPT ![k] = stats[k] + 1]
<1>1. Stats!IInv /\ Stats!TypeOK
  BY DEF Base, Stats!IInv
<1>2. [Stats!Next]_statsVars
  BY StepUsesStats
<1>3. ASSUME NEW p \in Conns \cup {Parent}, Stats!Store(p)
      PROVE  \E k \in Counters :
              /\ Stores(p) /\ \A q \in Conns \cup {Parent} : q # p => ~Stores(q)
              /\ want[p] = {k}
              /\ stats' = [stats EXCEPT ![k] = stats[k] + 1]
  <2>1. PICK k \in want[p] :
          /\ phase[p] = "loaded"
          /\ stats' = [stats EXCEPT ![k] = reg[p] + 1]
          /\ phase' = [phase EXCEPT ![p] = "stored"]
    BY <1>3 DEF Stats!Store
  <2>2. want[p] = {k} /\ k \in Counters /\ reg[p] = stats[k]
    BY <1>1, <2>1 DEF Stats!IInv, Stats!TypeOK, Stats!LoadedIsFresh, Stats!OneCounter
  <2>3. Stores(p) /\ \A q \in Conns \cup {Parent} : q # p => ~Stores(q)
    BY <1>1, <2>1 DEF Stats!TypeOK, Stores
  <2> QED
    BY <2>1, <2>2, <2>3
<1> QED
  BY <1>1, <1>2, <1>3 DEF Stats!Next, Stats!Advance, Stats!SemWait, Stats!SemTake,
     Stats!SemSleep, Stats!Load, Stats!SemPost, Stats!Interrupt, statsVars, Stores,
     Stats!TypeOK

\* A connection comes into its counter with the store of its child.
LEMMA CountedChange ==
  ASSUME Base, CountingInv, [Next]_vars, NEW c \in Conns, NEW code \in Codes
  PROVE  /\ c \in Counted(code)' <=>
              c \in Counted(code) \/ (Stores(c) /\ Code(request[c]) = code)
         /\ Stores(c) => cpc[c] = "counting" /\ c \notin Counted(code)
<1>1. Stats!TypeOK /\ Types /\ ConnInv(c) /\ Stats!OneCounter
  BY DEF Base, AnswersInv, Stats!IInv
<1>2. CASE LogAndCount(c)
  <2>1. ~HasLine(c)
    BY <1>2, LogMakesLine
  <2>2. phase[c] = "out" /\ phase'[c] = "wait" /\ cpc'[c] = "counting"
    BY <1>1, <1>2 DEF LogAndCount, Stats!SemWait, Stats!TypeOK, Goto, Types
  <2> QED
    BY <2>1, <2>2 DEF Counted, Unstored, Stores
<1>3. CASE CountResponse(c)
  <2>1. /\ cpc[c] = "counting" /\ Stats!Advance(c)
        /\ cpc'[c] = IF phase'[c] = "out" THEN "status" ELSE "counting"
    BY <1>1, <1>3 DEF CountResponse, Goto, Types
  <2>2. HasLine(c) /\ HasLine(c)' /\ request'[c] = request[c]
    <3>1. Code(request[c]) # 505
      BY <2>1 DEF CountingInv, Codes
    <3>2. HasLine(c)
      <4>1. cpc[c] \in Logged
        BY <2>1 DEF Logged
      <4>2. BufferInv(c)
        BY <1>1 DEF ConnInv
      <4>3. buffered[c] = <<LineOf(c)>>
        BY <3>1, <4>1, <4>2 DEF BufferInv
      <4> QED
        BY <4>3 DEF HasLine
    <3> QED
      BY <3>2, LinesStay
  <2>3. \/ phase[c] = "stored" /\ phase'[c] = "out"
        \/ phase[c] = "loaded" /\ phase'[c] = "stored"
        \/ phase[c] \in {"wait", "in"} /\ phase'[c] \in {"wait", "in", "loaded"}
    BY <1>1, <2>1 DEF Stats!Advance, Stats!SemTake, Stats!SemSleep, Stats!Load,
       Stats!Store, Stats!SemPost, Stats!TypeOK
  <2>4. /\ Unstored(c)' <=> phase'[c] \in {"wait", "in", "loaded"}
        /\ Unstored(c) <=> phase[c] # "stored"
        /\ Stores(c) <=> phase[c] = "loaded" /\ phase'[c] = "stored"
    BY <2>1, <2>3 DEF Unstored, Stores
  <2> QED
    BY <2>2, <2>3, <2>4, <2>1 DEF Counted
<1>4. CASE ~LogAndCount(c) /\ ~CountResponse(c)
  <2>1. phase'[c] = phase[c] /\ (cpc'[c] = "counting" <=> cpc[c] = "counting")
    BY <1>4, PhaseLocal
  <2>2. /\ HasLine(c)' <=> HasLine(c)
        /\ HasLine(c) => request'[c] = request[c]
    BY <1>4, LinesStay
  <2> QED
    BY <2>1, <2>2 DEF Counted, Unstored, Stores
<1> QED
  BY <1>2, <1>3, <1>4

LEMMA StepCountersExact ==
  CountersExact /\ CountingInv /\ Base /\ [Next]_vars => CountersExact'
<1> SUFFICES ASSUME CountersExact, CountingInv, Base, [Next]_vars, NEW code \in Codes
             PROVE  /\ IsFiniteSet(Counted(code)')
                    /\ stats'[CounterOf(code)] = Cardinality(Counted(code)')
  BY DEF CountersExact
<1> DEFINE k == CounterOf(code)
<1>1. Stats!TypeOK /\ k \in Counters /\ k # Served /\ WantInv
  BY CounterFacts DEF Base, Stats!IInv, CountInv
<1>2. IsFiniteSet(Counted(code)) /\ stats[k] = Cardinality(Counted(code))
  BY DEF CountersExact
<1>3. Counted(code) \subseteq Conns /\ Counted(code)' \subseteq Conns
  BY DEF Counted
<1>4. ASSUME NEW p \in Conns, Stores(p), Code(request[p]) = code
      PROVE  want[p] = {k}
  BY <1>4, CountedChange DEF CountingInv
<1>5. CASE stats' = stats /\ \A q \in Conns : ~Stores(q)
  <2>1. Counted(code)' = Counted(code)
    BY <1>3, <1>5, CountedChange
  <2> QED
    BY <1>2, <1>5, <2>1
<1>6. ASSUME NEW p \in Conns \cup {Parent}, NEW m \in Counters, Stores(p),
             \A q \in Conns \cup {Parent} : q # p => ~Stores(q),
             want[p] = {m}, stats' = [stats EXCEPT ![m] = stats[m] + 1]
      PROVE  /\ IsFiniteSet(Counted(code)')
             /\ stats'[k] = Cardinality(Counted(code)')
  <2>1. CASE p \in Conns /\ Code(request[p]) = code
    <3>1. m = k
      BY <1>4, <1>6, <2>1
    <3>2. Counted(code)' = Counted(code) \cup {p} /\ p \notin Counted(code)
      BY <1>3, <1>6, <2>1, CountedChange
    <3>3. stats'[k] = stats[k] + 1
      BY <1>1, <1>6, <3>1 DEF Stats!TypeOK
    <3> QED
      BY <1>2, <3>2, <3>3, FS_AddElement
  <2>2. CASE ~(p \in Conns /\ Code(request[p]) = code)
    <3>1. Counted(code)' = Counted(code)
      BY <1>3, <1>6, <2>2, CountedChange
    <3>2. m # k
      <4>1. CASE p \in Conns
        <5>1. cpc[p] = "counting"
          BY <1>6, <4>1, CountedChange
        <5>2. /\ Code(request[p]) \in Codes /\ Code(request[p]) # code
              /\ m = CounterOf(Code(request[p]))
          BY <1>6, <2>2, <4>1, <5>1 DEF CountingInv
        <5> QED
          BY <5>2, CounterFacts
      <4>2. CASE p = Parent
        BY <1>1, <1>6, <4>2 DEF WantInv
      <4> QED
        BY <4>1, <4>2
    <3>3. stats'[k] = stats[k]
      BY <1>1, <1>6, <3>2 DEF Stats!TypeOK
    <3> QED
      BY <1>2, <3>1, <3>3
  <2> QED
    BY <2>1, <2>2
<1> QED
  BY <1>5, <1>6, CountersChange

-------------------------------------------------------------------------------
(* What clients are sent.                                                  *)

Answering == {"headers", "page", "body", "closing", "exiting", "zombie", "reaped"}

\* Whoever has a status line has been given to write_request.
StatusInv ==
  \A c \in Conns : "status" \in got[c] =>
    /\ cpc[c] \in Answering
    /\ request[c] # NoRequest
    /\ Code(request[c]) \in Codes => HasLine(c)

\* The status line goes out after the line of the log is made.
LEMMA SendStatusHasLine ==
  ASSUME Base, NEW c \in Conns, SendStatus(c), Code(request[c]) \in Codes
  PROVE  request[c] # NoRequest /\ HasLine(c)
<1>1. ConnInv(c) /\ cpc[c] = "status" /\ Code(request[c]) # 505
  BY DEF Base, AnswersInv, SendStatus, Codes
<1>2. buffered[c] = <<LineOf(c)>>
  BY <1>1 DEF ConnInv, BufferInv, Logged
<1> QED
  BY <1>1, <1>2 DEF ConnInv, RequestInv, Routed, HasLine

\* A child that answers goes on answering, and only SendStatus starts it.
LEMMA AnsweringMoves ==
  ASSUME Base, [Next]_vars, NEW c \in Conns
  PROVE  /\ cpc[c] \in Answering => cpc'[c] \in Answering
         /\ "status" \in got'[c] => "status" \in got[c] \/ SendStatus(c)
<1>1. Types /\ FreshInv
  BY DEF Base, AnswersInv
<1>2. CASE MainStep \/ MainError \/ TakeSignal \/ HandlerStep \/ UNCHANGED vars
  BY <1>1, <1>2 DEF MainStep, Accept, GetPeerName, CountConnection, Fork,
     CloseClient, MainError, AcceptError, GetPeerNameError, ForkError, ParentExit,
     TakeSignal, HandlerStep, HandlerReturn, Reap, vars, childVars, MainAt,
     FreshInv, Handing, Types, Answering
<1>3. ASSUME NEW d \in Conns, ClientStep(d)
      PROVE  UNCHANGED <<cpc, got>>
  BY <1>3 DEF ClientStep, Connect, Leave, SendRequest, childVars
<1>4. ASSUME NEW d \in Conns, FdopenError(d) \/ ChildStep(d)
      PROVE  cpc[c] \in Answering => cpc'[c] \in Answering
  BY <1>1, <1>4 DEF FdopenError, ChildStep, ReadRequest, ReadFails, LogAndCount,
     RefuseVersion, ExitEarly, CrashEarly, CountResponse, CrashOnNull, SendStatus,
     CrashInHeaders, SendHeaders, StatsHeadersFail, ReadCounter, SendBody,
     CrashFreeing, CloseStream, Exit, MoveTo, Crash, Die, Goto, Types, Answering
<1>5. ASSUME NEW d \in Conns, FdopenError(d) \/ ChildStep(d)
      PROVE  "status" \in got'[c] => "status" \in got[c] \/ SendStatus(c)
  <2>1. CASE SendStatus(d)
    BY <1>1, <2>1 DEF SendStatus, Deliver, Types
  <2>2. CASE SendHeaders(d) \/ SendBody(d)
    BY <1>1, <2>2 DEF SendHeaders, SendBody, Deliver, Types
  <2>3. CASE ~SendStatus(d) /\ ~SendHeaders(d) /\ ~SendBody(d)
    BY <1>5, <2>3 DEF FdopenError, ChildStep, ReadRequest, ReadFails, LogAndCount,
       RefuseVersion, ExitEarly, CrashEarly, CountResponse, CrashOnNull,
       CrashInHeaders, StatsHeadersFail, ReadCounter, CrashFreeing, CloseStream,
       Exit, Crash
  <2> QED
    BY <2>1, <2>2, <2>3
<1> QED
  BY <1>2, <1>3, <1>4, <1>5 DEF Next

LEMMA StepStatusInv == StatusInv /\ Base /\ [Next]_vars => StatusInv'
<1> SUFFICES ASSUME StatusInv, Base, [Next]_vars, NEW c \in Conns,
                    "status" \in got'[c]
             PROVE  /\ cpc'[c] \in Answering
                    /\ request'[c] # NoRequest
                    /\ Code(request'[c]) \in Codes => HasLine(c)'
  BY DEF StatusInv
<1>1. CASE "status" \in got[c]
  <2>1. /\ cpc'[c] \in Answering
        /\ request[c] # NoRequest /\ request'[c] = request[c]
    BY <1>1, AnsweringMoves, RequestsStay DEF StatusInv
  <2> QED
    BY <1>1, <2>1, LinesStay DEF StatusInv
<1>2. CASE SendStatus(c)
  <2>1. /\ cpc'[c] = "headers" /\ request' = request
        /\ request[c] # NoRequest
    BY <1>2 DEF SendStatus, MoveTo, Goto, Base, AnswersInv, Types, ConnInv, RequestInv,
       Routed, clientVars
  <2> QED
    BY <1>2, <2>1, SendStatusHasLine, LinesStay DEF Answering
<1> QED
  BY <1>1, <1>2, AnsweringMoves

-------------------------------------------------------------------------------
THEOREM BaseInvariance == Spec => []Base
BY AnswersInvariance, FreshInvariance, StatsInvariance, CountInvariance,
   HoldersAreAliveHolds, PTL DEF Base

LEMMA InitCounted ==
  ASSUME Init
  PROVE  CountingInv /\ CountersExact /\ StatusInv
<1>1. \A code \in Codes : Counted(code) = {}
  BY DEF Init, Counted, HasLine, Begun
<1>2. \A code \in Codes : stats[CounterOf(code)] = 0
  BY CounterFacts DEF Init, Stats!Init
<1>3. CountersExact
  BY <1>1, <1>2, FS_EmptySet DEF CountersExact
<1> QED
  BY <1>3 DEF Init, CountingInv, StatusInv

THEOREM CountersInvariance == Spec => [](CountingInv /\ CountersExact /\ StatusInv)
BY InitCounted, StepCountingInv, StepCountersExact, StepStatusInv, BaseInvariance, PTL
DEF Spec

\* Every child has been counted as a connection (proved further on).
ServedEnough == IsFiniteSet(Forked) /\ Cardinality(Forked) <= stats[Served]

\* A set of pieces of the log, each of a connection of its own that is in a
\* finite set, is no larger than that set.
LEMMA PiecesBound ==
  ASSUME Base, NEW parts, NEW code \in Codes, NEW C, IsFiniteSet(C),
         \A i, j \in 1 .. Len(requests_log) :
           /\ i < j /\ requests_log[i].ip = requests_log[j].ip
           /\ requests_log[i].part \in parts
           => requests_log[j].part \notin parts,
         \A i \in 1 .. Len(requests_log) :
           requests_log[i].part \in parts /\ requests_log[i].code = code =>
             requests_log[i].ip \in C
  PROVE  LinesIn(parts, code) <= Cardinality(C)
<1> DEFINE I == {i \in DOMAIN requests_log : /\ requests_log[i].part \in parts
                                             /\ requests_log[i].code = code}
           f == [i \in I |-> requests_log[i].ip]
<1>1. DOMAIN requests_log = 1 .. Len(requests_log) /\ Len(requests_log) \in Nat
  BY DEF Base, AnswersInv, LogInv
<1>2. \A i \in I : f[i] \in C
  BY <1>1
<1>3. ASSUME NEW i \in I, NEW j \in I, f[i] = f[j] PROVE i = j
  <2>1. i \in Nat /\ j \in Nat /\ ~(i < j) /\ ~(j < i)
    BY <1>1, <1>3
  <2> QED
    BY <2>1
<1>4. f \in Injection(I, C)
  BY <1>2, <1>3 DEF Injection, IsInjective
<1>5. Cardinality(I) <= Cardinality(C)
  BY <1>4, FS_Injection
<1> QED
  BY <1>5 DEF LinesIn

\* Each line of the log that is complete is of a connection of its own that is in
\* the counter of its code.
LEMMA LinesBound ==
  ASSUME Base, CountersExact, NEW code \in Codes
  PROVE  LinesIn({"whole", "tail"}, code) <= stats[CounterOf(code)]
<1> DEFINE parts == {"whole", "tail"}
<1>1. LogInv /\ IsFiniteSet(Counted(code))
  BY DEF Base, AnswersInv, CountersExact
<1>2. ASSUME NEW i \in 1 .. Len(requests_log), requests_log[i].part \in parts,
             requests_log[i].code = code
      PROVE  requests_log[i].ip \in Counted(code)
  <2>1. requests_log[i] \in Lines
    BY <1>1 DEF LogInv
  <2>2. PICK c \in Conns : requests_log[i].ip = c
    BY <2>1 DEF Lines
  <2>3. Finished(c) /\ Begun(c)
    BY <1>2, <2>2 DEF Finished, Begun
  <2>4. Ended(c) /\ Code(request[c]) = code
    BY <1>1, <1>2, <2>2, <2>3 DEF LogInv, Base, AnswersInv, ConnInv, PieceInv
  <2> QED
    BY <2>2, <2>3, <2>4 DEF Counted, HasLine, Unstored, Ended
<1>3. \A i, j \in 1 .. Len(requests_log) :
        i < j /\ requests_log[i].ip = requests_log[j].ip => requests_log[i].part = "head"
  BY <1>1 DEF LogInv
<1>4. LinesIn(parts, code) <= Cardinality(Counted(code))
  BY <1>1, <1>2, <1>3, PiecesBound
<1> QED
  BY <1>4 DEF CountersExact

\* Each line that is begun is of one that is, or is still to be counted.
LEMMA BegunBound ==
  ASSUME Base, CountersExact, ServedEnough, NEW code \in Codes
  PROVE  LinesIn({"whole", "head"}, code)
           <= stats[CounterOf(code)] + Cardinality(BegunUncounted(code))
<1> DEFINE parts == {"whole", "head"}
           C == Counted(code)
           B == BegunUncounted(code)
<1>1. LogInv /\ IsFiniteSet(C) /\ stats[CounterOf(code)] = Cardinality(C)
  BY DEF Base, AnswersInv, CountersExact
<1>2. IsFiniteSet(B)
  <2>1. B \subseteq Forked
    BY DEF BegunUncounted, Forked
  <2> QED
    BY <2>1, FS_Subset DEF ServedEnough
<1>3. /\ IsFiniteSet(C \cup B)
      /\ Cardinality(C \cup B) = Cardinality(C) + Cardinality(B)
  <2>1. C \cap B = {}
    BY DEF Counted, BegunUncounted, Unstored
  <2>2. Cardinality(C \cap B) = 0
    BY <2>1, FS_EmptySet
  <2>3. Cardinality(C) \in Nat /\ Cardinality(B) \in Nat
    BY <1>1, <1>2, FS_CardinalityType
  <2> HIDE DEF C, B
  <2>4. /\ IsFiniteSet(C \cup B)
        /\ Cardinality(C \cup B) = Cardinality(C) + Cardinality(B) - Cardinality(C \cap B)
    BY <1>1, <1>2, FS_Union
  <2> QED
    BY <2>2, <2>3, <2>4
<1>4. ASSUME NEW i \in 1 .. Len(requests_log), requests_log[i].part \in parts,
             requests_log[i].code = code
      PROVE  requests_log[i].ip \in C \cup B
  <2>1. requests_log[i] \in Lines
    BY <1>1 DEF LogInv
  <2>2. PICK c \in Conns : requests_log[i].ip = c
    BY <2>1 DEF Lines
  <2>3. Begun(c) /\ HasLine(c) /\ Code(request[c]) = code
    BY <1>1, <1>4, <2>2 DEF LogInv, Begun, HasLine
  <2>4. CASE Ended(c)
    BY <2>2, <2>3, <2>4 DEF Counted, Unstored, Ended
  <2>5. CASE ~Ended(c)
    <3>1. request[c].long
      BY <2>3, <2>5 DEF Base, AnswersInv, ConnInv, PieceInv
    <3> QED
      BY <2>2, <2>3, <3>1 DEF Counted, BegunUncounted, Unstored
  <2> QED
    BY <2>4, <2>5
<1>5. \A i, j \in 1 .. Len(requests_log) :
        i < j /\ requests_log[i].ip = requests_log[j].ip => requests_log[j].part = "tail"
  BY <1>1 DEF LogInv
<1>6. LinesIn(parts, code) <= Cardinality(C \cup B)
  <2> HIDE DEF C, B
  <2> QED
    BY <1>3, <1>4, <1>5, PiecesBound
<1> QED
  BY <1>1, <1>3, <1>6

LEMMA AnswersBound ==
  ASSUME Base, CountersExact, StatusInv, NEW code \in Codes
  PROVE  Cardinality(AnsweredWith(code)) <= stats[CounterOf(code)]
<1>1. AnsweredWith(code) \subseteq Counted(code)
  BY DEF AnsweredWith, Counted, StatusInv, Unstored, Answering
<1> QED
  BY <1>1, FS_Subset DEF CountersExact

-------------------------------------------------------------------------------
(* The page of statistics.                                                 *)

LEMMA ForkedStays ==
  ASSUME Base, [Next]_vars, ~Fork
  PROVE  Forked' = Forked
<1>1. FreshInv
  BY DEF Base
<1>2. CASE GetPeerName \/ CountConnection \/ TakeSignal
  BY <1>2 DEF GetPeerName, CountConnection, TakeSignal, childVars, Forked
<1>3. ASSUME NEW c \in Conns, LogAndCount(c) \/ CountResponse(c)
      PROVE  Forked' = Forked
  BY <1>1, <1>3 DEF LogAndCount, CountResponse, Goto, FreshInv, Forked
<1> QED
  BY <1>1, <1>2, <1>3, StepsApart DEF Apart

LEMMA CountersGrow ==
  ASSUME Base, [Next]_vars
  PROVE  \A k \in Counters : stats'[k] \in Nat /\ stats[k] \in Nat /\ stats[k] <= stats'[k]
<1>1. stats \in [Counters -> Nat]
  BY DEF Base, Stats!IInv, Stats!TypeOK
<1> QED
  BY <1>1, CountersChange

LEMMA StepServedEnough == ServedEnough /\ Base /\ [Next]_vars => ServedEnough'
<1> SUFFICES ASSUME ServedEnough, Base, [Next]_vars PROVE ServedEnough'
  OBVIOUS
<1>1. CASE Fork
  <2>1. ppc' = "close" /\ ExactInv'
    BY <1>1, StepCountInv DEF Fork, Base, Known, CountInv
  <2>2. Cardinality(Forked') \in Nat
    BY <2>1, FS_CardinalityType DEF ExactInv
  <2> QED
    BY <2>1, <2>2 DEF ExactInv, ServedEnough, Between
<1>2. CASE ~Fork
  <2>1. Forked' = Forked /\ Cardinality(Forked) \in Nat
    BY <1>2, ForkedStays, FS_CardinalityType DEF ServedEnough
  <2>2. stats[Served] \in Nat /\ stats'[Served] \in Nat /\ stats[Served] <= stats'[Served]
    BY CountersGrow DEF Counters, Served
  <2> QED
    BY <2>1, <2>2 DEF ServedEnough
<1> QED
  BY <1>1, <1>2

\* The four counters of answers never add up to more than the connections.
LEMMA SumBound ==
  ASSUME Base, CountersExact, ServedEnough
  PROVE  stats["ok_200"] + stats["ko_400"] + stats["ko_404"] + stats["ko_405"]
           <= stats[Served]
<1> DEFINE A == Counted(200)
           B == Counted(400)
           C == Counted(404)
           D == Counted(405)
<1>1. /\ CounterOf(200) = "ok_200" /\ CounterOf(400) = "ko_400"
      /\ CounterOf(404) = "ko_404" /\ CounterOf(405) = "ko_405"
  BY DEF CounterOf
<1>2. /\ IsFiniteSet(A) /\ stats["ok_200"] = Cardinality(A)
      /\ IsFiniteSet(B) /\ stats["ko_400"] = Cardinality(B)
      /\ IsFiniteSet(C) /\ stats["ko_404"] = Cardinality(C)
      /\ IsFiniteSet(D) /\ stats["ko_405"] = Cardinality(D)
  BY <1>1 DEF CountersExact, Codes
<1>3. A \cap B = {} /\ (A \cup B) \cap C = {} /\ (A \cup B \cup C) \cap D = {}
  BY DEF Counted
<1>4. A \cup B \cup C \cup D \subseteq Forked
  BY LineNeeds DEF Counted, Forked, Logged
<1> HIDE DEF A, B, C, D
<1>5. Cardinality({}) = 0
  BY FS_EmptySet
<1>6. /\ IsFiniteSet(A \cup B)
      /\ Cardinality(A \cup B) = Cardinality(A) + Cardinality(B) - 0
  BY <1>2, <1>3, <1>5, FS_Union
<1>7. /\ IsFiniteSet(A \cup B \cup C)
      /\ Cardinality(A \cup B \cup C) = Cardinality(A \cup B) + Cardinality(C) - 0
  BY <1>2, <1>3, <1>5, <1>6, FS_Union
<1>8. Cardinality(A \cup B \cup C \cup D)
        = Cardinality(A \cup B \cup C) + Cardinality(D) - 0
  BY <1>2, <1>3, <1>5, <1>7, FS_Union
<1>9. Cardinality(A \cup B \cup C \cup D) <= Cardinality(Forked)
  BY <1>4, FS_Subset DEF ServedEnough
<1>10. /\ Cardinality(A) \in Nat /\ Cardinality(B) \in Nat
       /\ Cardinality(C) \in Nat /\ Cardinality(D) \in Nat
       /\ Cardinality(Forked) \in Nat /\ stats[Served] \in Nat
  BY <1>2, FS_CardinalityType DEF ServedEnough, Base, Stats!IInv, Stats!TypeOK,
     Counters, Served
<1> QED
  BY <1>2, <1>6, <1>7, <1>8, <1>9, <1>10 DEF ServedEnough

\* gcc evaluates the arguments of snprintf from right to left, and
\* served_connections is the first of them: it is read last.
ServedLast ==
  \A i, j \in DOMAIN EvalOrder :
    EvalOrder[i] = Served /\ EvalOrder[j] # Served => j < i

PagePoints == {"page", "body", "closing", "exiting", "zombie", "reaped"}

\* What has been read of a page is what the counters were or less, the answer
\* the page is part of is among the 200s, and served_connections, when it is
\* read last, is enough for the answers that were read before it.
PageOf(s) ==
  /\ Len(s) <= Len(EvalOrder)
  /\ \A i \in 1 .. Len(s) :
       /\ s[i] <= stats[EvalOrder[i]]
       /\ EvalOrder[i] = "ok_200" => s[i] > 0
  /\ ServedLast => \A i, a, b, d, e \in 1 .. Len(s) :
       /\ EvalOrder[i] = Served
       /\ EvalOrder[a] = "ok_200" /\ EvalOrder[b] = "ko_400"
       /\ EvalOrder[d] = "ko_404" /\ EvalOrder[e] = "ko_405"
       => s[a] + s[b] + s[d] + s[e] <= s[i]

PageInv ==
  /\ snap \in [Conns -> Seq(Nat)]
  /\ \A c \in Conns :
       /\ snap[c] # <<>> => cpc[c] \in PagePoints
       /\ cpc[c] = "page" => IsStats(request[c]) /\ Len(snap[c]) < Len(EvalOrder)
       /\ PageOf(snap[c])

LEMMA OrderFacts ==
  /\ EvalOrder \in Seq(Counters)
  /\ DOMAIN EvalOrder = 1 .. Len(EvalOrder)
  /\ \A k \in Counters : \E i \in 1 .. Len(EvalOrder) : EvalOrder[i] = k
<1>1. IsFiniteSet(Counters)
  <2> DEFINE T == {"served_connections", "served_requests", "ok_200"}
             U == {"ko_400", "ko_403", "ko_404"}
  <2>1. \A x, y, z : IsFiniteSet({x, y, z})
    <3> TAKE x, y, z
    <3>1. IsFiniteSet({x} \cup {y})
      BY FS_Singleton, FS_Union
    <3>2. IsFiniteSet(({x} \cup {y}) \cup {z})
      BY <3>1, FS_Singleton, FS_Union
    <3>3. {x, y, z} = ({x} \cup {y}) \cup {z}
      OBVIOUS
    <3> QED
      BY <3>2, <3>3
  <2>2. IsFiniteSet(T) /\ IsFiniteSet(U) /\ IsFiniteSet({"ko_405"})
    BY <2>1, FS_Singleton
  <2>3. IsFiniteSet((T \cup U) \cup {"ko_405"})
    <3> HIDE DEF T, U
    <3> QED
      BY <2>2, FS_Union
  <2>4. Counters = (T \cup U) \cup {"ko_405"}
    BY DEF Counters
  <2> QED
    BY <2>3, <2>4
<1>2. PICK n \in Nat : n = Cardinality(Counters)
  BY <1>1, FS_CardinalityType
<1>3. EvalOrder \in [1 .. n -> Counters]
  BY <1>2, EvalOrderAssumption
<1>4. EvalOrder \in Seq(Counters) /\ DOMAIN EvalOrder = 1 .. Len(EvalOrder)
  BY <1>3
<1> QED
  BY <1>4, EvalOrderAssumption

\* Counters only grow, so what has been read stays right.
LEMMA PageKeeps ==
  ASSUME Base, [Next]_vars, NEW s \in Seq(Nat), PageOf(s)
  PROVE  PageOf(s)'
<1>1. \A i \in 1 .. Len(s) : s[i] \in Nat /\ EvalOrder[i] \in Counters
  BY OrderFacts DEF PageOf
<1>2. \A i \in 1 .. Len(s) : s[i] <= stats'[EvalOrder[i]]
  BY <1>1, CountersGrow DEF PageOf
<1> QED
  BY <1>2 DEF PageOf

\* The process that reads the counters has counted its own answer.
LEMMA OwnAnswer ==
  ASSUME Base, CountersExact, NEW c \in Conns, cpc[c] = "page", IsStats(request[c])
  PROVE  stats["ok_200"] > 0
<1>1. Code(request[c]) = 200 /\ CounterOf(200) = "ok_200"
  BY DEF Code, IsStats, Unparsed, Supported, ShapeCode, CounterOf
<1>2. buffered[c] = <<LineOf(c)>>
  BY <1>1 DEF Base, AnswersInv, ConnInv, BufferInv, Logged
<1>3. HasLine(c)
  BY <1>2 DEF HasLine
<1>4. c \in Counted(200)
  BY <1>1, <1>3 DEF Counted, Unstored
<1>5. IsFiniteSet(Counted(200)) /\ stats["ok_200"] = Cardinality(Counted(200))
  BY <1>1 DEF CountersExact, Codes
<1>6. Cardinality(Counted(200)) \in Nat /\ Cardinality(Counted(200)) # 0
  BY <1>4, <1>5, FS_EmptySet, FS_CardinalityType
<1> QED
  BY <1>5, <1>6

LEMMA SumOfTwo ==
  ASSUME NEW a \in Nat, NEW b \in Nat, NEW p \in Nat, NEW q \in Nat, a <= p, b <= q
  PROVE  a + b \in Nat /\ p + q \in Nat /\ a + b <= p + q
OBVIOUS

LEMMA ReadCounterPage ==
  ASSUME Base, CountersExact, ServedEnough, PageInv,
         NEW c \in Conns, ReadCounter(c), NEW s, s = snap[c]
  PROVE  /\ Append(s, stats[EvalOrder[Len(s) + 1]]) \in Seq(Nat)
         /\ PageOf(Append(s, stats[EvalOrder[Len(s) + 1]]))
<1> DEFINE n == Len(s) + 1
           t == Append(s, stats[EvalOrder[n]])
<1>1. /\ s \in Seq(Nat) /\ PageOf(s) /\ IsStats(request[c]) /\ cpc[c] = "page"
      /\ Len(s) < Len(EvalOrder) /\ Len(EvalOrder) \in Nat /\ Len(s) \in Nat
  <2>1. cpc[c] = "page" /\ IsStats(request[c]) /\ Len(s) < Len(EvalOrder)
    BY DEF PageInv, ReadCounter
  <2>2. s \in Seq(Nat)
    BY DEF PageInv
  <2>3. PageOf(s)
    BY DEF PageInv
  <2> QED
    BY <2>1, <2>2, <2>3, OrderFacts
<1>2. n \in 1 .. Len(EvalOrder) /\ EvalOrder[n] \in Counters
  BY <1>1, OrderFacts
<1>3. stats \in [Counters -> Nat]
  BY DEF Base, Stats!IInv, Stats!TypeOK
<1>4. /\ t \in Seq(Nat) /\ Len(t) = n /\ t[n] = stats[EvalOrder[n]]
      /\ \A i \in 1 .. Len(s) : t[i] = s[i]
  BY <1>1, <1>2, <1>3
<1> HIDE DEF t
<1>5. \A i \in 1 .. n : /\ t[i] <= stats[EvalOrder[i]]
                        /\ EvalOrder[i] = "ok_200" => t[i] > 0
  <2> TAKE i \in 1 .. n
  <2>1. CASE i = n
    BY <1>1, <1>2, <1>3, <1>4, <2>1, OwnAnswer
  <2>2. CASE i # n
    <3>1. i \in 1 .. Len(s)
      BY <1>1, <2>2
    <3> QED
      BY <1>1, <1>4, <3>1 DEF PageOf
  <2> QED
    BY <2>1, <2>2
<1>6. ASSUME ServedLast, NEW i \in 1 .. n, NEW a \in 1 .. n, NEW b \in 1 .. n, NEW d \in 1 .. n,
             NEW e \in 1 .. n, EvalOrder[i] = Served,
             EvalOrder[a] = "ok_200", EvalOrder[b] = "ko_400",
             EvalOrder[d] = "ko_404", EvalOrder[e] = "ko_405"
      PROVE  t[a] + t[b] + t[d] + t[e] <= t[i]
  <2>1. a < i /\ b < i /\ d < i /\ e < i
    <3>1. \A m \in 1 .. n : m \in DOMAIN EvalOrder
      BY <1>1, <1>2, OrderFacts
    <3>2. /\ EvalOrder[a] # Served /\ EvalOrder[b] # Served
          /\ EvalOrder[d] # Served /\ EvalOrder[e] # Served
      BY <1>6 DEF Served
    <3> QED
      BY <1>6, <3>1, <3>2 DEF ServedLast
  <2>2. CASE i = n
    <3>1. /\ t[a] <= stats["ok_200"] /\ t[b] <= stats["ko_400"]
          /\ t[d] <= stats["ko_404"] /\ t[e] <= stats["ko_405"]
      BY <1>5, <1>6
    <3>2. /\ stats["ok_200"] \in Nat /\ stats["ko_400"] \in Nat
          /\ stats["ko_404"] \in Nat /\ stats["ko_405"] \in Nat /\ stats[Served] \in Nat
      BY <1>3 DEF Counters, Served
    <3>3. \A m \in 1 .. n : t[m] \in Nat
      <4>1. t \in Seq(Nat) /\ Len(t) = n
        BY <1>4
      <4> HIDE DEF n
      <4> QED
        BY <4>1
    <3>4. t[a] \in Nat /\ t[b] \in Nat /\ t[d] \in Nat /\ t[e] \in Nat
      BY <3>3
    <3>5. t[i] = stats[Served]
      BY <1>4, <1>6, <2>2
    <3>6. stats["ok_200"] + stats["ko_400"] + stats["ko_404"] + stats["ko_405"]
            <= stats[Served]
      BY SumBound
    <3>7. /\ t[a] + t[b] \in Nat /\ stats["ok_200"] + stats["ko_400"] \in Nat
          /\ t[a] + t[b] <= stats["ok_200"] + stats["ko_400"]
      BY <3>1, <3>2, <3>4, SumOfTwo
    <3>8. /\ t[a] + t[b] + t[d] \in Nat
          /\ stats["ok_200"] + stats["ko_400"] + stats["ko_404"] \in Nat
          /\ t[a] + t[b] + t[d] <= stats["ok_200"] + stats["ko_400"] + stats["ko_404"]
      BY <3>1, <3>2, <3>4, <3>7, SumOfTwo
    <3>9. /\ t[a] + t[b] + t[d] + t[e] \in Nat
          /\ stats["ok_200"] + stats["ko_400"] + stats["ko_404"] + stats["ko_405"] \in Nat
          /\ t[a] + t[b] + t[d] + t[e]
               <= stats["ok_200"] + stats["ko_400"] + stats["ko_404"] + stats["ko_405"]
      <4>1. t[e] \in Nat /\ stats["ko_405"] \in Nat /\ t[e] <= stats["ko_405"]
        BY <3>1, <3>2, <3>4
      <4> QED
        BY <3>8, <4>1, SumOfTwo
    <3> QED
      BY <3>2, <3>5, <3>6, <3>9
  <2>3. CASE i # n
    <3>1. /\ i \in 1 .. Len(s) /\ a \in 1 .. Len(s) /\ b \in 1 .. Len(s)
          /\ d \in 1 .. Len(s) /\ e \in 1 .. Len(s)
      <4>1. n = Len(s) + 1 /\ i < n
        BY <1>1, <2>3
      <4> HIDE DEF n
      <4> QED
        BY <1>1, <2>1, <4>1
    <3> QED
      BY <1>1, <1>4, <1>6, <3>1 DEF PageOf
  <2> QED
    BY <2>2, <2>3
<1>7. PageOf(t)
  BY <1>1, <1>4, <1>5, <1>6 DEF PageOf
<1> QED
  BY <1>4, <1>7 DEF t

\* Only its own process moves a page on, or begins it.
LEMMA PageMoves ==
  ASSUME Base, PageInv, [Next]_vars, NEW c \in Conns, ~ReadCounter(c)
  PROVE  /\ snap'[c] = snap[c]
         /\ cpc[c] \in PagePoints => cpc'[c] \in PagePoints
         /\ cpc'[c] = "page" => \/ cpc[c] = "page"
                                \/ SendHeaders(c) /\ IsStats(request[c])
<1>1. Types /\ FreshInv /\ snap \in [Conns -> Seq(Nat)]
  BY DEF Base, AnswersInv, PageInv
<1>2. CASE MainStep \/ MainError \/ TakeSignal \/ HandlerStep \/ UNCHANGED vars
  BY <1>1, <1>2 DEF MainStep, Accept, GetPeerName, CountConnection, Fork,
     CloseClient, MainError, AcceptError, GetPeerNameError, ForkError, ParentExit,
     TakeSignal, HandlerStep, HandlerReturn, Reap, vars, childVars, MainAt,
     FreshInv, Handing, Types, PagePoints
<1>3. ASSUME NEW d \in Conns, ClientStep(d)
      PROVE  UNCHANGED <<cpc, snap>>
  BY <1>3 DEF ClientStep, Connect, Leave, SendRequest, childVars
<1>4. ASSUME NEW d \in Conns, ReadCounter(d)
      PROVE  snap'[c] = snap[c] /\ cpc'[c] = cpc[c]
  BY <1>1, <1>4 DEF ReadCounter, Goto, Types
<1>5. ASSUME NEW d \in Conns, FdopenError(d) \/ ChildStep(d), ~ReadCounter(d)
      PROVE  /\ snap' = snap
             /\ cpc[c] \in PagePoints => cpc'[c] \in PagePoints
             /\ cpc'[c] = "page" => \/ cpc[c] = "page"
                                    \/ SendHeaders(c) /\ IsStats(request[c])
  <2>1. CASE SendHeaders(d)
    BY <1>1, <2>1 DEF SendHeaders, MoveTo, Goto, Types, PagePoints
  <2>2. CASE ~SendHeaders(d)
    BY <1>1, <1>5, <2>2 DEF FdopenError, ChildStep, ReadRequest, ReadFails,
       LogAndCount, RefuseVersion, ExitEarly, CrashEarly, CountResponse, CrashOnNull,
       SendStatus, CrashInHeaders, StatsHeadersFail, SendBody, CrashFreeing,
       CloseStream, Exit, MoveTo, Crash, Die, Goto, Types, PagePoints
  <2> QED
    BY <2>1, <2>2
<1> QED
  BY <1>2, <1>3, <1>4, <1>5 DEF Next

LEMMA StepPageInv ==
  ASSUME PageInv, Base, CountersExact, ServedEnough, [Next]_vars
  PROVE  PageInv'
<1>1. Types /\ snap \in [Conns -> Seq(Nat)] /\ stats \in [Counters -> Nat]
  BY DEF Base, AnswersInv, PageInv, Stats!IInv, Stats!TypeOK
<1>2. snap' \in [Conns -> Seq(Nat)]
  <2>1. ASSUME NEW d \in Conns, ReadCounter(d) PROVE snap' \in [Conns -> Seq(Nat)]
    <3>1. PICK s : s = snap[d]
      OBVIOUS
    <3>2. snap' = [snap EXCEPT ![d] = Append(s, stats[EvalOrder[Len(s) + 1]])]
      BY <2>1, <3>1 DEF ReadCounter
    <3>3. Append(s, stats[EvalOrder[Len(s) + 1]]) \in Seq(Nat)
      BY <2>1, <3>1, ReadCounterPage
    <3> QED
      BY <1>1, <3>2, <3>3
  <2>2. CASE \A d \in Conns : ~ReadCounter(d)
    BY <1>1, <2>2 DEF Next, MainStep, Accept, GetPeerName, CountConnection, Fork,
       CloseClient, MainError, AcceptError, GetPeerNameError, ForkError, ParentExit,
       TakeSignal, HandlerStep, HandlerReturn, Reap, ClientStep, Connect, Leave,
       SendRequest, FdopenError, ChildStep, ReadRequest, ReadFails, LogAndCount,
       RefuseVersion, ExitEarly, CrashEarly, CountResponse, CrashOnNull, SendStatus,
       SendHeaders, CrashInHeaders, StatsHeadersFail, SendBody, CrashFreeing,
       CloseStream, Exit, MoveTo, Crash, vars, childVars
  <2> QED
    BY <2>1, <2>2
<1>3. ASSUME NEW c \in Conns
      PROVE  /\ snap'[c] # <<>> => cpc'[c] \in PagePoints
             /\ cpc'[c] = "page" =>
                  IsStats(request'[c]) /\ Len(snap'[c]) < Len(EvalOrder)
             /\ PageOf(snap[c])'
  <2>1. PICK s \in Seq(Nat) : s = snap[c]
    BY <1>1
  <2>2. PageOf(s)
    BY <2>1 DEF PageInv
  <2>3. CASE ReadCounter(c)
    <3> DEFINE v == stats[EvalOrder[Len(s) + 1]]
    <3>1. PICK t : t = Append(s, v)
      OBVIOUS
    <3>2. t \in Seq(Nat) /\ PageOf(t) /\ Len(t) = Len(s) + 1
      <4>1. PageOf(Append(s, v)) /\ Append(s, v) \in Seq(Nat)
        BY <2>1, <2>3, ReadCounterPage
      <4>2. Len(Append(s, v)) = Len(s) + 1
        BY <2>1
      <4> QED
        BY <3>1, <4>1, <4>2
    <3>3. snap'[c] = t
      BY <1>1, <2>1, <2>3, <3>1 DEF ReadCounter
    <3>4. PageOf(t)'
      BY <3>2, PageKeeps
    <3>5. /\ cpc[c] = "page" /\ IsStats(request[c]) /\ request' = request
          /\ cpc'[c] = IF Len(snap'[c]) = Len(EvalOrder) THEN "body" ELSE "page"
      BY <1>1, <2>3 DEF ReadCounter, Goto, Types, clientVars, PageInv
    <3>6. Len(t) <= Len(EvalOrder)
      BY <3>2 DEF PageOf
    <3>7. PageOf(snap[c])'
      BY <3>3, <3>4 DEF PageOf
    <3>8. Len(t) \in Nat /\ Len(EvalOrder) \in Nat
      BY <3>2, OrderFacts
    <3> QED
      BY <3>3, <3>5, <3>6, <3>7, <3>8 DEF PagePoints
  <2>4. CASE ~ReadCounter(c)
    <3>1. PageOf(s)' /\ snap'[c] = s
      BY <2>1, <2>2, <2>4, PageKeeps, PageMoves
    <3>2. PageOf(snap[c])'
      BY <3>1 DEF PageOf
    <3>3. s # <<>> => cpc'[c] \in PagePoints
      BY <2>1, <2>4, PageMoves DEF PageInv
    <3>4. cpc'[c] = "page" => IsStats(request'[c]) /\ Len(s) < Len(EvalOrder)
      <4>1. CASE cpc[c] = "page"
        <5>1. request[c] # NoRequest
          BY <4>1 DEF Base, AnswersInv, ConnInv, RequestInv, Routed
        <5> QED
          BY <2>1, <4>1, <5>1, RequestsStay DEF PageInv
      <4>2. CASE SendHeaders(c) /\ IsStats(request[c])
        <5>1. request' = request /\ s = <<>>
          BY <2>1, <4>2 DEF SendHeaders, MoveTo, clientVars, PageInv, PagePoints
        <5>2. Len(EvalOrder) \in Nat /\ \E i \in 1 .. Len(EvalOrder) : EvalOrder[i] = Served
          BY OrderFacts DEF Counters, Served
        <5> QED
          BY <4>2, <5>1, <5>2
      <4> QED
        BY <2>4, <4>1, <4>2, PageMoves
    <3> QED
      BY <3>1, <3>2, <3>3, <3>4
  <2> QED
    BY <2>3, <2>4
<1> QED
  BY <1>2, <1>3 DEF PageInv

LEMMA InitPages == ASSUME Init PROVE ServedEnough /\ PageInv
<1>1. Forked = {} /\ stats[Served] = 0
  BY DEF Init, Forked, Stats!Init, Served, Counters
<1>2. ServedEnough
  BY <1>1, FS_EmptySet DEF ServedEnough
<1>3. ASSUME NEW c \in Conns PROVE snap[c] = <<>> /\ cpc[c] = "none"
  BY <1>3 DEF Init
<1>4. snap \in [Conns -> Seq(Nat)]
  BY DEF Init
<1>5. PageOf(<<>>)
  BY OrderFacts DEF PageOf
<1>6. ASSUME NEW c \in Conns PROVE PageOf(snap[c])
  BY <1>3, <1>5
<1> QED
  BY <1>2, <1>3, <1>4, <1>6 DEF PageInv

THEOREM PageInvariance == Spec => [](ServedEnough /\ PageInv)
<1>1. ASSUME ServedEnough, PageInv, Base, CountersExact, [Next]_vars
      PROVE  ServedEnough' /\ PageInv'
  BY <1>1, StepServedEnough, StepPageInv
<1> QED
  BY <1>1, InitPages, BaseInvariance, CountersInvariance, PTL DEF Spec

\* No complete line is in the log, and no client has an answer, before it is
\* counted, and lines that are begun are counted but for those of the children
\* on their way to the counter, for any number of connections (log.c:69-78,
\* main.c:222-237).
THEOREM CountedFirstHolds == Spec => []CountedFirst
<1>1. Base /\ CountersExact /\ StatusInv /\ ServedEnough => CountedFirst
  BY LinesBound, BegunBound, AnswersBound DEF CountedFirst, Codes
<1> QED
  BY <1>1, BaseInvariance, CountersInvariance, PageInvariance, PTL

\* Wherever c's page shows counter k, it was read after nothing but answers
\* that were counted, and served_connections last.
LEMMA PageShows ==
  ASSUME ServedLast, PageInv, NEW c \in Conns, Len(snap[c]) = Len(EvalOrder)
  PROVE  /\ Shown(c, "ok_200") > 0
         /\ Shown(c, "ok_200") + Shown(c, "ko_400") + Shown(c, "ko_404")
              + Shown(c, "ko_405") <= Shown(c, "served_connections")
<1> DEFINE at(k) == CHOOSE i \in DOMAIN EvalOrder : EvalOrder[i] = k
<1>1. \A k \in Counters : at(k) \in DOMAIN EvalOrder /\ EvalOrder[at(k)] = k
  BY EvalOrderAssumption
<1>2. PICK s : s = snap[c]
  OBVIOUS
<1>3. DOMAIN EvalOrder = 1 .. Len(s)
  BY <1>2, OrderFacts
<1>4. \A k : Shown(c, k) = s[at(k)]
  BY <1>2 DEF Shown
<1> HIDE DEF at
<1>5. PICK i \in 1 .. Len(s), a \in 1 .. Len(s), b \in 1 .. Len(s), d \in 1 .. Len(s),
           e \in 1 .. Len(s) :
        /\ i = at("served_connections") /\ a = at("ok_200") /\ b = at("ko_400")
        /\ d = at("ko_404") /\ e = at("ko_405")
  BY <1>1, <1>3 DEF Counters
<1>6. /\ EvalOrder[i] = Served /\ EvalOrder[a] = "ok_200" /\ EvalOrder[b] = "ko_400"
      /\ EvalOrder[d] = "ko_404" /\ EvalOrder[e] = "ko_405"
  BY <1>1, <1>5 DEF Counters, Served
<1>7. PageOf(s)
  BY <1>2 DEF PageInv
<1>8. s[a] > 0 /\ s[a] + s[b] + s[d] + s[e] <= s[i]
  BY <1>6, <1>7 DEF PageOf
<1> QED
  BY <1>4, <1>5, <1>8

\* If the compiler reads served_connections last, no page of statistics shows
\* more answers than connections, and each shows its own answer, for any number
\* of connections, though it is read without the semaphore (stats.c:60-81).
THEOREM PageAddsUpHolds == ServedLast /\ Spec => []PageAddsUp
<1> SUFFICES ASSUME ServedLast PROVE Spec => []PageAddsUp
  OBVIOUS
<1>1. PageInv => PageAddsUp
  BY PageShows DEF PageAddsUp
<1> QED
  BY <1>1, PageInvariance, PTL

-------------------------------------------------------------------------------
(* Types.                                                                  *)

LoopTypes ==
  /\ ppc \in LoopPoints
  /\ socket_client \in Conns \cup {NoConn}
  /\ client_ip \in Conns \cup {NoConn}
  /\ fds \in SUBSET Conns
  /\ sigchld \in BOOLEAN
  /\ handler \in BOOLEAN
  /\ buffered \in [Conns -> Seq(LogLines)]

LEMMA StepLoopTypes == LoopTypes /\ Base /\ [Next]_vars => LoopTypes'
<1> SUFFICES ASSUME LoopTypes, Base, [Next]_vars PROVE LoopTypes'
  OBVIOUS
<1>1. /\ backlog \in Seq(Conns) /\ ip \in [Conns -> Conns \cup {NoConn}]
      /\ stats \in [Counters -> Nat]
  BY DEF Base, FreshInv, AnswersInv, Types, Stats!IInv, Stats!TypeOK
<1>2. CASE Accept
  <2>1. Head(backlog) \in Conns
    BY <1>1, <1>2 DEF Accept
  <2> QED
    BY <1>2, <2>1 DEF Accept, LoopTypes, LoopPoints, signalVars, childVars
<1>3. CASE GetPeerName \/ CountConnection \/ Fork \/ CloseClient
  BY <1>3 DEF GetPeerName, CountConnection, Fork, CloseClient, LoopTypes, LoopPoints,
     signalVars, childVars
<1>4. CASE MainError
  BY <1>4 DEF MainError, AcceptError, GetPeerNameError, ForkError, ParentExit,
     LoopTypes, LoopPoints
<1>5. CASE TakeSignal \/ HandlerStep \/ UNCHANGED vars
  BY <1>5 DEF TakeSignal, HandlerStep, HandlerReturn, Reap, LoopTypes, vars,
     loopVars, signalVars, childVars
<1>6. ASSUME NEW c \in Conns, ClientStep(c) PROVE LoopTypes'
  BY <1>6 DEF ClientStep, Connect, Leave, SendRequest, LoopTypes, loopVars,
     signalVars, childVars
<1>7. ASSUME NEW c \in Conns, LogAndCount(c) PROVE LoopTypes'
  <2>1. \A part \in {"whole", "tail"} :
          [ip |-> ip[c], code |-> Code(request[c]), part |-> part] \in LogLines
    BY <1>1, <1>7, CodeFacts DEF LogLines, Codes
  <2>2. buffered' \in [Conns -> Seq(LogLines)]
    BY <1>7, <2>1 DEF LogAndCount, WriteRequest, LoopTypes
  <2> QED
    BY <1>7, <2>2 DEF LogAndCount, LoopTypes, loopVars, signalVars
<1>8. ASSUME NEW c \in Conns, Exit(c) PROVE LoopTypes'
  <2>1. buffered' \in [Conns -> Seq(LogLines)]
    BY <1>8 DEF Exit, LoopTypes
  <2> QED
    BY <1>8, <2>1 DEF Exit, Die, LoopTypes, loopVars
<1>9. ASSUME NEW c \in Conns, FdopenError(c) \/ ChildStep(c), ~LogAndCount(c),
             ~Exit(c)
      PROVE LoopTypes'
  BY <1>9 DEF FdopenError, ChildStep, ReadRequest, ReadFails, RefuseVersion,
     ExitEarly, CrashEarly, CountResponse, CrashOnNull, SendStatus, SendHeaders,
     CrashInHeaders, StatsHeadersFail, ReadCounter, SendBody, CrashFreeing, CloseStream, MoveTo,
     Crash, Die, LoopTypes, loopVars, signalVars
<1> QED
  BY <1>2, <1>3, <1>4, <1>5, <1>6, <1>7, <1>8, <1>9 DEF Next, MainStep

THEOREM TypeCorrect == Spec => []TypeOK
<1>1. Init => LoopTypes
  <2> SUFFICES ASSUME Init PROVE LoopTypes
    OBVIOUS
  <2>1. buffered = [c \in Conns |-> <<>>]
    BY DEF Init
  <2>2. buffered \in [Conns -> Seq(LogLines)]
    BY <2>1
  <2> QED
    BY <2>2 DEF Init, LoopTypes, LoopPoints
<1>2. Base /\ LoopTypes /\ PageInv => TypeOK
  <2> SUFFICES ASSUME Base, LoopTypes, PageInv PROVE TypeOK
    OBVIOUS
  <2>1. requests_log \in Seq(LogLines)
    <3>1. requests_log \in Seq(Lines) /\ Lines \subseteq LogLines
      BY DEF Base, AnswersInv, LogInv, Lines, LogLines
    <3> QED
      BY <3>1
  <2> QED
    BY <2>1 DEF Base, AnswersInv, Types, FreshInv, LoopTypes, PageInv, TypeOK,
       Stats!IInv
<1> QED
  BY <1>1, <1>2, StepLoopTypes, BaseInvariance, PageInvariance, PTL DEF Spec
===============================================================================
