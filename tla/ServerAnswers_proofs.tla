-------------------------- MODULE ServerAnswers_proofs ------------------------
(* Theorems about the answers of Server: the log and what clients receive. *)
EXTENDS Server_proofs

Lines == [ip : Conns, code : {200, 400, 404, 405}, part : {"whole", "head", "tail"}]

\* The line of the log that belongs to the answer to c, or what is buffered of
\* it, and the piece that goes before that when it is long.
LastPart(c) == IF request[c].long THEN "tail" ELSE "whole"
LineOf(c) == [ip |-> c, code |-> Code(request[c]), part |-> LastPart(c)]
HeadOf(c) == [ip |-> c, code |-> Code(request[c]), part |-> "head"]

\* A piece of the line of c is in the log; its end is.
Begun(c) == \E i \in 1 .. Len(requests_log) : requests_log[i].ip = c
Finished(c) ==
  \E i \in 1 .. Len(requests_log) :
    requests_log[i].ip = c /\ requests_log[i].part # "head"

Routed == {"routing", "counting", "status", "headers", "page", "body", "closing"}
Logged == {"counting", "status", "headers", "page", "body", "closing"}
Over == {"closing", "exiting", "zombie", "reaped"}

\* A request stays what it was once it is sent.
RequestInv(c) ==
  /\ request[c] # NoRequest => client[c] \in {"sent", "gone"}
  /\ cpc[c] \in Routed => request[c] # NoRequest

\* A child has no line in its buffer, or its own.
BufferInv(c) ==
  /\ cpc[c] # "none" => ip[c] = c
  /\ cpc[c] \in {"none", "reading", "routing"} => buffered[c] = <<>>
  /\ \/ buffered[c] = <<>>
     \/ /\ buffered[c] = <<LineOf(c)>>
        /\ request[c] # NoRequest /\ LineOf(c) \in Lines
  /\ cpc[c] \in Logged /\ Code(request[c]) # 505 => buffered[c] = <<LineOf(c)>>

\* What has to be true of a child that has sent headers.
AnswerInv(c) ==
  /\ "headers" \in got[c] =>
       /\ cpc[c] \in {"page", "body"} \cup Over
       /\ request[c] # NoRequest
       /\ cpc[c] = "exiting" /\ Code(request[c]) # 505 => buffered[c] = <<LineOf(c)>>
  /\ cpc[c] \in Over /\ "headers" \in got[c] /\ client[c] # "gone"
       /\ ~Unparsed(request[c]) =>
       "body" \in got[c] \/ request[c].method = "HTTP_HEAD"
  /\ Ended(c) /\ "headers" \in got[c] /\ ~Unparsed(request[c]) =>
       Code(request[c]) = 505 \/ Finished(c)

\* A line that is begun has its end in the buffer while its child runs, and in
\* the log afterwards unless the child crashed.
PieceInv(c) ==
  /\ Begun(c) => request[c] # NoRequest
  /\ Begun(c) /\ ~Ended(c) =>
       /\ request[c].long /\ cpc[c] \in Logged \cup {"exiting"}
       /\ buffered[c] = <<LineOf(c)>>
  /\ Begun(c) /\ Ended(c) => MayDieLogged(c) \/ Finished(c)
  /\ Finished(c) => Ended(c)
  /\ buffered[c] # <<>> /\ request[c].long => Begun(c)

ConnInv(c) == RequestInv(c) /\ BufferInv(c) /\ AnswerInv(c) /\ PieceInv(c)

Types ==
  /\ cpc \in [Conns -> ChildPoints]
  /\ client \in [Conns -> {"idle", "open", "sent", "gone"}]
  /\ request \in [Conns -> Requests \cup {NoRequest}]
  /\ got \in [Conns -> SUBSET {"status", "headers", "body"}]
  /\ ip \in [Conns -> Conns \cup {NoConn}]
  /\ DOMAIN buffered = Conns

\* main hands the address over that belongs to the connection.
IpInv == ppc \in {"count", "fork"} => client_ip = socket_client

\* Every piece in the log is right, and there is one per connection, or a head
\* and later its tail.
LogInv ==
  /\ requests_log \in Seq(Lines)
  /\ \A i \in 1 .. Len(requests_log) :
       LET c == requests_log[i].ip
       IN  /\ requests_log[i].code = Code(request[c])
           /\ requests_log[i].part = "tail" =>
                \E j \in 1 .. Len(requests_log) : j < i /\ requests_log[j].ip = c
  /\ \A i, j \in 1 .. Len(requests_log) :
       i < j /\ requests_log[i].ip = requests_log[j].ip =>
         requests_log[i].part = "head" /\ requests_log[j].part = "tail"

AnswersInv ==
  /\ Types
  /\ IpInv
  /\ \A c \in Conns : ConnInv(c)
  /\ LogInv

-------------------------------------------------------------------------------
(* Steps of one connection leave the others alone.                         *)

\* All that ConnInv says of c is what it was.
Same(c) ==
  /\ cpc'[c] = cpc[c] /\ client'[c] = client[c] /\ request'[c] = request[c]
  /\ got'[c] = got[c] /\ ip'[c] = ip[c] /\ buffered'[c] = buffered[c]
  /\ Begun(c)' <=> Begun(c)
  /\ Finished(c)' <=> Finished(c)

LEMMA SameConn ==
  ASSUME NEW c \in Conns, ConnInv(c), Same(c)
  PROVE  ConnInv(c)'
<1>1. /\ Ended(c)' <=> Ended(c)
      /\ MayDieLogged(c)' <=> MayDieLogged(c)
      /\ LineOf(c)' = LineOf(c)
  BY DEF Same, Ended, MayDieLogged, HasNullMessage, HasDeadlyFile, LineOf, LastPart
<1> QED
  BY <1>1 DEF ConnInv, RequestInv, BufferInv, AnswerInv, PieceInv, Same

LEMMA SamePieces ==
  ASSUME UNCHANGED requests_log
  PROVE  \A c \in Conns : (Begun(c)' <=> Begun(c)) /\ (Finished(c)' <=> Finished(c))
BY DEF Begun, Finished

\* A log that does not change is right as long as requests stay what they are.
LEMMA SameLog ==
  ASSUME AnswersInv, UNCHANGED requests_log,
         \A c \in Conns : request[c] # NoRequest => request'[c] = request[c]
  PROVE  LogInv'
<1>1. LogInv /\ \A i \in 1 .. Len(requests_log) : requests_log[i] \in Lines
  BY DEF AnswersInv, LogInv
<1>2. ASSUME NEW i \in 1 .. Len(requests_log)
      PROVE  request'[requests_log[i].ip] = request[requests_log[i].ip]
  <2>1. requests_log[i].ip \in Conns
    BY <1>1 DEF Lines
  <2>2. Begun(requests_log[i].ip)
    BY DEF Begun
  <2> QED
    BY <2>1, <2>2 DEF AnswersInv, ConnInv, PieceInv
<1> QED
  BY <1>1, <1>2 DEF LogInv

-------------------------------------------------------------------------------
(* A child that answers.                                                   *)

\* What a child that moves from one point to another has to show.
Others(c) == \A d \in Conns : d # c => Same(d)

LEMMA OneMoves ==
  ASSUME NEW c \in Conns, AnswersInv, Types', ConnInv(c)', Others(c),
         UNCHANGED <<ppc, client_ip, socket_client, requests_log>>,
         request'[c] = request[c]
  PROVE  AnswersInv'
<1>1. \A d \in Conns : ConnInv(d)'
  BY SameConn DEF AnswersInv, Others
<1>2. IpInv'
  BY DEF AnswersInv, IpInv
<1>3. LogInv'
  BY SameLog DEF Others, Same
<1> QED
  BY <1>1, <1>2, <1>3 DEF AnswersInv

\* MoveTo with or without a part of the answer.
LEMMA Moved ==
  ASSUME NEW c \in Conns, Types, NEW point \in Live, MoveTo(c, point),
         got' = got \/ \E part \in {"status", "headers", "body"} : Deliver(c, part)
  PROVE  /\ Types' /\ Others(c)
         /\ UNCHANGED <<ppc, client_ip, socket_client, requests_log>>
         /\ cpc'[c] = point /\ client'[c] = client[c] /\ request'[c] = request[c]
         /\ ip'[c] = ip[c] /\ buffered'[c] = buffered[c]
         /\ request' = request
         /\ Begun(c)' <=> Begun(c)
         /\ Finished(c)' <=> Finished(c)
         /\ MayDieLogged(c)' <=> MayDieLogged(c)
         /\ LineOf(c)' = LineOf(c)
<1>1. /\ cpc' = [cpc EXCEPT ![c] = point]
      /\ UNCHANGED <<client, request, ip, buffered, ppc, client_ip, socket_client,
                     requests_log>>
  BY DEF MoveTo, Goto, clientVars, loopVars
<1>2. /\ got' \in [Conns -> SUBSET {"status", "headers", "body"}]
      /\ \A d \in Conns : d # c => got'[d] = got[d]
  BY DEF Types, Deliver
<1>3. \A d \in Conns : (Begun(d)' <=> Begun(d)) /\ (Finished(d)' <=> Finished(d))
  BY <1>1, SamePieces
<1>4. (MayDieLogged(c)' <=> MayDieLogged(c)) /\ LineOf(c)' = LineOf(c)
  BY <1>1 DEF MayDieLogged, HasNullMessage, HasDeadlyFile, LineOf, LastPart
<1> QED
  BY <1>1, <1>2, <1>3, <1>4 DEF Types, Others, Same, ChildPoints

LEMMA MoveKeeps ==
  ASSUME AnswersInv, NEW c \in Conns,
         \/ FdopenError(c) \/ ReadRequest(c) \/ ReadFails(c) \/ RefuseVersion(c)
         \/ ExitEarly(c) \/ SendStatus(c) \/ SendHeaders(c) \/ StatsHeadersFail(c)
         \/ SendBody(c) \/ CloseStream(c)
  PROVE  AnswersInv'
<1>1. Types /\ ConnInv(c)
  BY DEF AnswersInv
<1> DEFINE Done(point) ==
      /\ MoveTo(c, point)
      /\ got' = got \/ \E part \in {"status", "headers", "body"} : Deliver(c, part)
<1>2. ASSUME NEW point \in Live, Done(point), ConnInv(c)' PROVE AnswersInv'
  BY <1>1, <1>2, Moved, OneMoves
<1>3. CASE FdopenError(c) \/ ReadFails(c) \/ ExitEarly(c)
  <2>1. /\ cpc[c] \in {"reading", "routing"} /\ got' = got
        /\ MoveTo(c, "exiting")
    BY <1>3 DEF FdopenError, ReadFails, ExitEarly
  <2>2. ConnInv(c)'
    BY <1>1, <2>1, Moved
    DEF Live, Ended, ConnInv, RequestInv, BufferInv, AnswerInv, PieceInv, Routed, Logged, Over
  <2> QED
    BY <1>2, <2>1, <2>2 DEF Live
<1>4. CASE ReadRequest(c)
  <2>1. /\ cpc[c] = "reading" /\ got' = got /\ request[c] # NoRequest
        /\ MoveTo(c, "routing")
    BY <1>4 DEF ReadRequest
  <2>2. ConnInv(c)'
    BY <1>1, <2>1, Moved
    DEF Live, Ended, ConnInv, RequestInv, BufferInv, AnswerInv, PieceInv, Routed, Logged, Over
  <2> QED
    BY <1>2, <2>1, <2>2 DEF Live
<1>5. CASE RefuseVersion(c)
  <2>1. /\ cpc[c] = "routing" /\ got' = got /\ Code(request[c]) = 505
        /\ MoveTo(c, "status")
    BY <1>5 DEF RefuseVersion
  <2>2. ConnInv(c)'
    BY <1>1, <2>1, Moved
    DEF Live, Ended, ConnInv, RequestInv, BufferInv, AnswerInv, PieceInv, Routed, Logged, Over
  <2> QED
    BY <1>2, <2>1, <2>2 DEF Live
<1>6. CASE SendStatus(c)
  <2>1. cpc[c] = "status" /\ Deliver(c, "status") /\ MoveTo(c, "headers")
    BY <1>6 DEF SendStatus
  <2>2. "headers" \notin got'[c]
    BY <1>1, <2>1 DEF Deliver, Types, ConnInv, AnswerInv, Over
  <2>3. ConnInv(c)'
    BY <1>1, <2>1, <2>2, Moved
    DEF Live, Ended, ConnInv, RequestInv, BufferInv, AnswerInv, PieceInv, Routed, Logged, Over
  <2> QED
    BY <1>2, <2>1, <2>3 DEF Live
<1>7. CASE SendHeaders(c)
  <2>1. PICK point \in {"page", "body"} :
          cpc[c] = "headers" /\ Deliver(c, "headers") /\ MoveTo(c, point)
    BY <1>7 DEF SendHeaders
  <2>2. ConnInv(c)'
    BY <1>1, <2>1, Moved
    DEF Live, Ended, ConnInv, RequestInv, BufferInv, AnswerInv, PieceInv, Routed, Logged, Over
  <2> QED
    BY <1>2, <2>1, <2>2 DEF Live
<1>8. CASE StatsHeadersFail(c)
  <2>1. cpc[c] = "headers" /\ got' = got /\ MoveTo(c, "closing")
    BY <1>8 DEF StatsHeadersFail
  <2>2. "headers" \notin got'[c]
    BY <1>1, <2>1 DEF ConnInv, AnswerInv, Over
  <2>3. ConnInv(c)'
    BY <1>1, <2>1, <2>2, Moved
    DEF Live, Ended, ConnInv, RequestInv, BufferInv, AnswerInv, PieceInv, Routed, Logged, Over
  <2> QED
    BY <1>2, <2>1, <2>3 DEF Live
<1>9. CASE SendBody(c)
  <2>1. /\ cpc[c] = "body" /\ MoveTo(c, "closing")
        /\ (got' = got /\ request[c].method = "HTTP_HEAD") \/ Deliver(c, "body")
    BY <1>9 DEF SendBody
  <2>2. \/ client[c] = "gone" \/ request[c].method = "HTTP_HEAD"
        \/ "body" \in got'[c]
    BY <1>1, <2>1 DEF Deliver, Types
  <2>3. "headers" \in got'[c] => "headers" \in got[c]
    BY <1>1, <2>1 DEF Deliver, Types
  <2>4. ConnInv(c)'
    BY <1>1, <2>1, <2>2, <2>3, Moved
    DEF Live, Ended, ConnInv, RequestInv, BufferInv, AnswerInv, PieceInv, Routed, Logged, Over
  <2> QED
    BY <1>2, <2>1, <2>4 DEF Live
<1>10. CASE CloseStream(c)
  <2>1. cpc[c] = "closing" /\ got' = got /\ MoveTo(c, "exiting")
    BY <1>10 DEF CloseStream
  <2>2. ConnInv(c)'
    BY <1>1, <2>1, Moved
    DEF Live, Ended, ConnInv, RequestInv, BufferInv, AnswerInv, PieceInv, Routed, Logged, Over
  <2> QED
    BY <1>2, <2>1, <2>2 DEF Live
<1> QED
  BY <1>3, <1>4, <1>5, <1>6, <1>7, <1>8, <1>9, <1>10

\* The steps of a child that do more than move it.
LEMMA LogKeeps == ASSUME AnswersInv, NEW c \in Conns, LogAndCount(c) PROVE AnswersInv'
<1>1. Types /\ IpInv /\ ConnInv(c) /\ LogInv
  BY DEF AnswersInv
<1>2. /\ cpc[c] = "routing" /\ cpc' = [cpc EXCEPT ![c] = "counting"]
      /\ UNCHANGED <<client, request, got, ip, ppc, client_ip, socket_client>>
      /\ WriteRequest(c, ip[c], Code(request[c]))
  BY DEF LogAndCount, Goto, clientVars, loopVars
<1>3. buffered[c] = <<>> /\ ip[c] = c
  BY <1>1, <1>2 DEF ConnInv, BufferInv
<1>4. /\ buffered' = [buffered EXCEPT ![c] = <<LineOf(c)>>]
      /\ requests_log' = IF request[c].long THEN Append(requests_log, HeadOf(c))
                                            ELSE requests_log
  <2>1. Append(<<>>, LineOf(c)) = <<LineOf(c)>>
    OBVIOUS
  <2> QED
    BY <1>2, <1>3, <2>1 DEF WriteRequest, LineOf, HeadOf, LastPart
<1>5. LineOf(c) \in Lines /\ HeadOf(c) \in Lines
  BY DEF LogAndCount, LineOf, HeadOf, LastPart, Lines, Code, MayAnswer, ShapeCode,
     Supported, Unparsed
<1>6. Types' /\ IpInv'
  BY <1>1, <1>2, <1>4 DEF Types, ChildPoints, Live, IpInv
<1>7. ~Begun(c) /\ ~Finished(c)
  BY <1>1, <1>2 DEF ConnInv, PieceInv, Logged, Ended
<1>8. LineOf(c)' = LineOf(c)
  BY <1>2 DEF LineOf, LastPart
<1>9. ASSUME Begun(c)' <=> request[c].long, ~Finished(c)' PROVE ConnInv(c)'
  BY <1>1, <1>2, <1>4, <1>5, <1>8, <1>9
  DEF Types, Ended, ConnInv, RequestInv, BufferInv, AnswerInv, PieceInv, Routed, Logged, Over
<1>10. CASE ~request[c].long
  <2>1. UNCHANGED requests_log
    BY <1>4, <1>10
  <2>2. ConnInv(c)'
    BY <1>7, <1>9, <1>10, <2>1, SamePieces
  <2>3. Others(c)
    BY <1>1, <1>2, <1>4, <2>1, SamePieces DEF Types, Others, Same
  <2> QED
    BY <1>2, <1>6, <2>1, <2>2, <2>3, OneMoves
<1>11. CASE request[c].long
  <2> DEFINE n == Len(requests_log)
  <2>1. /\ n \in Nat /\ requests_log' \in Seq(Lines) /\ Len(requests_log') = n + 1
        /\ \A i \in 1 .. n : requests_log'[i] = requests_log[i]
        /\ requests_log'[n + 1] = HeadOf(c)
    BY <1>1, <1>4, <1>5, <1>11 DEF LogInv
  <2>2. HeadOf(c).ip = c /\ HeadOf(c).code = Code(request[c]) /\ HeadOf(c).part = "head"
    BY DEF HeadOf
  <2>3. /\ \A i \in 1 .. n : requests_log[i].ip # c
        /\ \A i \in 1 .. n + 1 : i \in 1 .. n \/ i = n + 1
        /\ \A i \in 1 .. n : i \in 1 .. n + 1
        /\ n + 1 \in 1 .. n + 1
    BY <1>7, <2>1 DEF Begun
  <2> HIDE DEF n
  <2>4. Begun(c)' /\ ~Finished(c)'
    BY <2>1, <2>2, <2>3 DEF Begun, Finished
  <2>5. ASSUME NEW d \in Conns, d # c
        PROVE  (Begun(d)' <=> Begun(d)) /\ (Finished(d)' <=> Finished(d))
    BY <2>1, <2>2, <2>3, <2>5 DEF Begun, Finished, n
  <2>6. Others(c)
    BY <1>1, <1>2, <1>4, <2>5 DEF Types, Others, Same
  <2>7. \A d \in Conns : ConnInv(d)'
    BY <1>9, <1>11, <2>4, <2>6, SameConn DEF AnswersInv, Others
  <2>8. LogInv'
    <3>1. ASSUME NEW i \in 1 .. n + 1
          PROVE  /\ requests_log'[i].code = Code(request[requests_log'[i].ip])
                 /\ requests_log'[i].part = "tail" =>
                      \E j \in 1 .. n + 1 :
                        j < i /\ requests_log'[j].ip = requests_log'[i].ip
      <4>1. CASE i = n + 1
        BY <2>1, <2>2, <4>1
      <4>2. CASE i \in 1 .. n
        BY <1>1, <2>1, <2>3, <4>2 DEF LogInv, n
      <4> QED
        BY <2>3, <4>1, <4>2
    <3>2. ASSUME NEW i \in 1 .. n + 1, NEW j \in 1 .. n + 1, i < j,
                 requests_log'[i].ip = requests_log'[j].ip
          PROVE  requests_log'[i].part = "head" /\ requests_log'[j].part = "tail"
      <4>1. i \in 1 .. n
        BY <2>1, <3>2
      <4>2. j # n + 1
        BY <2>1, <2>2, <2>3, <3>2, <4>1
      <4>3. j \in 1 .. n
        BY <2>3, <4>2
      <4> QED
        BY <1>1, <2>1, <3>2, <4>1, <4>3 DEF LogInv, n
    <3> QED
      BY <1>2, <2>1, <3>1, <3>2 DEF LogInv
  <2> QED
    BY <1>6, <2>7, <2>8 DEF AnswersInv
<1> QED
  BY <1>10, <1>11

\* A child that moves, ends or not, by a step that changes nothing else.
LEMMA Steps ==
  ASSUME NEW c \in Conns, AnswersInv, NEW point \in ChildPoints \ {"none"},
         cpc' = [cpc EXCEPT ![c] = point], ConnInv(c)',
         UNCHANGED <<client, request, got, ip, buffered, ppc, client_ip,
                     socket_client, requests_log>>
  PROVE  AnswersInv'
<1>1. Types' /\ Others(c)
  BY SamePieces DEF AnswersInv, Types, Others, Same
<1> QED
  BY <1>1, OneMoves

LEMMA CountKeeps ==
  ASSUME AnswersInv, NEW c \in Conns, CountResponse(c) \/ ReadCounter(c)
  PROVE  AnswersInv'
<1>1. Types /\ ConnInv(c)
  BY DEF AnswersInv
<1>2. PICK point \in {"counting", "status", "page", "body"} :
        /\ cpc' = [cpc EXCEPT ![c] = point]
        /\ \/ cpc[c] = "counting" /\ point \in {"counting", "status"}
           \/ cpc[c] = "page" /\ point \in {"page", "body"}
        /\ UNCHANGED <<client, request, got, ip, buffered, ppc, client_ip,
                       socket_client, requests_log>>
  BY DEF CountResponse, ReadCounter, Goto, clientVars, loopVars
<1>3. /\ Begun(c)' <=> Begun(c)
      /\ Finished(c)' <=> Finished(c)
      /\ LineOf(c)' = LineOf(c)
  BY <1>2, SamePieces DEF LineOf, LastPart
<1>4. ConnInv(c)'
  BY <1>1, <1>2, <1>3
  DEF Types, Ended, ConnInv, RequestInv, BufferInv, AnswerInv, PieceInv, Routed, Logged, Over
<1> QED
  BY <1>2, <1>4, Steps DEF ChildPoints, Live

LEMMA CrashKeeps ==
  ASSUME AnswersInv, NEW c \in Conns,
         CrashEarly(c) \/ CrashOnNull(c) \/ CrashInHeaders(c) \/ CrashFreeing(c)
  PROVE  AnswersInv'
<1>1. Types /\ ConnInv(c)
  BY DEF AnswersInv
<1>2. PICK point \in {"zombie", "reaped"} :
        /\ cpc' = [cpc EXCEPT ![c] = point]
        /\ \/ cpc[c] = "routing"
           \/ cpc[c] \in {"status", "headers"} /\ MayDieLogged(c)
           \/ cpc[c] = "closing" /\ Unparsed(request[c]) /\ MayDieLogged(c)
        /\ UNCHANGED <<client, request, got, ip, buffered, ppc, client_ip,
                       socket_client, requests_log>>
  BY DEF CrashEarly, CrashOnNull, CrashInHeaders, CrashFreeing, Crash, Die, Goto,
     MayDieLogged, clientVars, loopVars
<1>3. /\ Begun(c)' <=> Begun(c)
      /\ Finished(c)' <=> Finished(c)
      /\ MayDieLogged(c)' <=> MayDieLogged(c)
      /\ LineOf(c)' = LineOf(c)
  BY <1>2, SamePieces DEF MayDieLogged, HasNullMessage, HasDeadlyFile, LineOf, LastPart
<1>4. "headers" \notin got'[c] \/ Unparsed(request'[c])
  BY <1>1, <1>2 DEF ConnInv, AnswerInv, Over
<1>5. ConnInv(c)'
  BY <1>1, <1>2, <1>3, <1>4
  DEF Types, Ended, ConnInv, RequestInv, BufferInv, AnswerInv, PieceInv, Routed, Logged, Over
<1> QED
  BY <1>2, <1>5, Steps DEF ChildPoints

\* exit adds the line of c, or the end of it, or nothing.
LEMMA ExitKeeps == ASSUME AnswersInv, NEW c \in Conns, Exit(c) PROVE AnswersInv'
<1>1. Types /\ LogInv /\ IpInv /\ ConnInv(c)
  BY DEF AnswersInv
<1>2. PICK point \in {"zombie", "reaped"} :
        /\ cpc[c] = "exiting" /\ cpc' = [cpc EXCEPT ![c] = point]
        /\ UNCHANGED <<client, request, got, ip, ppc, client_ip, socket_client>>
        /\ buffered' = [buffered EXCEPT ![c] = <<>>]
        /\ requests_log' = requests_log \o buffered[c]
  BY DEF Exit, Die, Goto, clientVars, loopVars
<1>3. Types' /\ IpInv'
  BY <1>1, <1>2 DEF Types, ChildPoints, IpInv
<1>4. ~Ended(c) /\ Ended(c)' /\ ~Finished(c)
  BY <1>1, <1>2 DEF Ended, Types, ConnInv, PieceInv
<1>5. "headers" \in got[c] => Code(request[c]) = 505 \/ buffered[c] # <<>>
  <2>1. <<LineOf(c)>> # <<>>
    OBVIOUS
  <2> QED
    BY <1>1, <1>2, <2>1 DEF ConnInv, AnswerInv
<1>6. ASSUME (Begun(c)' \/ buffered[c] # <<>>) => Finished(c)' /\ request[c] # NoRequest
      PROVE  ConnInv(c)'
  <2>1. /\ cpc'[c] \in {"zombie", "reaped"} /\ buffered'[c] = <<>>
        /\ UNCHANGED <<client, request, got, ip>>
    BY <1>1, <1>2 DEF Types
  <2>2. "headers" \in got[c] => Code(request[c]) = 505 \/ Finished(c)'
    BY <1>5, <1>6
  <2>3. RequestInv(c)' /\ BufferInv(c)'
    BY <1>1, <1>2, <2>1 DEF ConnInv, RequestInv, BufferInv, Routed, Logged
  <2>4. AnswerInv(c)'
    BY <1>1, <1>2, <2>1, <2>2 DEF ConnInv, AnswerInv, Over
  <2>5. PieceInv(c)'
    BY <1>4, <1>6, <2>1 DEF PieceInv
  <2> QED
    BY <2>3, <2>4, <2>5 DEF ConnInv
<1>7. CASE buffered[c] = <<>>
  <2>1. requests_log' = requests_log
    BY <1>1, <1>2, <1>7 DEF LogInv
  <2>2. ~Begun(c)
    BY <1>1, <1>4, <1>7 DEF ConnInv, PieceInv
  <2>3. ConnInv(c)'
    BY <1>6, <1>7, <2>1, <2>2, SamePieces
  <2>4. Others(c)
    BY <1>1, <1>2, <2>1, SamePieces DEF Types, Others, Same
  <2> QED
    BY <1>2, <1>3, <2>1, <2>3, <2>4, OneMoves
<1>8. CASE buffered[c] # <<>>
  <2> DEFINE n == Len(requests_log)
  <2>1. buffered[c] = <<LineOf(c)>> /\ request[c] # NoRequest /\ LineOf(c) \in Lines
    BY <1>1, <1>8 DEF ConnInv, BufferInv
  <2>2. /\ n \in Nat /\ requests_log' \in Seq(Lines) /\ Len(requests_log') = n + 1
        /\ \A i \in 1 .. n : requests_log'[i] = requests_log[i]
        /\ requests_log'[n + 1] = LineOf(c)
    BY <1>1, <1>2, <2>1 DEF LogInv
  <2>3. /\ LineOf(c).ip = c /\ LineOf(c).code = Code(request[c])
        /\ LineOf(c).part = IF request[c].long THEN "tail" ELSE "whole"
    BY DEF LineOf, LastPart
  <2>4. /\ \A i \in 1 .. n : requests_log[i].ip = c => requests_log[i].part = "head"
        /\ \A i \in 1 .. n + 1 : i \in 1 .. n \/ i = n + 1
        /\ \A i \in 1 .. n : i \in 1 .. n + 1 /\ i < n + 1
        /\ n + 1 \in 1 .. n + 1
    BY <1>4, <2>2 DEF Finished
  <2>5. Begun(c) <=> request[c].long
    BY <1>1, <1>4, <1>8 DEF ConnInv, PieceInv
  <2>6. Begun(c) <=> \E i \in 1 .. n : requests_log[i].ip = c
    BY DEF Begun
  <2> HIDE DEF n
  <2>7. Finished(c)'
    BY <2>2, <2>3, <2>4 DEF Finished
  <2>8. ASSUME NEW d \in Conns, d # c
        PROVE  (Begun(d)' <=> Begun(d)) /\ (Finished(d)' <=> Finished(d))
    BY <2>2, <2>3, <2>4, <2>8 DEF Begun, Finished, n
  <2>9. Others(c)
    BY <1>1, <1>2, <2>8 DEF Types, Others, Same
  <2>10. \A d \in Conns : ConnInv(d)'
    BY <1>6, <2>1, <2>7, <2>9, SameConn DEF AnswersInv, Others
  <2>11. LogInv'
    <3>1. ASSUME NEW i \in 1 .. n + 1
          PROVE  /\ requests_log'[i].code = Code(request[requests_log'[i].ip])
                 /\ requests_log'[i].part = "tail" =>
                      \E j \in 1 .. n + 1 :
                        j < i /\ requests_log'[j].ip = requests_log'[i].ip
      <4>1. CASE i = n + 1
        <5>1. request[c].long => \E j \in 1 .. n : requests_log[j].ip = c
          BY <2>5, <2>6
        <5> QED
          BY <2>2, <2>3, <2>4, <4>1, <5>1
      <4>2. CASE i \in 1 .. n
        BY <1>1, <2>2, <2>4, <4>2 DEF LogInv, n
      <4> QED
        BY <2>4, <4>1, <4>2
    <3>2. ASSUME NEW i \in 1 .. n + 1, NEW j \in 1 .. n + 1, i < j,
                 requests_log'[i].ip = requests_log'[j].ip
          PROVE  requests_log'[i].part = "head" /\ requests_log'[j].part = "tail"
      <4>1. i \in 1 .. n
        BY <2>2, <3>2
      <4>2. CASE j = n + 1
        <5>1. requests_log[i].ip = c
          BY <2>2, <2>3, <3>2, <4>1, <4>2
        <5>2. request[c].long /\ requests_log[i].part = "head"
          BY <2>4, <2>5, <2>6, <4>1, <5>1
        <5> QED
          BY <2>2, <2>3, <4>1, <4>2, <5>2
      <4>3. CASE j \in 1 .. n
        BY <1>1, <2>2, <3>2, <4>1, <4>3 DEF LogInv, n
      <4> QED
        BY <2>4, <4>2, <4>3
    <3> QED
      BY <1>2, <2>2, <3>1, <3>2 DEF LogInv
  <2> QED
    BY <1>3, <2>10, <2>11 DEF AnswersInv
<1> QED
  BY <1>7, <1>8

-------------------------------------------------------------------------------
(* Clients and main.                                                       *)

\* The log does not change, and only a request that has not been sent does.
LEMMA LogStays ==
  ASSUME AnswersInv, Types', IpInv', \A c \in Conns : ConnInv(c)',
         UNCHANGED requests_log,
         \A c \in Conns : request[c] # NoRequest => request'[c] = request[c]
  PROVE  AnswersInv'
BY SameLog DEF AnswersInv

LEMMA ClientKeeps == ASSUME AnswersInv, NEW c \in Conns, ClientStep(c) PROVE AnswersInv'
<1>1. Types /\ IpInv /\ ConnInv(c)
  BY DEF AnswersInv
<1>2. UNCHANGED <<got, requests_log, ppc, client_ip, socket_client, cpc, ip, buffered>>
  BY DEF ClientStep, Connect, Leave, SendRequest, loopVars, childVars
<1>3. /\ client' \in [Conns -> {"idle", "open", "sent", "gone"}]
      /\ request' \in [Conns -> Requests \cup {NoRequest}]
      /\ \A d \in Conns : d # c => client'[d] = client[d] /\ request'[d] = request[d]
      /\ \/ request[c] = NoRequest /\ client'[c] = "sent"
         \/ /\ request'[c] = request[c]
            /\ client'[c] \in {"open", "gone"}
            /\ request[c] # NoRequest => client'[c] = "gone"
  BY <1>1 DEF Types, ConnInv, RequestInv, ClientStep, Connect, Leave, SendRequest
<1>4. Types' /\ Others(c) /\ IpInv'
  BY <1>1, <1>2, <1>3, SamePieces DEF Types, IpInv, Others, Same
<1>5. ConnInv(c)'
  <2>1. /\ Begun(c)' <=> Begun(c)
        /\ Finished(c)' <=> Finished(c)
        /\ Ended(c)' <=> Ended(c)
    BY <1>2, SamePieces DEF Ended
  <2>2. request'[c] = request[c] =>
          LineOf(c)' = LineOf(c) /\ (MayDieLogged(c)' <=> MayDieLogged(c))
    BY DEF LineOf, LastPart, MayDieLogged, HasNullMessage, HasDeadlyFile
  <2> QED
    BY <1>1, <1>2, <1>3, <2>1, <2>2
    DEF Types, ConnInv, RequestInv, BufferInv, AnswerInv, PieceInv, Routed, Logged, Over
<1>6. \A d \in Conns : ConnInv(d)'
  BY <1>4, <1>5, SameConn DEF AnswersInv, Others
<1>7. \A d \in Conns : request[d] # NoRequest => request'[d] = request[d]
  BY <1>1, <1>3 DEF ConnInv, RequestInv, Types
<1> QED
  BY <1>2, <1>4, <1>6, <1>7, LogStays

LEMMA MainKeeps ==
  ASSUME AnswersInv, FreshInv,
         MainStep \/ MainError \/ TakeSignal \/ HandlerStep \/ UNCHANGED vars
  PROVE  AnswersInv'
<1>1. Types /\ IpInv /\ \A c \in Conns : ConnInv(c)
  BY DEF AnswersInv
<1>2. UNCHANGED <<client, request, got, buffered, requests_log>>
  BY DEF MainStep, Accept, GetPeerName, CountConnection, Fork, CloseClient, MainError,
     AcceptError, GetPeerNameError, ForkError, ParentExit, TakeSignal, HandlerStep,
     HandlerReturn, Reap, vars, clientVars, childVars
<1>3. CASE Fork
  <2>1. PICK c \in Conns :
          /\ c = socket_client /\ cpc[c] = "none" /\ ppc' = "close"
          /\ cpc' = [cpc EXCEPT ![c] = "reading"]
          /\ ip' = [ip EXCEPT ![c] = c]
    BY <1>1, <1>3 DEF Fork, MainAt, FreshInv, Handing, IpInv
  <2>2. Types' /\ IpInv' /\ Others(c)
    BY <1>1, <1>2, <2>1, SamePieces DEF Types, IpInv, Others, Same, ChildPoints, Live
  <2>3. ConnInv(c)'
    <3>1. /\ Begun(c)' <=> Begun(c)
          /\ Finished(c)' <=> Finished(c)
      BY <1>2, SamePieces
    <3> QED
      BY <1>1, <1>2, <2>1, <3>1
      DEF Types, Ended, ConnInv, RequestInv, BufferInv, AnswerInv, PieceInv, Routed, Logged, Over
  <2>4. \A d \in Conns : ConnInv(d)'
    BY <1>1, <2>2, <2>3, SameConn DEF Others
  <2> QED
    BY <1>2, <2>2, <2>4, LogStays
<1>4. CASE ~Fork
  <2>1. /\ cpc' \in [Conns -> ChildPoints]
        /\ ip' = ip
        /\ \A c \in Conns : cpc'[c] = cpc[c] \/ (cpc[c] = "zombie" /\ cpc'[c] = "reaped")
    BY <1>1, <1>4 DEF Types, MainStep, Accept, GetPeerName, CountConnection, CloseClient,
       MainError, AcceptError, GetPeerNameError, ForkError, ParentExit, TakeSignal,
       HandlerStep, HandlerReturn, Reap, vars, childVars, ChildPoints
  <2>2. IpInv'
    BY <1>1, <1>4 DEF IpInv, MainAt, MainStep, Accept, GetPeerName, CountConnection,
       CloseClient, MainError, AcceptError, GetPeerNameError, ForkError, ParentExit,
       TakeSignal, HandlerStep, HandlerReturn, Reap, vars, loopVars
  <2>3. Types'
    BY <1>1, <1>2, <2>1 DEF Types
  <2>4. \A c \in Conns : ConnInv(c)'
    <3> SUFFICES ASSUME NEW c \in Conns PROVE ConnInv(c)'
      OBVIOUS
    <3>1. CASE cpc'[c] = cpc[c]
      BY <1>1, <1>2, <2>1, <3>1, SameConn, SamePieces DEF Same
    <3>2. CASE cpc[c] = "zombie" /\ cpc'[c] = "reaped"
      <4>1. /\ Begun(c)' <=> Begun(c)
            /\ Finished(c)' <=> Finished(c)
            /\ MayDieLogged(c)' <=> MayDieLogged(c)
            /\ LineOf(c)' = LineOf(c)
        BY <1>2, SamePieces DEF MayDieLogged, HasNullMessage, HasDeadlyFile, LineOf, LastPart
      <4> QED
        BY <1>1, <1>2, <2>1, <3>2, <4>1
        DEF Ended, ConnInv, RequestInv, BufferInv, AnswerInv, PieceInv, Routed, Logged, Over
    <3> QED
      BY <2>1, <3>1, <3>2
  <2> QED
    BY <1>2, <2>2, <2>3, <2>4, LogStays
<1> QED
  BY <1>3, <1>4

-------------------------------------------------------------------------------
LEMMA StepAnswersInv == AnswersInv /\ FreshInv /\ [Next]_vars => AnswersInv'
<1> SUFFICES ASSUME AnswersInv, FreshInv, [Next]_vars PROVE AnswersInv'
  OBVIOUS
<1>1. CASE MainStep \/ MainError \/ TakeSignal \/ HandlerStep \/ UNCHANGED vars
  BY <1>1, MainKeeps
<1>2. ASSUME NEW c \in Conns, ClientStep(c) PROVE AnswersInv'
  BY <1>2, ClientKeeps
<1>3. ASSUME NEW c \in Conns, FdopenError(c) \/ ChildStep(c) PROVE AnswersInv'
  BY <1>3, MoveKeeps, LogKeeps, CountKeeps, CrashKeeps, ExitKeeps DEF ChildStep
<1> QED
  BY <1>1, <1>2, <1>3 DEF Next

THEOREM AnswersInvariance == Spec => []AnswersInv
<1>1. Init => AnswersInv
  <2> SUFFICES ASSUME Init PROVE AnswersInv
    OBVIOUS
  <2>1. ASSUME NEW c \in Conns PROVE ~Begun(c) /\ ~Finished(c)
    BY DEF Init, Begun, Finished
  <2>2. ASSUME NEW c \in Conns PROVE ConnInv(c)
    BY <2>1 DEF Init, ConnInv, RequestInv, BufferInv, AnswerInv, PieceInv, Ended, Routed,
       Logged, Over
  <2> QED
    BY <2>2 DEF Init, AnswersInv, Types, IpInv, LogInv, ChildPoints
<1> QED
  BY <1>1, StepAnswersInv, FreshInvariance, PTL DEF Spec

\* A piece of the line of c and its end, as the properties say them.
LEMMA PiecesFacts ==
  ASSUME AnswersInv, NEW c \in Conns
  PROVE  /\ Begun(c) <=> PiecesOf(c) # {}
         /\ Finished(c) <=> \E i \in PiecesOf(c) : Complete(i)
<1>1. DOMAIN requests_log = 1 .. Len(requests_log)
  BY DEF AnswersInv, LogInv
<1> QED
  BY <1>1 DEF Begun, Finished, PiecesOf, Complete

\* The log has one line at most for a connection, the right one and its pieces
\* in order, for any number of connections (log.c:69-78; client_ip is a global).
THEOREM LogFaithfulHolds == Spec => []LogFaithful
<1>1. AnswersInv => LogFaithful
  <2> SUFFICES ASSUME AnswersInv PROVE LogFaithful
    OBVIOUS
  <2>1. /\ LogInv /\ requests_log \in Seq(Lines)
        /\ DOMAIN requests_log = 1 .. Len(requests_log)
    BY DEF AnswersInv, LogInv
  <2>2. \A i \in DOMAIN requests_log : requests_log[i] \in Lines
    BY <2>1
  <2>3. ASSUME NEW i \in DOMAIN requests_log, NEW c \in Conns, requests_log[i].ip = c
        PROVE  /\ request[c] # NoRequest
               /\ requests_log[i].code = Code(request[c])
               /\ requests_log[i].part = "tail" => \E j \in PiecesOf(c) : j < i
               /\ Complete(i) => Ended(c)
               /\ Ended(c) /\ ~MayDieLogged(c) => \E j \in PiecesOf(c) : Complete(j)
    <3>1. Begun(c) /\ (Complete(i) => Finished(c))
      BY <2>1, <2>3 DEF Begun, Finished, Complete
    <3>2. /\ request[c] # NoRequest
          /\ Complete(i) => Ended(c)
          /\ Ended(c) /\ ~MayDieLogged(c) => \E j \in PiecesOf(c) : Complete(j)
      BY <3>1, PiecesFacts DEF AnswersInv, ConnInv, PieceInv
    <3> QED
      BY <2>1, <2>3, <3>2 DEF LogInv, PiecesOf
  <2>4. \A i \in DOMAIN requests_log : requests_log[i].ip \in Conns
    BY <2>2 DEF Lines
  <2> QED
    BY <2>1, <2>3, <2>4 DEF LogInv, LogFaithful
<1> QED
  BY <1>1, AnswersInvariance, PTL

\* Once its headers are out, an answer is logged to its end and completed before
\* its child ends, whoever else connects, ends or fails (main.c:177-267).
THEOREM WholeAnswerHolds == Spec => []WholeAnswer
<1>1. AnswersInv => WholeAnswer
  BY PiecesFacts DEF AnswersInv, ConnInv, AnswerInv, WholeAnswer, Ended, Over
<1> QED
  BY <1>1, AnswersInvariance, PTL
===============================================================================
