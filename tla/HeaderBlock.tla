------------------------------ MODULE HeaderBlock -----------------------------
(***************************************************************************)
(* How a child reads the headers of a request (webserver/main.c:171-176)   *)
(* and finds them in the text (webserver/http/http_parse.c:75-105).        *)
(*                                                                         *)
(* fgets gives pieces of at most LineMax bytes, which are appended to a    *)
(* block of at most BlockMax bytes until a piece is an empty line; then    *)
(* strtok takes the block apart into lines, and the headers go to the      *)
(* array of HttpHeaders.                                                   *)
(*                                                                         *)
(* The text of a line is left out.  A line has a kind:                     *)
(*   "header"  a name, a colon and a value that begins after start bytes   *)
(*   "plain"   not blank, but no colon, or nothing before or after it      *)
(*   "blank"   only blanks                                                 *)
(*   "empty"   nothing                                                     *)
(* a name (names that differ in case only are one), len bytes of text and  *)
(* eol bytes of line end: 2 for CR LF, 1 for LF, 0 at the end of the input.*)
(***************************************************************************)
EXTENDS Naturals, Sequences

CONSTANTS
  Lines,          \* the lines a client may send
  MaxLines,       \* bound on the number of lines
  LineMax,        \* bytes per fgets: 1023 in the code
  BlockMax,       \* bytes of the block: 8191 in the code
  Garbage,
  InitCapacity

ASSUME LineMaxAssumption == LineMax \in Nat \ {0, 1}
ASSUME BlockMaxAssumption == BlockMax \in Nat
ASSUME MaxLinesAssumption == MaxLines \in Nat
ASSUME InitCapacityAssumption == InitCapacity \in Nat \ {0}
ASSUME LinesAssumption ==
  /\ Lines \subseteq [kind : {"header", "plain", "blank", "empty"},
                      name : STRING, start : Nat, len : Nat, eol : 0 .. 2]
  /\ \A l \in Lines : l.kind = "empty" <=> l.len = 0
  /\ \A l \in Lines : l.kind = "header" => l.start < l.len

VARIABLES
  input,          \* the lines the client sends before it stops
  pos,            \* the line fgets is at
  offset,         \* and how many of its bytes have been read
  block,          \* the lines in headers_block: their number and bytes of text
  used,           \* strlen(headers_block)
  pc,
  token,          \* the line of the block strtok is at
  headers, count, capacity

readVars == <<input, pos, offset, block, used>>
arrayVars == <<headers, count, capacity>>
vars == <<readVars, pc, token, arrayVars>>

\* A line of the input and how much of its text is there.
Parts == [line : 1 .. MaxLines, kept : UNION {0 .. l.len : l \in Lines}]

Headers == [name : {l.name : l \in Lines}, value : Parts]

Array == INSTANCE HttpHeaders

TypeOK ==
  /\ input \in Seq(Lines)
  /\ Len(input) <= MaxLines
  /\ pos \in 1 .. Len(input) + 1
  /\ offset \in Nat
  /\ block \in Seq(Parts)
  /\ used \in 0 .. BlockMax
  /\ pc \in {"reading", "parsing", "parsed", "freed"}
  /\ token \in 1 .. Len(block) + 1
  /\ Array!TypeOK

\* Only the last line may have no end.
Init ==
  /\ \E n \in 0 .. MaxLines : input \in [1 .. n -> Lines]
  /\ \A i \in DOMAIN input : input[i].eol = 0 => i = Len(input) /\ input[i].len > 0
  /\ pos = 1
  /\ offset = 0
  /\ block = <<>>
  /\ used = 0
  /\ pc = "reading"
  /\ token = 1
  /\ Array!Init

-------------------------------------------------------------------------------
(* Reading.                                                                *)

Minimum(a, b) == IF a < b THEN a ELSE b

\* The end of the headers: a piece that is a line end, or the end of the input.
\* init_headers comes first in parsing.
EndReading ==
  /\ pc = "reading"
  /\ pos <= Len(input) => offset >= input[pos].len
  /\ pc' = "parsing"
  /\ Array!InitHeaders
  /\ UNCHANGED <<readVars, token>>

\* The block after strncat of n bytes, of which the line at pos has text bytes
\* that are not its end.
Appended(n) ==
  LET text == Minimum(offset + n, input[pos].len)
      part == [line |-> pos, kept |-> text]
  IN  IF n = 0 THEN block
      ELSE IF offset = 0 THEN Append(block, part)
      ELSE [block EXCEPT ![Len(block)] = part]

\* Variant for mutation testing: a piece for which there is no room is left out.
ReadPieceIfFits ==
  /\ pc = "reading"
  /\ pos <= Len(input)
  /\ offset < input[pos].len
  /\ LET left == input[pos].len + input[pos].eol - offset
         piece == Minimum(LineMax, left)
         fits == IF piece <= BlockMax - used THEN piece ELSE 0
     IN  /\ block' = Appended(fits)
         /\ used' = used + fits
         /\ IF piece = left THEN pos' = pos + 1 /\ offset' = 0
                            ELSE pos' = pos /\ offset' = offset + piece
  /\ UNCHANGED <<input, pc, token, arrayVars>>

\* One fgets that does not end the headers.
ReadPiece ==
  /\ pc = "reading"
  /\ pos <= Len(input)
  /\ offset < input[pos].len
  /\ LET left == input[pos].len + input[pos].eol - offset
         piece == Minimum(LineMax, left)
         fits == Minimum(piece, BlockMax - used)
     IN  /\ block' = Appended(fits)
         /\ used' = used + fits
         /\ IF piece = left THEN pos' = pos + 1 /\ offset' = 0
                            ELSE pos' = pos /\ offset' = offset + piece
  /\ UNCHANGED <<input, pc, token, arrayVars>>

-------------------------------------------------------------------------------
(* Parsing.                                                                *)

\* Whether enough of a line is there to have a name, a colon and a value.
IsHeader(part) ==
  /\ input[part.line].kind = "header"
  /\ part.kept > input[part.line].start

HeaderOf(part) == [name |-> input[part.line].name, value |-> part]

\* One turn of the loop.
ParseLine ==
  /\ pc = "parsing"
  /\ token <= Len(block)
  /\ input[block[token].line].kind # "blank"
  /\ token' = token + 1
  /\ IF IsHeader(block[token]) THEN Array!AddHeader(HeaderOf(block[token]))
                               ELSE UNCHANGED arrayVars
  /\ UNCHANGED <<readVars, pc>>

\* Variant for mutation testing: a line without a colon ends the loop too.
EndParsingAtPlain ==
  /\ pc = "parsing"
  /\ token <= Len(block) => input[block[token].line].kind \in {"blank", "plain"}
  /\ pc' = "parsed"
  /\ UNCHANGED <<readVars, token, arrayVars>>

\* The end of the block, or the break at a line of blanks.
EndParsing ==
  /\ pc = "parsing"
  /\ token <= Len(block) => input[block[token].line].kind = "blank"
  /\ pc' = "parsed"
  /\ UNCHANGED <<readVars, token, arrayVars>>

\* free_headers, at the end of send_response.
Free ==
  /\ pc = "parsed"
  /\ pc' = "freed"
  /\ Array!FreeHeaders
  /\ UNCHANGED <<readVars, token>>

Next == EndReading \/ ReadPiece \/ ParseLine \/ EndParsing \/ Free

Spec == Init /\ [][Next]_vars

-------------------------------------------------------------------------------
(* Properties.                                                             *)

\* The header lines of the request: those before its first empty line.
Sent(l) ==
  /\ input[l].kind = "header"
  /\ \A k \in 1 .. l : input[k].kind # "empty"

Whole(l) == [line |-> l, kept |-> input[l].len]

Found(i) == headers[i].value.line

\* However lines are split and the block is cut, the headers found are the
\* first ones of the request, in its order, with nothing left out before the
\* last of them, and only the last one can be cut (main.c:171-176,
\* http_parse.c:78-105).
InOrder ==
  /\ \A i \in 0 .. count - 1 :
       /\ Sent(Found(i))
       /\ \A j \in 0 .. i - 1 : Found(j) < Found(i)
       /\ i < count - 1 => headers[i].value = Whole(Found(i))
  /\ count > 0 =>
       \A l \in 1 .. Found(count - 1) :
         Sent(l) => \E i \in 0 .. count - 1 : Found(i) = l

\* A line of which the end is a piece of its own, so that it is taken for the
\* empty line.
EndsOnBoundary(l) ==
  /\ input[l].len > 0
  /\ \/ input[l].eol > 0 /\ input[l].len % LineMax = 0
     \/ input[l].eol = 2 /\ input[l].len % LineMax = LineMax - 1

AllFound ==
  \A l \in DOMAIN input :
    Sent(l) => \E i \in 0 .. count - 1 : headers[i].value = Whole(l)

\* A header is lost or cut only if the block is full, or if there is a line of
\* blanks or one that ends on a boundary of fgets.
LossHasCause ==
  pc = "parsed" =>
    \/ AllFound
    \/ used = BlockMax
    \/ \E l \in DOMAIN input : input[l].kind = "blank" \/ EndsOnBoundary(l)

\* The value used for a name, Host or User-Agent, is that of the first line of
\* the request with this name, whatever comes later (http_headers.c:41-48).
FirstOfName ==
  pc = "parsed" =>
    \A l \in DOMAIN input :
      Sent(l) => \A v \in Array!GetHeader(input[l].name) :
                   v.line <= l /\ input[v.line].name = input[l].name

\* The array is a list that grows at its end until it is freed, through all
\* its reallocations (http_headers.c:8-61).
ArrayIsList == Array!List!Spec
===============================================================================
