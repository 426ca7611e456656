-------------------------- MODULE HeaderBlock_proofs --------------------------
(* Theorems about HeaderBlock, for any lines, limits and first capacity.   *)
EXTENDS HeaderBlock, TLAPS

USE LineMaxAssumption, BlockMaxAssumption, MaxLinesAssumption

LEMMA MinimumOf ==
  ASSUME NEW a \in Nat, NEW b \in Nat
  PROVE  Minimum(a, b) \in {a, b} /\ Minimum(a, b) <= a /\ Minimum(a, b) <= b
BY DEF Minimum

(***************************************************************************)
(* Reading.                                                                *)
(***************************************************************************)

ReadOK ==
  /\ input \in Seq(Lines)
  /\ Len(input) <= MaxLines
  /\ pos \in 1 .. Len(input) + 1
  /\ offset \in Nat
  /\ block \in Seq(Parts)
  /\ used \in 0 .. BlockMax
  /\ pc \in {"reading", "parsing", "parsed", "freed"}
  /\ token \in 1 .. Len(block) + 1

\* The block has parts of lines of the input, and a part of the line that is
\* being read unless it was full before.
BlockStarted ==
  /\ pc = "reading" /\ offset > 0 /\ used < BlockMax => block # <<>>
  /\ \A t \in 1 .. Len(block) : block[t].line \in 1 .. Len(input)

LEMMA LineFacts ==
  ASSUME NEW l \in Lines
  PROVE  /\ l.len \in Nat /\ l.eol \in Nat /\ l.start \in Nat
         /\ \A k \in 0 .. l.len : k \in UNION {0 .. m.len : m \in Lines}
BY LinesAssumption

LEMMA InitReadOK == Init => ReadOK /\ BlockStarted
BY DEF Init, ReadOK, BlockStarted

LEMMA StepReadOK == ReadOK /\ BlockStarted /\ [Next]_vars => ReadOK' /\ BlockStarted'
<1> SUFFICES ASSUME ReadOK, BlockStarted, [Next]_vars
             PROVE  ReadOK' /\ BlockStarted'
  OBVIOUS
<1>1. CASE EndReading \/ EndParsing \/ Free
  BY <1>1 DEF EndReading, EndParsing, Free, readVars, ReadOK, BlockStarted
<1>2. CASE ParseLine
  BY <1>2 DEF ParseLine, readVars, ReadOK, BlockStarted
<1>3. CASE ReadPiece
  <2> DEFINE l == input[pos]
             left == l.len + l.eol - offset
             piece == Minimum(LineMax, left)
             fits == Minimum(piece, BlockMax - used)
             text == Minimum(offset + fits, l.len)
             part == [line |-> pos, kept |-> text]
  <2>1. /\ l \in Lines /\ pos \in 1 .. Len(input) /\ pos \in 1 .. MaxLines
        /\ offset < l.len /\ pc = "reading"
    BY <1>3 DEF ReadPiece, ReadOK
  <2>2. l.len \in Nat /\ l.eol \in Nat
    BY <2>1, LineFacts
  <2>3. /\ block' = Appended(fits) /\ used' = used + fits
        /\ IF piece = left THEN pos' = pos + 1 /\ offset' = 0
                           ELSE pos' = pos /\ offset' = offset + piece
        /\ UNCHANGED <<input, pc, token>>
    BY <1>3 DEF ReadPiece
  <2>4. Appended(fits) = IF fits = 0 THEN block
                         ELSE IF offset = 0 THEN Append(block, part)
                         ELSE [block EXCEPT ![Len(block)] = part]
    BY DEF Appended
  <2> HIDE DEF l
  <2>5. left \in Nat \ {0} /\ piece \in Nat \ {0} /\ piece <= left
    <3>1. offset \in Nat
      BY DEF ReadOK
    <3>2. left \in Nat \ {0}
      BY <2>1, <2>2, <3>1
    <3> QED
      BY <3>2, MinimumOf
  <2> HIDE DEF left
  <2>6. fits \in 0 .. piece /\ used + fits \in 0 .. BlockMax
        /\ (used < BlockMax => fits > 0)
    <3>1. used \in 0 .. BlockMax
      BY DEF ReadOK
    <3> QED
      BY <2>5, <3>1 DEF Minimum
  <2> HIDE DEF piece
  <2> HIDE DEF fits
  <2>7. text \in 0 .. l.len
    <3>1. offset + fits \in Nat
      BY <2>5, <2>6 DEF ReadOK
    <3>2. QED
      BY <2>2, <3>1 DEF Minimum
  <2> HIDE DEF text
  <2>8. part \in Parts /\ part.line \in 1 .. Len(input)
    BY <2>1, <2>7, LineFacts DEF Parts
  <2> HIDE DEF part
  <2>9. /\ pos' \in 1 .. Len(input) + 1 /\ offset' \in Nat
        /\ used' \in 0 .. BlockMax /\ UNCHANGED <<input, pc, token>>
    BY <2>1, <2>3, <2>5, <2>6 DEF ReadOK
  <2>10. CASE fits = 0
    <3>1. block' = block /\ used = BlockMax /\ used' = used
      BY <2>3, <2>4, <2>6, <2>10 DEF ReadOK
    <3>2. QED
      BY <2>9, <3>1 DEF ReadOK, BlockStarted
  <2>11. CASE fits # 0 /\ offset = 0
    <3>1. block' = Append(block, part)
      BY <2>3, <2>4, <2>11
    <3>2. block' \in Seq(Parts) /\ Len(block') = Len(block) + 1
      BY <2>8, <3>1 DEF ReadOK
    <3>3. \A t \in 1 .. Len(block') : block'[t].line \in 1 .. Len(input)
      BY <2>8, <3>1 DEF ReadOK, BlockStarted
    <3>4. block' # <<>>
      BY <3>2 DEF ReadOK
    <3>5. QED
      BY <2>9, <3>2, <3>3, <3>4 DEF ReadOK, BlockStarted
  <2>12. CASE fits # 0 /\ offset # 0
    <3>1. block # <<>> /\ used < BlockMax
      BY <2>1, <2>6, <2>12 DEF ReadOK, BlockStarted
    <3>2. block' = [block EXCEPT ![Len(block)] = part]
      BY <2>3, <2>4, <2>12
    <3>3. block' \in Seq(Parts) /\ Len(block') = Len(block)
      BY <2>8, <3>1, <3>2 DEF ReadOK
    <3>4. ASSUME NEW t \in 1 .. Len(block') PROVE block'[t].line \in 1 .. Len(input)
      <4>1. t \in 1 .. Len(block) /\ t \in DOMAIN block
        BY <3>3 DEF ReadOK
      <4>2. block'[t] = IF t = Len(block) THEN part ELSE block[t]
        BY <3>2, <4>1
      <4>3. QED
        BY <2>8, <4>1, <4>2 DEF BlockStarted
    <3>5. block' # <<>>
      BY <3>1, <3>3 DEF ReadOK
    <3>6. QED
      BY <2>9, <3>3, <3>4, <3>5 DEF ReadOK, BlockStarted
  <2>13. QED
    BY <2>10, <2>11, <2>12
<1>4. CASE UNCHANGED vars
  BY <1>4 DEF vars, readVars, ReadOK, BlockStarted
<1>5. QED
  BY <1>1, <1>2, <1>3, <1>4 DEF Next

(***************************************************************************)
(* The array.                                                              *)
(***************************************************************************)

\* Nothing is allocated before and after parsing.
ArrayInv ==
  /\ capacity \in Nat
  /\ count \in 0 .. capacity
  /\ headers \in [0 .. capacity - 1 -> Headers \cup {Garbage}]
  /\ \A i \in 0 .. count - 1 : headers[i] \in Headers
  /\ pc \in {"parsing", "parsed"} => capacity > 0
  /\ pc = "reading" => count = 0

\* add_header, wherever the array is allocated.
LEMMA AddHeaderStores ==
  ASSUME ArrayInv, capacity > 0, NEW h \in Headers, Array!AddHeader(h)
  PROVE  /\ capacity' \in Nat /\ capacity' > 0 /\ count' = count + 1
         /\ count' \in 0 .. capacity'
         /\ headers' \in [0 .. capacity' - 1 -> Headers \cup {Garbage}]
         /\ headers'[count] = h
         /\ \A i \in 0 .. count - 1 : headers'[i] = headers[i]
<1> DEFINE c == IF count = capacity THEN 2 * capacity ELSE capacity
           grown == [i \in 0 .. c - 1 |-> IF i < capacity THEN headers[i] ELSE Garbage]
<1>1. /\ capacity' = c /\ count' = count + 1
      /\ headers' = [Array!Grown(capacity') EXCEPT ![count] = h]
  BY DEF Array!AddHeader
<1>2. headers' = [grown EXCEPT ![count] = h]
  BY <1>1 DEF Array!Grown
<1>3. c \in Nat /\ c > count /\ c >= capacity /\ count \in Nat /\ capacity \in Nat
  BY DEF ArrayInv
<1> HIDE DEF c
<1>4. grown \in [0 .. c - 1 -> Headers \cup {Garbage}]
  BY <1>3 DEF ArrayInv
<1>5. \A i \in 0 .. count - 1 : grown[i] = headers[i]
  BY <1>3 DEF ArrayInv
<1> HIDE DEF grown
<1>6. count \in 0 .. c - 1 /\ \A i \in 0 .. count - 1 : i # count /\ i \in 0 .. c - 1
  BY <1>3
<1>7. headers' \in [0 .. c - 1 -> Headers \cup {Garbage}] /\ headers'[count] = h
  BY <1>2, <1>4, <1>6
<1>8. \A i \in 0 .. count - 1 : headers'[i] = headers[i]
  BY <1>2, <1>4, <1>5, <1>6
<1>9. QED
  BY <1>1, <1>3, <1>7, <1>8

LEMMA HeaderOfTyped ==
  ASSUME ReadOK, BlockStarted, NEW t \in 1 .. Len(block)
  PROVE  HeaderOf(block[t]) \in Headers
<1>1. block[t] \in Parts /\ input[block[t].line] \in Lines
  BY DEF ReadOK, BlockStarted
<1>2. QED
  BY <1>1 DEF HeaderOf, Headers

LEMMA StepArrayInv ==
  ReadOK /\ BlockStarted /\ ArrayInv /\ [Next]_vars => ArrayInv'
<1> SUFFICES ASSUME ReadOK, BlockStarted, ArrayInv, [Next]_vars PROVE ArrayInv'
  OBVIOUS
<1> USE InitCapacityAssumption
<1>1. CASE EndReading
  BY <1>1 DEF EndReading, Array!InitHeaders, Array!Cells, ArrayInv
<1>2. CASE ReadPiece \/ EndParsing
  BY <1>2 DEF ReadPiece, EndParsing, arrayVars, ArrayInv
<1>3. CASE Free
  BY <1>3 DEF Free, Array!FreeHeaders, Array!Cells, ArrayInv
<1>4. CASE ParseLine
  <2>1. CASE IsHeader(block[token])
    <3> DEFINE h == HeaderOf(block[token])
    <3>1. h \in Headers /\ Array!AddHeader(h) /\ capacity > 0 /\ pc' = pc /\ pc = "parsing"
      BY <1>4, <2>1, HeaderOfTyped DEF ParseLine, ReadOK, ArrayInv
    <3> HIDE DEF h
    <3>2. /\ capacity' \in Nat /\ capacity' > 0 /\ count' = count + 1
          /\ count' \in 0 .. capacity'
          /\ headers' \in [0 .. capacity' - 1 -> Headers \cup {Garbage}]
          /\ headers'[count] = h
          /\ \A i \in 0 .. count - 1 : headers'[i] = headers[i]
      BY <3>1, AddHeaderStores
    <3>3. \A i \in 0 .. count' - 1 : i = count \/ i \in 0 .. count - 1
      BY <3>2 DEF ArrayInv
    <3>4. \A i \in 0 .. count' - 1 : headers'[i] \in Headers
      BY <3>1, <3>2, <3>3 DEF ArrayInv
    <3>5. QED
      BY <3>1, <3>2, <3>4 DEF ArrayInv
  <2>2. CASE ~IsHeader(block[token])
    BY <1>4, <2>2 DEF ParseLine, arrayVars, ArrayInv
  <2>3. QED
    BY <2>1, <2>2
<1>5. CASE UNCHANGED vars
  BY <1>5 DEF vars, arrayVars, ArrayInv
<1>6. QED
  BY <1>1, <1>2, <1>3, <1>4, <1>5 DEF Next

LEMMA InitArrayInv == Init => ArrayInv
BY DEF Init, Array!Init, Array!Nothing, Array!Cells, ArrayInv

\* Every index stays in the bounds of what it is an index of: the text in the
\* block, the cells in the array, through all reallocations.
THEOREM TypeCorrect == Spec => []TypeOK
<1>1. ReadOK /\ ArrayInv => TypeOK
  BY DEF ReadOK, ArrayInv, TypeOK, Array!TypeOK
<1>2. QED
  BY <1>1, InitReadOK, StepReadOK, InitArrayInv, StepArrayInv, PTL DEF Spec

(***************************************************************************)
(* The array implements the list.                                          *)
(***************************************************************************)

LEMMA StepIsList ==
  ReadOK /\ BlockStarted /\ ArrayInv /\ [Next]_vars
    => [Array!List!Next]_(Array!Listed)
<1> SUFFICES ASSUME ReadOK, BlockStarted, ArrayInv, [Next]_vars
             PROVE  [Array!List!Next]_(Array!Listed)
  OBVIOUS
<1>1. CASE EndReading \/ Free
  BY <1>1 DEF EndReading, Free, Array!InitHeaders, Array!FreeHeaders,
     Array!List!Next, Array!List!Clear, Array!Listed, ArrayInv
<1>2. CASE ReadPiece \/ EndParsing
  BY <1>2 DEF ReadPiece, EndParsing, arrayVars, Array!Listed
<1>3. CASE ParseLine
  <2>1. CASE IsHeader(block[token])
    <3> DEFINE h == HeaderOf(block[token])
    <3>1. h \in Headers /\ Array!AddHeader(h) /\ capacity > 0
      BY <1>3, <2>1, HeaderOfTyped DEF ParseLine, ReadOK, ArrayInv
    <3> HIDE DEF h
    <3>2. /\ count' = count + 1 /\ count \in Nat
          /\ headers'[count] = h
          /\ \A i \in 0 .. count - 1 : headers'[i] = headers[i]
      BY <3>1, AddHeaderStores DEF ArrayInv
    <3>3. [i \in 1 .. count |-> headers[i - 1]] \in Seq(Headers)
      BY <3>2 DEF ArrayInv
    <3>4. [i \in 1 .. count' |-> headers'[i - 1]]
            = Append([i \in 1 .. count |-> headers[i - 1]], h)
      BY <3>1, <3>2, <3>3
    <3>5. Array!List!Add(h)
      BY <3>4 DEF Array!List!Add, Array!Listed
    <3>6. \E x \in Headers : Array!List!Add(x)
      BY <3>1, <3>5, Zenon
    <3>7. QED
      BY <3>6, Zenon DEF Array!List!Next
  <2>2. CASE ~IsHeader(block[token])
    BY <1>3, <2>2 DEF ParseLine, arrayVars, Array!Listed
  <2>3. QED
    BY <2>1, <2>2
<1>4. CASE UNCHANGED vars
  BY <1>4 DEF vars, arrayVars, Array!Listed
<1>5. QED
  BY <1>1, <1>2, <1>3, <1>4 DEF Next

\* For any lines and any first capacity, the array is a list of headers that
\* grows at its end until it is freed.
THEOREM Refinement == Spec => ArrayIsList
<1>1. Init => Array!List!Init
  BY DEF Init, Array!Init, Array!Nothing, Array!List!Init, Array!Listed
<1>2. QED
  BY <1>1, InitReadOK, StepReadOK, InitArrayInv, StepArrayInv, StepIsList, PTL
     DEF Spec, ArrayIsList, Array!List!Spec

(***************************************************************************)
(* Which parts of the input the block has.                                 *)
(***************************************************************************)

\* The number of lines of which something has been read.
Begun == IF offset = 0 THEN pos - 1 ELSE pos

\* The block has the lines of the input in their order, whole except the last;
\* while it is not full it has all that has been read.  None of them is empty.
BlockInv ==
  /\ \A t \in 1 .. Len(block) : block[t].line = t
  /\ \A t \in 1 .. Len(block) - 1 : block[t].kept = input[t].len
  /\ \A l \in 1 .. Begun : l <= Len(input) /\ input[l].len > 0
  /\ Len(block) <= Begun
  /\ used < BlockMax =>
       /\ Len(block) = Begun
       /\ \A t \in 1 .. pos - 1 : block[t].kept = input[t].len
       /\ offset > 0 => block[pos].kept = Minimum(offset, input[pos].len)

\* Pieces that do not end their line are as long as pieces can be.
PieceInv ==
  /\ \E q \in Nat : offset = q * LineMax
  /\ pos <= Len(input) /\ offset > 0 => offset < input[pos].len + input[pos].eol
  /\ pc # "reading" /\ pos <= Len(input) => offset >= input[pos].len

\* The headers are those among the lines strtok has passed, in their order.
FoundInv ==
  /\ pc = "reading" => token = 1
  /\ pc = "freed" => count = 0
  /\ \A i \in 0 .. count - 1 :
       \E t \in 1 .. token - 1 : IsHeader(block[t]) /\ headers[i] = HeaderOf(block[t])
  /\ \A t \in 1 .. token - 1 :
       pc # "freed" /\ IsHeader(block[t]) =>
         \E i \in 0 .. count - 1 : headers[i] = HeaderOf(block[t])
  /\ \A i, j \in 0 .. count - 1 : j < i => Found(j) < Found(i)
  /\ pc = "parsed" /\ token <= Len(block) =>
       input[block[token].line].kind = "blank"

LEMMA ReadPieceDoes ==
  ASSUME ReadOK, ReadPiece
  PROVE  \E piece \in Nat \ {0}, fits \in Nat, kept \in Nat :
           /\ pc = "reading" /\ pos <= Len(input) /\ offset < input[pos].len
           /\ piece <= input[pos].len + input[pos].eol - offset
           /\ IF piece = input[pos].len + input[pos].eol - offset
                THEN pos' = pos + 1 /\ offset' = 0
                ELSE pos' = pos /\ offset' = offset + piece /\ piece = LineMax
           /\ used' = used + fits /\ used' <= BlockMax
           /\ used < BlockMax => fits > 0
           /\ used' < BlockMax => fits = piece
           /\ kept = Minimum(offset + fits, input[pos].len)
           /\ fits = 0 => block' = block
           /\ fits # 0 /\ offset = 0 => block' = Append(block, [line |-> pos, kept |-> kept])
           /\ fits # 0 /\ offset # 0 =>
                block' = [block EXCEPT ![Len(block)] = [line |-> pos, kept |-> kept]]
           /\ UNCHANGED <<input, pc, token, arrayVars>>
<1> DEFINE left == input[pos].len + input[pos].eol - offset
           piece == Minimum(LineMax, left)
           fits == Minimum(piece, BlockMax - used)
           kept == Minimum(offset + fits, input[pos].len)
<1>1. /\ input[pos] \in Lines /\ offset < input[pos].len /\ pc = "reading"
      /\ pos <= Len(input) /\ offset \in Nat /\ used \in 0 .. BlockMax
  BY DEF ReadPiece, ReadOK
<1>2. input[pos].len \in Nat /\ input[pos].eol \in Nat
  BY <1>1, LineFacts
<1>3. /\ block' = Appended(fits) /\ used' = used + fits
      /\ IF piece = left THEN pos' = pos + 1 /\ offset' = 0
                         ELSE pos' = pos /\ offset' = offset + piece
      /\ UNCHANGED <<input, pc, token, arrayVars>>
  BY DEF ReadPiece
<1>4. Appended(fits) = IF fits = 0 THEN block
                       ELSE IF offset = 0 THEN Append(block, [line |-> pos, kept |-> kept])
                       ELSE [block EXCEPT ![Len(block)] = [line |-> pos, kept |-> kept]]
  BY DEF Appended
<1>5. left \in Nat \ {0}
  <2> DEFINE l == input[pos]
  <2>1. l.len \in Nat /\ l.eol \in Nat /\ offset < l.len /\ offset \in Nat
    BY <1>1, <1>2
  <2> HIDE DEF l
  <2>2. l.len + l.eol - offset \in Nat \ {0}
    BY <2>1
  <2> QED
    BY <2>2 DEF l
<1>6. piece \in Nat \ {0} /\ piece <= left /\ (piece # left => piece = LineMax)
  BY <1>5 DEF Minimum
<1>7. /\ fits \in Nat /\ (used < BlockMax => fits > 0)
      /\ used + fits <= BlockMax /\ (used + fits < BlockMax => fits = piece)
  <2> HIDE DEF piece
  <2> QED
    BY <1>1, <1>6 DEF Minimum
<1>8. kept \in Nat
  <2>1. offset + fits \in Nat
    <3> HIDE DEF fits
    <3> QED
      BY <1>1, <1>7
  <2> QED
    BY <1>2, <2>1, MinimumOf
<1> piece \in Nat \ {0} /\ fits \in Nat /\ kept \in Nat
  BY <1>6, <1>7, <1>8
<1> WITNESS piece \in Nat \ {0}, fits \in Nat, kept \in Nat
<1> HIDE DEF piece, fits
<1> QED
  BY <1>1, <1>3, <1>4, <1>6, <1>7

LEMMA StepBlockInv ==
  ReadOK /\ BlockInv /\ [Next]_vars => BlockInv'
<1> SUFFICES ASSUME ReadOK, BlockInv, [Next]_vars PROVE BlockInv'
  OBVIOUS
<1>1. CASE EndReading \/ EndParsing \/ Free \/ ParseLine \/ UNCHANGED vars
  BY <1>1 DEF EndReading, EndParsing, Free, ParseLine, vars, readVars, BlockInv, Begun
<1>2. CASE ReadPiece
  <2>1. PICK piece \in Nat \ {0}, fits \in Nat, kept \in Nat :
           /\ pc = "reading" /\ pos <= Len(input) /\ offset < input[pos].len
           /\ piece <= input[pos].len + input[pos].eol - offset
           /\ IF piece = input[pos].len + input[pos].eol - offset
                THEN pos' = pos + 1 /\ offset' = 0
                ELSE pos' = pos /\ offset' = offset + piece /\ piece = LineMax
           /\ used' = used + fits /\ used' <= BlockMax
           /\ used < BlockMax => fits > 0
           /\ used' < BlockMax => fits = piece
           /\ kept = Minimum(offset + fits, input[pos].len)
           /\ fits = 0 => block' = block
           /\ fits # 0 /\ offset = 0 => block' = Append(block, [line |-> pos, kept |-> kept])
           /\ fits # 0 /\ offset # 0 =>
                block' = [block EXCEPT ![Len(block)] = [line |-> pos, kept |-> kept]]
           /\ UNCHANGED <<input, pc, token, arrayVars>>
    BY <1>2, ReadPieceDoes
  <2>2. /\ pos \in Nat \ {0} /\ offset \in Nat /\ used \in Nat /\ used <= BlockMax
        /\ block \in Seq(Parts) /\ Len(block) \in Nat /\ Len(input) \in Nat
        /\ \A l \in 1 .. Len(input) : input[l].len \in Nat /\ input[l].eol \in Nat
    BY LineFacts DEF ReadOK
  <2>3. input[pos].len \in Nat /\ input[pos].eol \in Nat /\ input[pos].len > 0
    BY <2>1, <2>2
  <2>4. /\ pos' \in Nat /\ offset' \in Nat
        /\ Begun' = pos /\ input' = input
        /\ Begun <= pos
    BY <2>1, <2>2, <2>3 DEF Begun
  <2>5. \A l \in 1 .. Begun' : l <= Len(input') /\ input'[l].len > 0
    <3>1. \A l \in 1 .. pos : l = pos \/ l \in 1 .. Begun
      BY <2>2 DEF Begun
    <3> QED
      BY <2>1, <2>3, <2>4, <3>1 DEF BlockInv
  <2>6. CASE fits = 0
    <3>1. block' = block /\ used' = used /\ ~(used < BlockMax)
      BY <2>1, <2>2, <2>6
    <3>2. Len(block) <= Begun'
      BY <2>2, <2>4 DEF BlockInv, Begun
    <3> QED
      BY <2>4, <2>5, <3>1, <3>2 DEF BlockInv
  <2>7. CASE fits # 0
    <3>1. used < BlockMax
      BY <2>1, <2>2, <2>7
    <3>2. /\ Len(block) = Begun
          /\ \A t \in 1 .. pos - 1 : block[t].kept = input[t].len
      BY <3>1 DEF BlockInv
    <3>3. /\ Len(block') = pos /\ block'[pos] = [line |-> pos, kept |-> kept]
          /\ \A t \in 1 .. pos - 1 : block'[t] = block[t]
      <4>1. CASE offset = 0
        <5>1. block' = Append(block, [line |-> pos, kept |-> kept]) /\ Len(block) = pos - 1
          BY <2>1, <2>7, <3>2, <4>1 DEF Begun
        <5> QED
          BY <2>2, <5>1
      <4>2. CASE offset # 0
        <5>1. /\ block' = [block EXCEPT ![pos] = [line |-> pos, kept |-> kept]]
              /\ Len(block) = pos
          BY <2>1, <2>7, <3>2, <4>2 DEF Begun
        <5> QED
          BY <2>2, <5>1
      <4> QED
        BY <4>1, <4>2
    <3>4. \A t \in 1 .. Len(block') : block'[t].line = t
      <4>1. \A t \in 1 .. pos - 1 : t \in 1 .. Len(block)
        BY <2>2, <3>2 DEF Begun
      <4> QED
        BY <2>2, <3>3, <4>1 DEF BlockInv
    <3>5. \A t \in 1 .. pos - 1 : block'[t].kept = input'[t].len
      BY <2>4, <3>2, <3>3
    <3>6. ASSUME used' < BlockMax
          PROVE  /\ \A t \in 1 .. pos' - 1 : block'[t].kept = input'[t].len
                 /\ offset' > 0 => block'[pos'].kept = Minimum(offset', input'[pos'].len)
      <4>1. kept = Minimum(offset + piece, input[pos].len) /\ block'[pos].kept = kept
        BY <2>1, <3>3, <3>6
      <4>2. CASE piece = input[pos].len + input[pos].eol - offset
        <5>1. kept = input[pos].len
          BY <2>2, <2>3, <4>1, <4>2 DEF Minimum
        <5>2. pos' = pos + 1 /\ offset' = 0
          BY <2>1, <4>2
        <5>3. \A t \in 1 .. pos : t = pos \/ t \in 1 .. pos - 1
          BY <2>2
        <5> QED
          BY <2>2, <2>4, <3>5, <4>1, <5>1, <5>2, <5>3
      <4>3. CASE piece # input[pos].len + input[pos].eol - offset
        BY <2>1, <2>4, <3>5, <4>1, <4>3
      <4> QED
        BY <4>2, <4>3
    <3>7. Len(block') <= Begun' /\ Len(block') = Begun'
      BY <2>2, <2>4, <3>3
    <3>8. \A t \in 1 .. Len(block') - 1 : block'[t].kept = input'[t].len
      BY <3>3, <3>5
    <3> QED
      BY <2>5, <3>4, <3>6, <3>7, <3>8 DEF BlockInv
  <2> QED
    BY <2>6, <2>7
<1> QED
  BY <1>1, <1>2 DEF Next

LEMMA StepPieceInv ==
  ReadOK /\ PieceInv /\ [Next]_vars => PieceInv'
<1> SUFFICES ASSUME ReadOK, PieceInv, [Next]_vars PROVE PieceInv'
  OBVIOUS
<1>1. CASE EndReading \/ EndParsing \/ Free \/ ParseLine \/ UNCHANGED vars
  BY <1>1 DEF EndReading, EndParsing, Free, ParseLine, vars, readVars, PieceInv
<1>2. CASE ReadPiece
  <2>1. PICK piece \in Nat \ {0} :
           /\ pc = "reading" /\ pos <= Len(input) /\ offset < input[pos].len
           /\ piece <= input[pos].len + input[pos].eol - offset
           /\ IF piece = input[pos].len + input[pos].eol - offset
                THEN pos' = pos + 1 /\ offset' = 0
                ELSE pos' = pos /\ offset' = offset + piece /\ piece = LineMax
           /\ UNCHANGED <<input, pc>>
    BY <1>2, ReadPieceDoes
  <2>2. input[pos].len \in Nat /\ input[pos].eol \in Nat /\ offset \in Nat
    BY <2>1, LineFacts DEF ReadOK
  <2>3. CASE piece = input[pos].len + input[pos].eol - offset
    <3>1. offset' = 0 * LineMax /\ pc' = "reading" /\ offset' = 0
      BY <2>1, <2>3
    <3> QED
      BY <3>1 DEF PieceInv
  <2>4. CASE piece # input[pos].len + input[pos].eol - offset
    <3>1. PICK q \in Nat : offset = q * LineMax
      BY DEF PieceInv
    <3>2. /\ offset' = offset + LineMax /\ pos' = pos /\ input' = input
          /\ pc' = "reading"
      BY <2>1, <2>4
    <3>3. offset' = (q + 1) * LineMax /\ q + 1 \in Nat
      BY <3>1, <3>2
    <3>4. offset' < input'[pos'].len + input'[pos'].eol
      <4> DEFINE l == input[pos]
      <4>1. /\ l.len \in Nat /\ l.eol \in Nat /\ offset \in Nat /\ piece = LineMax
            /\ piece <= l.len + l.eol - offset /\ piece # l.len + l.eol - offset
        BY <2>1, <2>2, <2>4
      <4> HIDE DEF l
      <4>2. offset + LineMax < l.len + l.eol
        BY <4>1
      <4> QED
        BY <3>2, <4>2 DEF l
    <3> QED
      BY <3>2, <3>3, <3>4 DEF PieceInv
  <2> QED
    BY <2>3, <2>4
<1> QED
  BY <1>1, <1>2 DEF Next

LEMMA StepFoundInv ==
  ReadOK /\ BlockStarted /\ BlockInv /\ ArrayInv /\ FoundInv /\ [Next]_vars => FoundInv'
<1> SUFFICES ASSUME ReadOK, BlockStarted, BlockInv, ArrayInv, FoundInv, [Next]_vars
             PROVE  FoundInv'
  OBVIOUS
<1>1. CASE EndReading
  BY <1>1 DEF EndReading, Array!InitHeaders, FoundInv
<1>2. CASE ReadPiece
  BY <1>2 DEF ReadPiece, arrayVars, ArrayInv, FoundInv
<1>3. CASE EndParsing
  BY <1>3 DEF EndParsing, readVars, arrayVars, FoundInv, IsHeader, HeaderOf, Found
<1>4. CASE Free
  BY <1>4 DEF Free, Array!FreeHeaders, FoundInv
<1>5. CASE ParseLine
  <2>1. /\ pc = "parsing" /\ pc' = "parsing" /\ token' = token + 1
        /\ token \in 1 .. Len(block) /\ token \in Nat /\ count \in Nat
        /\ input' = input /\ block' = block
        /\ \A t : IsHeader(t)' <=> IsHeader(t)
    BY <1>5 DEF ParseLine, readVars, ReadOK, ArrayInv, IsHeader
  <2>2. \A t \in 1 .. token' - 1 : t = token \/ t \in 1 .. token - 1
    BY <2>1
  <2>3. \A t \in 1 .. token - 1 : t \in 1 .. Len(block) /\ t < token
    BY <2>1 DEF ReadOK
  <2>4. CASE ~IsHeader(block[token])
    <3>1. UNCHANGED <<headers, count>>
      BY <1>5, <2>4 DEF ParseLine, arrayVars
    <3>2. ASSUME NEW i \in 0 .. count - 1
          PROVE  \E t \in 1 .. token' - 1 : IsHeader(block[t]) /\ headers[i] = HeaderOf(block[t])
      <4>1. PICK t \in 1 .. token - 1 : IsHeader(block[t]) /\ headers[i] = HeaderOf(block[t])
        BY DEF FoundInv
      <4>2. t \in 1 .. token' - 1
        BY <2>1
      <4> QED
        BY <4>1, <4>2
    <3>3. ASSUME NEW t \in 1 .. token' - 1, IsHeader(block[t])
          PROVE  \E i \in 0 .. count - 1 : headers[i] = HeaderOf(block[t])
      BY <2>1, <2>2, <2>4, <3>3 DEF FoundInv
    <3>4. \A i, j \in 0 .. count - 1 : j < i => Found(j) < Found(i)
      BY DEF FoundInv
    <3> QED
      BY <2>1, <3>1, <3>2, <3>3, <3>4 DEF FoundInv, HeaderOf, Found
  <2>5. CASE IsHeader(block[token])
    <3>1. PICK h \in Headers : h = HeaderOf(block[token])
      BY <2>1, HeaderOfTyped
    <3>2. Array!AddHeader(h) /\ capacity > 0
      BY <1>5, <2>5, <3>1 DEF ParseLine, ArrayInv
    <3>3. /\ count' = count + 1 /\ headers'[count] = h
          /\ \A i \in 0 .. count - 1 : headers'[i] = headers[i]
      BY <3>2, AddHeaderStores
    <3>4. \A i \in 0 .. count' - 1 : i = count \/ i \in 0 .. count - 1
      BY <2>1, <3>3
    <3>5. /\ \A i \in 0 .. count - 1 : \E t \in 1 .. token - 1 :
               IsHeader(block[t]) /\ headers[i] = HeaderOf(block[t])
          /\ \A t \in 1 .. token - 1 : IsHeader(block[t]) =>
               \E i \in 0 .. count - 1 : headers[i] = HeaderOf(block[t])
          /\ \A i, j \in 0 .. count - 1 : j < i => Found(j) < Found(i)
      BY <2>1 DEF FoundInv
    <3>6. \A i \in 0 .. count - 1 : Found(i) < token
      <4> TAKE i \in 0 .. count - 1
      <4>1. PICK t \in 1 .. token - 1 : headers[i] = HeaderOf(block[t])
        BY <3>5
      <4>2. Found(i) = t
        BY <2>3, <4>1 DEF BlockInv, HeaderOf, Found
      <4> QED
        BY <2>3, <4>2
    <3>7. h.value.line = token
      BY <2>1, <3>1 DEF BlockInv, HeaderOf
    <3>8. ASSUME NEW i \in 0 .. count' - 1
          PROVE  \E t \in 1 .. token' - 1 :
                   IsHeader(block[t]) /\ headers'[i] = HeaderOf(block[t])
      <4>1. CASE i = count
        BY <2>1, <2>5, <3>1, <3>3, <4>1
      <4>2. CASE i \in 0 .. count - 1
        <5>1. PICK t \in 1 .. token - 1 : IsHeader(block[t]) /\ headers[i] = HeaderOf(block[t])
          BY <3>5, <4>2
        <5>2. t \in 1 .. token' - 1
          BY <2>1
        <5> QED
          BY <3>3, <4>2, <5>1, <5>2
      <4> QED
        BY <3>4, <4>1, <4>2
    <3>9. ASSUME NEW t \in 1 .. token' - 1, IsHeader(block[t])
          PROVE  \E i \in 0 .. count' - 1 : headers'[i] = HeaderOf(block[t])
      <4>1. CASE t = token
        BY <2>1, <3>1, <3>3, <4>1
      <4>2. CASE t \in 1 .. token - 1
        <5>1. PICK i \in 0 .. count - 1 : headers[i] = HeaderOf(block[t])
          BY <3>5, <3>9, <4>2
        <5>2. i \in 0 .. count' - 1
          BY <2>1, <3>3
        <5> QED
          BY <3>3, <5>1, <5>2
      <4> QED
        BY <2>2, <4>1, <4>2
    <3>10. ASSUME NEW i \in 0 .. count' - 1, NEW j \in 0 .. count' - 1, j < i
           PROVE  headers'[j].value.line < headers'[i].value.line
      <4>1. j \in 0 .. count - 1
        BY <2>1, <3>3, <3>10
      <4>2. CASE i = count
        BY <3>3, <3>6, <3>7, <4>1, <4>2 DEF Found
      <4>3. CASE i \in 0 .. count - 1
        BY <3>3, <3>5, <3>10, <4>1, <4>3 DEF Found
      <4> QED
        BY <3>4, <4>2, <4>3
    <3> HIDE DEF Found
    <3> QED
      BY <2>1, <3>8, <3>9, <3>10 DEF FoundInv, HeaderOf, Found
  <2> QED
    BY <2>4, <2>5
<1>6. CASE UNCHANGED vars
  BY <1>6 DEF vars, readVars, arrayVars, FoundInv, IsHeader, HeaderOf, Found
<1> QED
  BY <1>1, <1>2, <1>3, <1>4, <1>5, <1>6 DEF Next

(***************************************************************************)
(* What is found.                                                          *)
(***************************************************************************)

HeadersInv == ReadOK /\ BlockStarted /\ ArrayInv /\ BlockInv /\ PieceInv /\ FoundInv

THEOREM HeadersInvariance == Spec => []HeadersInv
<1>1. Init => BlockInv /\ PieceInv /\ FoundInv
  <2> SUFFICES ASSUME Init PROVE BlockInv /\ PieceInv /\ FoundInv
    OBVIOUS
  <2>1. BlockInv
    BY DEF Init, BlockInv, Begun
  <2>2. PieceInv
    <3>1. offset = 0 * LineMax
      BY DEF Init
    <3> QED
      BY <3>1 DEF Init, PieceInv
  <2>3. FoundInv
    BY DEF Init, Array!Init, Array!Nothing, FoundInv
  <2> QED
    BY <2>1, <2>2, <2>3
<1> QED
  BY <1>1, InitReadOK, InitArrayInv, StepReadOK, StepArrayInv, StepBlockInv, StepPieceInv,
     StepFoundInv, PTL DEF Spec, HeadersInv

LEMMA SentFacts ==
  ASSUME HeadersInv, NEW t \in 1 .. Len(block)
  PROVE  /\ t \in 1 .. Len(input) /\ t \in Nat /\ block[t].line = t
         /\ input[t].kind = "header" => Sent(t)
         /\ t < Len(block) => block[t] = Whole(t)
         /\ block[t] = Whole(t) /\ Sent(t) => IsHeader(block[t])
<1>1. /\ Len(block) \in Nat /\ Len(input) \in Nat /\ Begun \in Nat /\ Len(block) <= Begun
      /\ \A l \in 1 .. Begun : l <= Len(input) /\ input[l].len > 0
  BY DEF HeadersInv, ReadOK, BlockInv, Begun
<1>2. /\ t \in 1 .. Len(input) /\ t \in Nat /\ block[t].line = t
      /\ \A l \in 1 .. t : l \in 1 .. Begun /\ l \in 1 .. Len(input)
  BY <1>1 DEF HeadersInv, BlockInv
<1>3. \A l \in 1 .. t : input[l] \in Lines /\ input[l].len > 0
  BY <1>1, <1>2 DEF HeadersInv, ReadOK
<1>4. \A l \in 1 .. t : input[l].kind # "empty"
  <2>1. \A m \in Lines : m.len > 0 => m.kind # "empty"
    BY LinesAssumption
  <2> QED
    BY <1>3, <2>1
<1>5. block[t] \in Parts
  BY DEF HeadersInv, ReadOK
<1>6. ASSUME t < Len(block) PROVE block[t] = Whole(t)
  <2>1. block[t].kept = input[t].len
    BY <1>1, <1>6 DEF HeadersInv, BlockInv
  <2> QED
    BY <1>2, <1>5, <2>1 DEF Whole, Parts
<1>7. ASSUME block[t] = Whole(t), Sent(t) PROVE IsHeader(block[t])
  <2>1. input[t] \in Lines /\ input[t].kind = "header"
    BY <1>2, <1>3, <1>7 DEF Sent
  <2>2. input[t].start < input[t].len /\ input[t].start \in Nat /\ input[t].len \in Nat
    BY <2>1, LinesAssumption, LineFacts
  <2> QED
    BY <1>7, <2>1, <2>2 DEF IsHeader, Whole
<1> QED
  BY <1>2, <1>4, <1>6, <1>7 DEF Sent

\* Where a header that has been found is from.
LEMMA FoundFrom ==
  ASSUME HeadersInv, NEW i \in 0 .. count - 1
  PROVE  /\ Found(i) \in 1 .. token - 1 /\ Found(i) \in 1 .. Len(block)
         /\ Sent(Found(i))
         /\ headers[i] = HeaderOf(block[Found(i)])
         /\ pc # "freed"
<1>1. PICK t \in 1 .. token - 1 : IsHeader(block[t]) /\ headers[i] = HeaderOf(block[t])
  BY DEF HeadersInv, FoundInv
<1>2. t \in 1 .. Len(block)
  BY DEF HeadersInv, ReadOK
<1>3. Found(i) = t
  BY <1>1, <1>2, SentFacts DEF Found, HeaderOf
<1>4. Sent(t)
  BY <1>1, <1>2, SentFacts DEF IsHeader
<1> QED
  BY <1>1, <1>2, <1>3, <1>4 DEF HeadersInv, FoundInv

\* For any lines and any limits, the headers found are the first ones of the
\* request, in its order, and only the last can be cut (main.c:171-176,
\* http_parse.c:78-105).
THEOREM InOrderHolds == Spec => []InOrder
<1> SUFFICES ASSUME HeadersInv PROVE InOrder
  BY HeadersInvariance, PTL
<1>1. count \in Nat /\ \A i, j \in 0 .. count - 1 : j < i => Found(j) < Found(i)
  BY DEF HeadersInv, ArrayInv, FoundInv
<1>2. ASSUME NEW i \in 0 .. count - 1
      PROVE  /\ Sent(Found(i))
             /\ \A j \in 0 .. i - 1 : Found(j) < Found(i)
             /\ i < count - 1 => headers[i].value = Whole(Found(i))
  <2>1. \A j \in 0 .. i - 1 : Found(j) < Found(i)
    BY <1>1
  <2>2. ASSUME i < count - 1 PROVE headers[i].value = Whole(Found(i))
    <3>1. count - 1 \in 0 .. count - 1 /\ Found(i) < Found(count - 1)
      BY <1>1, <2>2
    <3>2. Found(i) \in 1 .. Len(block) /\ Found(count - 1) \in 1 .. Len(block)
      BY <3>1, FoundFrom
    <3>3. Found(i) < Len(block)
      BY <3>1, <3>2 DEF HeadersInv, ReadOK
    <3> QED
      <4>1. PICK t \in 1 .. Len(block) : t = Found(i)
        BY <3>2
      <4>2. block[t] = Whole(t)
        BY <3>3, <4>1, SentFacts
      <4>3. headers[i].value = block[t]
        <5>1. headers[i] = HeaderOf(block[Found(i)])
          BY FoundFrom
        <5> QED
          BY <4>1, <5>1 DEF HeaderOf
      <4> QED
        BY <4>1, <4>2, <4>3 DEF Whole
  <2> QED
    BY <2>1, <2>2, FoundFrom
<1>3. ASSUME count > 0, NEW l \in 1 .. Found(count - 1), Sent(l)
      PROVE  \E i \in 0 .. count - 1 : Found(i) = l
  <2>1. count - 1 \in 0 .. count - 1
    BY <1>1, <1>3
  <2>2. CASE l = Found(count - 1)
    BY <2>1, <2>2
  <2>3. CASE l # Found(count - 1)
    <3>1. /\ Found(count - 1) \in 1 .. token - 1 /\ Found(count - 1) \in 1 .. Len(block)
          /\ pc # "freed"
      BY <2>1, FoundFrom
    <3>2. l \in 1 .. Len(block) /\ l < Len(block) /\ l \in 1 .. token - 1
      BY <2>3, <3>1 DEF HeadersInv, ReadOK
    <3>3. IsHeader(block[l]) /\ block[l].line = l
      BY <1>3, <3>2, SentFacts
    <3>4. PICK i \in 0 .. count - 1 : headers[i] = HeaderOf(block[l])
      BY <3>1, <3>2, <3>3 DEF HeadersInv, FoundInv
    <3>5. Found(i) = l
      BY <3>3, <3>4 DEF Found, HeaderOf
    <3> QED
      BY <3>5
  <2> QED
    BY <2>2, <2>3
<1> QED
  BY <1>2, <1>3 DEF InOrder

\* A line that ends at a multiple of LineMax ends on a boundary of fgets.
LEMMA Boundaries ==
  ASSUME NEW q \in Nat, NEW len \in Nat, len > 0
  PROVE  /\ len = q * LineMax => len % LineMax = 0
         /\ len + 1 = q * LineMax => len % LineMax = LineMax - 1
<1>1. \A m \in Nat \ {0}, x \in Nat : (x * m) % m = 0
  OBVIOUS
<1>2. ASSUME len + 1 = q * LineMax PROVE len % LineMax = LineMax - 1
  <2>1. PICK p \in Nat : q = p + 1
    <3>1. q # 0
      BY <1>2
    <3> QED
      BY <3>1
  <2>2. len = LineMax * p + (LineMax - 1)
    BY <1>2, <2>1
  <2>3. \A m \in Nat \ {0}, r \in Nat, x \in Nat : r < m => (m * x + r) % m = r
    OBVIOUS
  <2> QED
    BY <2>2, <2>3
<1> QED
  BY <1>1, <1>2

\* Reading has ended at a line that is empty, or that ends on a boundary.
LEMMA WhereItEnds ==
  ASSUME HeadersInv, pc = "parsed", pos <= Len(input)
  PROVE  (offset = 0 /\ input[pos].kind = "empty") \/ (offset > 0 /\ EndsOnBoundary(pos))
<1> DEFINE l == input[pos]
<1>1. /\ l \in Lines /\ l.len \in Nat /\ l.eol \in 0 .. 2 /\ offset \in Nat
      /\ offset >= l.len /\ (l.kind = "empty" <=> l.len = 0)
      /\ (offset > 0 => offset < l.len + l.eol)
      /\ (offset > 0 => l.len > 0)
  <2>1. l \in Lines /\ pos \in Nat \ {0} /\ offset \in Nat
    BY DEF HeadersInv, ReadOK
  <2>2. offset > 0 => l.len > 0
    BY <2>1 DEF HeadersInv, BlockInv, Begun
  <2>3. offset >= l.len /\ (offset > 0 => offset < l.len + l.eol)
    BY DEF HeadersInv, PieceInv
  <2> QED
    BY <2>1, <2>2, <2>3, LinesAssumption
<1>2. CASE offset = 0
  BY <1>1, <1>2
<1>3. CASE offset > 0
  <2>1. PICK q \in Nat : offset = q * LineMax
    BY DEF HeadersInv, PieceInv
  <2> HIDE DEF l
  <2>2. \/ l.eol > 0 /\ l.len = q * LineMax
        \/ l.eol = 2 /\ l.len + 1 = q * LineMax
    BY <1>1, <1>3, <2>1
  <2>3. l.len > 0
    BY <1>1, <1>3
  <2>4. \/ l.eol > 0 /\ l.len % LineMax = 0
        \/ l.eol = 2 /\ l.len % LineMax = LineMax - 1
    BY <1>1, <2>2, <2>3, Boundaries
  <2> QED
    BY <1>3, <2>3, <2>4 DEF l, EndsOnBoundary
<1> QED
  BY <1>1, <1>2, <1>3

\* A header is lost or cut for one of three causes only, for any lines and any
\* limits (main.c:171-176, http_parse.c:78-105).
THEOREM LossHasCauseHolds == Spec => []LossHasCause
<1> SUFFICES ASSUME HeadersInv PROVE LossHasCause
  BY HeadersInvariance, PTL
<1> SUFFICES ASSUME pc = "parsed", used # BlockMax,
                    \A l \in DOMAIN input : input[l].kind # "blank" /\ ~EndsOnBoundary(l),
                    NEW l \in DOMAIN input, Sent(l)
             PROVE  \E i \in 0 .. count - 1 : headers[i].value = Whole(l)
  BY DEF LossHasCause, AllFound
<1>1. /\ DOMAIN input = 1 .. Len(input) /\ Len(input) \in Nat /\ Len(block) \in Nat
      /\ l \in Nat /\ pos \in 1 .. Len(input) + 1 /\ token \in 1 .. Len(block) + 1
      /\ used < BlockMax
  BY DEF HeadersInv, ReadOK
<1>2. l < pos
  <2>1. CASE pos <= Len(input)
    <3>1. pos \in DOMAIN input
      BY <1>1, <2>1
    <3>2. input[pos].kind = "empty"
      BY <2>1, <3>1, WhereItEnds
    <3> QED
      BY <1>1, <3>2 DEF Sent
  <2> QED
    BY <1>1, <2>1
<1>3. l \in 1 .. Len(block) /\ block[l].kept = input[l].len
  BY <1>1, <1>2 DEF HeadersInv, BlockInv, Begun
<1>4. block[l] = Whole(l) /\ IsHeader(block[l])
  <2>1. block[l] \in Parts /\ block[l].line = l
    BY <1>3, SentFacts DEF HeadersInv, ReadOK
  <2>2. block[l] = Whole(l)
    BY <1>3, <2>1 DEF Whole, Parts
  <2> QED
    BY <1>3, <2>2, SentFacts
<1>5. token = Len(block) + 1
  <2>1. CASE token <= Len(block)
    <3>1. token \in DOMAIN input /\ block[token].line = token
      BY <1>1, <2>1, SentFacts
    <3>2. input[block[token].line].kind = "blank"
      BY <2>1 DEF HeadersInv, FoundInv
    <3> QED
      BY <3>1, <3>2
  <2> QED
    BY <1>1, <2>1
<1>6. PICK i \in 0 .. count - 1 : headers[i] = HeaderOf(block[l])
  BY <1>3, <1>4, <1>5 DEF HeadersInv, FoundInv
<1> QED
  BY <1>4, <1>6 DEF HeaderOf

\* The value of a name is the one the first line with it has, whatever comes
\* later, for any lines and any limits (http_headers.c:41-48).
THEOREM FirstOfNameHolds == Spec => []FirstOfName
<1> SUFFICES ASSUME HeadersInv, InOrder PROVE FirstOfName
  BY HeadersInvariance, InOrderHolds, PTL
<1>1. \A j, k \in 0 .. count - 1 : j < k => Found(j) < Found(k)
  BY DEF HeadersInv, FoundInv
<1> SUFFICES ASSUME pc = "parsed", NEW l \in DOMAIN input, Sent(l),
                    NEW v \in Array!GetHeader(input[l].name)
             PROVE  v.line <= l /\ input[v.line].name = input[l].name
  BY DEF FirstOfName
<1>2. PICK i \in Array!Matches(input[l].name) :
        v = headers[i].value /\ \A k \in Array!Matches(input[l].name) : i <= k
  BY DEF Array!GetHeader
<1>3. i \in 0 .. count - 1 /\ headers[i].name = input[l].name /\ v.line = Found(i)
  BY <1>2 DEF Array!Matches, Found
<1>4. \A j \in 0 .. count - 1 : headers[j].name = input[Found(j)].name
  <2> TAKE j \in 0 .. count - 1
  <2>1. headers[j] = HeaderOf(block[Found(j)]) /\ Found(j) \in 1 .. Len(block)
    BY FoundFrom
  <2>2. block[Found(j)].line = Found(j)
    BY <2>1, SentFacts
  <2> QED
    BY <2>1, <2>2 DEF HeaderOf
<1>5. /\ l \in Nat \ {0} /\ count \in Nat /\ count - 1 \in 0 .. count - 1
      /\ \A j \in 0 .. count - 1 : Found(j) \in Nat
  BY <1>3, FoundFrom DEF HeadersInv, ReadOK, ArrayInv
<1>6. Found(i) <= l
  <2> SUFFICES ASSUME l < Found(i) PROVE FALSE
    BY <1>3, <1>5
  <2>1. Found(i) <= Found(count - 1)
    <3>1. i = count - 1 \/ i < count - 1
      BY <1>3, <1>5
    <3> QED
      BY <1>1, <1>3, <1>5, <3>1
  <2>2. l \in 1 .. Found(count - 1)
    BY <1>3, <1>5, <2>1
  <2>3. PICK j \in 0 .. count - 1 : Found(j) = l
    BY <1>3, <1>5, <2>2 DEF InOrder
  <2>4. j \in Array!Matches(input[l].name)
    BY <1>4, <2>3 DEF Array!Matches
  <2>5. i <= j
    BY <1>2, <2>4
  <2> QED
    <3>1. i = j \/ i < j
      BY <1>3, <2>3, <2>5
    <3> QED
      BY <1>1, <1>3, <1>5, <2>3, <3>1
<1> QED
  BY <1>3, <1>4, <1>6
===============================================================================
