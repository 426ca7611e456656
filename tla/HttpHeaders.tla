------------------------------ MODULE HttpHeaders -----------------------------
(***************************************************************************)
(* The array of webserver/http/http_headers.c: an allocation of capacity   *)
(* cells, of which the first count hold headers, and which doubles when it *)
(* is full.                                                                *)
(***************************************************************************)
EXTENDS Naturals, Sequences

CONSTANTS
  Headers,        \* the headers: a name and a value
  Garbage,        \* what a cell holds that nobody has stored to
  InitCapacity    \* 8 in the code

VARIABLES
  headers,        \* the cells; none while nothing is allocated
  count,
  capacity

headersVars == <<headers, count, capacity>>

TypeOK ==
  /\ capacity \in Nat
  /\ count \in 0 .. capacity
  /\ headers \in [0 .. capacity - 1 -> Headers \cup {Garbage}]

Cells(n) == [i \in 0 .. n - 1 |-> Garbage]

\* An http_headers of which nothing is allocated, as free_headers leaves it.
Nothing == headers = Cells(0) /\ count = 0 /\ capacity = 0

Init == Nothing

\* init_headers.
InitHeaders ==
  /\ count' = 0
  /\ capacity' = InitCapacity
  /\ headers' = Cells(InitCapacity)

\* realloc: the cells there were keep their contents.
Grown(n) == [i \in 0 .. n - 1 |-> IF i < capacity THEN headers[i] ELSE Garbage]

\* Variant for mutation testing: the new array is not a copy of the old one.
AddHeaderFresh(h) ==
  /\ capacity' = IF count = capacity THEN 2 * capacity ELSE capacity
  /\ headers' = IF count = capacity THEN [Cells(2 * capacity) EXCEPT ![count] = h]
                                    ELSE [headers EXCEPT ![count] = h]
  /\ count' = count + 1

\* Variant for mutation testing: the array grows one header too late.
AddHeaderLate(h) ==
  /\ capacity' = IF count > capacity THEN 2 * capacity ELSE capacity
  /\ headers' = [Grown(capacity') EXCEPT ![count] = h]
  /\ count' = count + 1

\* add_header.
AddHeader(h) ==
  /\ capacity' = IF count = capacity THEN 2 * capacity ELSE capacity
  /\ headers' = [Grown(capacity') EXCEPT ![count] = h]
  /\ count' = count + 1

\* free_headers.
FreeHeaders ==
  /\ headers' = Cells(0)
  /\ count' = 0
  /\ capacity' = 0

\* The cells get_header stops at for a name.
Matches(name) == {i \in 0 .. count - 1 : headers[i].name = name}

\* Variant for mutation testing: the last match in the place of the first.
GetHeaderLast(name) ==
  {headers[i].value : i \in {j \in Matches(name) : \A k \in Matches(name) : k <= j}}

\* get_header: the value of the first match, if there is one.
GetHeader(name) ==
  {headers[i].value : i \in {j \in Matches(name) : \A k \in Matches(name) : j <= k}}

\* The list the array stands for.
Listed == [i \in 1 .. count |-> headers[i - 1]]

List == INSTANCE HeaderList WITH list <- Listed
===============================================================================
