----------------------------- MODULE MCHeaderBlock ----------------------------
(* HeaderBlock with lines of at most seven bytes, read five at a time.     *)
EXTENDS HeaderBlock

Header(name, len, eol) ==
  [kind |-> "header", name |-> name, start |-> 2, len |-> len, eol |-> eol]

Other(kind, len, eol) ==
  [kind |-> kind, name |-> "", start |-> 0, len |-> len, eol |-> eol]

\* Short ones, two that end on a boundary of fgets, one in two pieces.
SomeLines ==
  {Header("Host", 3, 1), Header("Host", 4, 2), Header("Host", 3, 0),
   Header("Agent", 3, 2), Header("Agent", 5, 1), Header("Agent", 7, 1),
   Other("plain", 2, 1), Other("blank", 1, 2), Other("empty", 0, 2)}
===============================================================================
