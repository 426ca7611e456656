------------------------------ MODULE HeaderList ------------------------------
(* What webserver/http/http_headers.c promises: a list of headers that grows *)
(* at its end until it is freed.                                           *)
EXTENDS Sequences

CONSTANT Headers    \* the headers that can be added

VARIABLE list

Init == list = <<>>

Add(h) == list' = Append(list, h)

Clear == list' = <<>>

Next == Clear \/ \E h \in Headers : Add(h)

Spec == Init /\ [][Next]_list
===============================================================================
