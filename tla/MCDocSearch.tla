----------------------------- MODULE MCDocSearch ------------------------------
(* A small instance of DocSearch: two categories, and texts that differ in *)
(* their blanks, in their first letter, and in what they match.            *)
EXTENDS DocSearch, TLC

SomeTexts == {"", "Search", "ht", " ht", "h t"}
SomeSqueezed == [t \in SomeTexts |-> IF t \in {" ht", "h t"} THEN "ht" ELSE t]
SomeTrimmed == [t \in SomeTexts |-> IF t = " ht" THEN "ht" ELSE t]
SomeInitial == [t \in SomeTexts |-> CASE t = "" -> ""
                                      [] t = "Search" -> "s"
                                      [] OTHER -> "h"]
SomeIndexed == (0 :> <<"h", "s">>) @@ (1 :> <<"h">>)

Rows2 == << [matches |-> {"", "ht"}, children |-> 2],
            [matches |-> {"", "ht"}, children |-> 0],
            [matches |-> {""}, children |-> 0] >>
Rows1 == << [matches |-> {""}, children |-> 0],
            [matches |-> {"", "ht"}, children |-> 1] >>
SomeContent ==
  (0 :> ("h" :> Rows2 @@ "s" :> << [matches |-> {"", "Search"}, children |-> 0] >>))
    @@ (1 :> ("h" :> Rows1))
===============================================================================
