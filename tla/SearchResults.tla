---------------------------- MODULE SearchResults -----------------------------
(***************************************************************************)
(* The document in the frame of the search box (SearchResults and          *)
(* createResults in doc/html/search/search.js): a list of rows, of which   *)
(* those that match the query are displayed; a row with several results    *)
(* has children, displayed while it is open.  d is the state of the        *)
(* document; the keys move the focus from place to place.                  *)
(***************************************************************************)
EXTENDS SearchBox, FiniteSetsExt

CONSTANT Content  \* Content[category][letter]: the rows of a page

\* The rows of a page are numbered from 0, in the order of searchData.  A row
\* has the texts that are a prefix of its name, and its number of children (0
\* when it is a single link).
HasResults(page) == page \notin {NoMatches, BlankPage}
Rows(page) ==
  IF HasResults(page) THEN 0 .. Len(Content[page.category][page.letter]) - 1 ELSE {}
Row(page, e) == Content[page.category][page.letter][e + 1]

ASSUME ContentAssumption ==
  \A category \in Categories : \A i \in DOMAIN Indexed[category] :
    LET rows == Content[category][Indexed[category][i]]
    IN  /\ Len(rows) \in Nat
        /\ \A e \in 0 .. Len(rows) - 1 : rows[e + 1].children \in Nat

\* SearchResults.Search displays the rows that match the query of its address.
Visible(page) == {e \in Rows(page) : page.query \in Row(page, e).matches}

\* The generator sorts the rows of a page by name, so that those with a common
\* prefix follow each other.
ASSUME SortedAssumption ==
  \A page \in Pages \ {NoMatches, BlankPage} :
    \A category \in Categories : \A i \in DOMAIN Indexed[category] :
      (page.category = category /\ page.letter = Indexed[category][i]) =>
        \A e, f \in Visible(page) : e .. f \subseteq Visible(page)

Keys == {"Up", "Down", "Left", "Right", "Escape", "Enter", "Char"}

Docs == [ page : Pages,
          open : SUBSET Nat,               \* the rows whose children are displayed
          lastKey : Keys \cup {"none"},
          repeatOn : BOOLEAN ]

\* createResults, and Search on the new document.
NewDoc(page) ==
  [page |-> page, open |-> {}, lastKey |-> "none", repeatOn |-> FALSE]

-------------------------------------------------------------------------------
(* Places the focus can be at.                                             *)

Field == <<"field">>      \* MSearchField
Page == <<"page">>        \* anywhere without a handler
Select == <<"select">>    \* an item of the list of categories
None == <<"none">>
Item(e) == <<"item", e>>
Child(e, c) == <<"child", e, c>>

InFrame(place) == place[1] \in {"item", "child"}

Children(d, e) == {Child(e, c) : c \in 0 .. Row(d.page, e).children - 1}

\* What is displayed can be focused; focus() on anything else does nothing.
Displayed(d) ==
  {Item(e) : e \in Visible(d.page)}
    \cup UNION {Children(d, e) : e \in d.open \cap Visible(d.page)}

NavNext(d, i) ==
  LET found == {e \in Visible(d.page) : e >= i}
  IN  IF found = {} THEN None ELSE Item(Min(found))

NavPrev(d, i) ==
  LET found == {e \in Visible(d.page) : e <= i}
  IN  IF found = {} THEN None ELSE Item(Max(found))

-------------------------------------------------------------------------------
(* Keys.                                                                   *)

\* Variant for mutation testing: only the end of a key ends its repetition.
KeyDownKeepingRepeat(d, key) == [d EXCEPT !.lastKey = key]

\* The key that the handlers act on after an event, or "none".
KeyDownIn(d, key) == [d EXCEPT !.repeatOn = FALSE, !.lastKey = key]
KeyUpIn(d) == [d EXCEPT !.repeatOn = FALSE, !.lastKey = "none"]
KeyPressIn(d) == [d EXCEPT !.repeatOn = @ \/ d.lastKey # "none"]

\* The first keypress after a keydown is ignored.
ActsOnPress(d) == d.repeatOn /\ d.lastKey # "none"

\* Variant for mutation testing: Up goes to the row even when it is open.
UpToRow(d, place) ==
  LET e == place[2]
      found == NavPrev(d, e - 1)
  IN  CASE place[1] = "child" /\ place[3] > 0 -> Child(e, place[3] - 1)
        [] place[1] = "child" /\ place[3] = 0 -> Item(e)
        [] OTHER -> IF found = None THEN Field ELSE found

\* Up.  The children that are looked for are those of the row before, not of
\* the row that was found.
Up(d, place) ==
  LET e == place[2]
      found == NavPrev(d, e - 1)
  IN  CASE place[1] = "child" /\ place[3] > 0 -> Child(e, place[3] - 1)
        [] place[1] = "child" /\ place[3] = 0 -> Item(e)
        [] OTHER ->
             IF found = None THEN Field
             ELSE IF found[2] \in d.open /\ Row(d.page, e - 1).children > 0
               THEN Child(e - 1, Row(d.page, e - 1).children - 1)
               ELSE found

Down(d, place) ==
  LET e == place[2]
      next == NavNext(d, e + 1)
  IN  CASE place[1] = "child" /\ place[3] + 1 < Row(d.page, e).children ->
             Child(e, place[3] + 1)
        [] place[1] = "item" /\ e \in d.open -> Child(e, 0)
        [] OTHER -> IF next = None THEN place ELSE next

\* Right, Left and Toggle.  Rows without children have nothing to open.
Open(d, e) ==
  IF Row(d.page, e).children > 0 THEN [d EXCEPT !.open = @ \cup {e}] ELSE d
Close(d, e) == [d EXCEPT !.open = @ \ {e}]
Toggle(d, e) == IF e \in d.open THEN Close(d, e) ELSE Open(d, e)
===============================================================================
