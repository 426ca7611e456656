------------------------------- MODULE SearchBox ------------------------------
(***************************************************************************)
(* The search box of the HTML documentation (SearchBox in                  *)
(* doc/html/search/search.js): the field, the results window with the      *)
(* frame in it, and the timer that starts a search half a second after the *)
(* last key.  b is the state of the box; every operator is what a method   *)
(* makes of it.  Positions of windows and the bullet in front of the       *)
(* selected category, which follows searchIndex, are left out.             *)
(***************************************************************************)
EXTENDS Integers, Sequences

CONSTANTS
  Texts,      \* what the field may contain
  Label,      \* the text of an idle field: 'Search'
  Squeezed,   \* a text without its blanks
  Trimmed,    \* a text without its leading blanks
  Initial,    \* its first letter, as charAt returns it
  Letters,    \* the initials of all the texts
  Count,      \* the number of categories
  Indexed     \* the letters under which each category has a page, in order

Categories == 0 .. Count - 1

ASSUME CountAssumption == Count \in Nat \ {0}
ASSUME TextAssumption ==
  /\ Label \in Texts /\ "" \in Texts /\ Label # ""
  /\ Squeezed \in [Texts -> Texts]
  /\ Trimmed \in [Texts -> Texts]
  /\ Initial \in [Texts -> Letters]
  /\ Squeezed[""] = "" /\ Trimmed[""] = ""
  /\ Squeezed[Label] = Label /\ Trimmed[Label] = Label
  /\ \A text \in Texts : /\ Squeezed[Squeezed[text]] = Squeezed[text]
                         /\ Squeezed[Trimmed[text]] = Squeezed[text]
ASSUME IndexedAssumption ==
  \A category \in Categories : Indexed[category] \in Seq(Letters) \ {<<>>}

\* Where the frame of the results can be sent: a page of a category with the
\* text to filter by, the page nomatches.html, or nowhere yet.
NoMatches == [category |-> Count, letter |-> "nomatches", query |-> ""]
BlankPage == [category |-> Count, letter |-> "blank", query |-> ""]
Pages == [category : Categories, letter : Letters, query : Texts]
           \cup {NoMatches, BlankPage}

Boxes == [ value : Texts,          \* of MSearchField
           className : {"MSearchBoxActive", "MSearchBoxInactive"},
           searchActive : BOOLEAN,
           lastSearchValue : Texts,
           window : BOOLEAN,       \* MSearchResultsWindow is displayed
           close : BOOLEAN,        \* MSearchClose is displayed
           searchIndex : 0 .. Count,
           keyTimeout : BOOLEAN,   \* it names a timer that is running
           keyTimers : Nat,        \* timers of Search() that are running
           location : Pages,       \* of the frame
           loading : BOOLEAN ]     \* its page has still to arrive

NewBox == [value |-> Label, className |-> "MSearchBoxInactive",
           searchActive |-> FALSE, lastSearchValue |-> "", window |-> FALSE,
           close |-> FALSE, searchIndex |-> 0, keyTimeout |-> FALSE,
           keyTimers |-> 0, location |-> BlankPage, loading |-> FALSE]

-------------------------------------------------------------------------------
(* Activation.                                                             *)

\* Variant for mutation testing: the panel is removed also under its results.
ActivateIgnoringResults(b, isActive) ==
  IF isActive
    THEN [b EXCEPT !.className = "MSearchBoxActive",
                   !.value = IF b.value = Label THEN "" ELSE b.value,
                   !.searchActive = b.searchActive \/ b.value = Label]
    ELSE [b EXCEPT !.className = "MSearchBoxInactive",
                   !.value = Label,
                   !.searchActive = FALSE]

\* The panel opens, or stays open while there are results; otherwise all is
\* put back.
Activate(b, isActive) ==
  IF isActive \/ b.window
    THEN [b EXCEPT !.className = "MSearchBoxActive",
                   !.value = IF b.value = Label THEN "" ELSE b.value,
                   !.searchActive = b.searchActive \/ b.value = Label]
    ELSE [b EXCEPT !.className = "MSearchBoxInactive",
                   !.value = Label,
                   !.searchActive = FALSE,
                   !.lastSearchValue = ""]

Focused(b) == Activate(b, TRUE)
Blurred(b) == Activate(b, FALSE)

HideResults(b) == [b EXCEPT !.window = FALSE, !.close = FALSE]

CloseResultsWindow(b) == Activate(HideResults(b), FALSE)

-------------------------------------------------------------------------------
(* Searches.                                                               *)

\* indexOf finds the empty initial of an empty text in any index, at its start.
ResultsPage(category, text) ==
  LET page(letter) == [category |-> category, letter |-> letter, query |-> text]
  IN  IF text = "" THEN page(Indexed[category][1])
      ELSE IF \E i \in DOMAIN Indexed[category] : Indexed[category][i] = Initial[text]
        THEN page(Initial[text])
        ELSE NoMatches

\* Past the last category there is no index, and Search throws before it does
\* more than to forget the timer.
Throws(b) == b.searchIndex \notin Categories

\* Variant for mutation testing: the text is remembered as it was typed.
SearchUntrimmed(b) ==
  LET page == ResultsPage(b.searchIndex, Trimmed[b.value])
  IN  IF Throws(b)
        THEN [b EXCEPT !.keyTimeout = FALSE]
        ELSE [b EXCEPT !.keyTimeout = FALSE,
                       !.location = page,
                       !.loading = TRUE,
                       !.window = TRUE,
                       !.close = b.close \/ ~b.window,
                       !.lastSearchValue = b.value]

Search(b) ==
  LET text == Trimmed[b.value]
  IN  IF Throws(b)
        THEN [b EXCEPT !.keyTimeout = FALSE]
        ELSE [b EXCEPT !.keyTimeout = FALSE,
                       !.location = ResultsPage(b.searchIndex, text),
                       !.loading = TRUE,
                       !.window = TRUE,
                       !.close = b.close \/ ~b.window,
                       !.lastSearchValue = text]

\* setTimeout(Search) and clearTimeout(keyTimeout).
StartKeyTimer(b) == [b EXCEPT !.keyTimeout = TRUE, !.keyTimers = @ + 1]
KillKeyTimer(b) ==
  IF b.keyTimeout THEN [b EXCEPT !.keyTimeout = FALSE, !.keyTimers = @ - 1] ELSE b

\* Variant for mutation testing: an emptied field is no reason to do anything.
CompareTextIfAny(b) ==
  LET text == Squeezed[b.value]
  IN  IF text = b.lastSearchValue \/ text = "" THEN b ELSE StartKeyTimer(b)

\* The end of OnSearchFieldChange: the text is compared with the last search.
CompareText(b) ==
  LET text == Squeezed[b.value]
  IN  IF text = b.lastSearchValue THEN b
      ELSE IF text # "" THEN StartKeyTimer(b)
      ELSE [HideResults(b) EXCEPT !.lastSearchValue = ""]

\* Variant for mutation testing: the results are hidden, their button is not.
EscapeFieldNoButton(b) ==
  Activate([Blurred(b) EXCEPT !.window = FALSE, !.lastSearchValue = ""], FALSE)

\* Escape in the field.  blur() calls Blurred while the results are still
\* displayed.
EscapeField(b) ==
  Activate([HideResults(Blurred(b)) EXCEPT !.lastSearchValue = ""], FALSE)

\* Something was found -> do a search.
SearchesAgain(b) == Squeezed[b.value] # "" /\ b.searchActive

OnSelectItem(b, id) ==
  LET c == [b EXCEPT !.searchIndex = id]
  IN  IF SearchesAgain(b) THEN Search(c) ELSE c

\* Variant for mutation testing: Down has no bound.
NextCategoryUnbounded(b) ==
  IF b.searchIndex <= Count THEN OnSelectItem(b, b.searchIndex + 1) ELSE b

\* SelectItemCount() is Count, so that Down goes one beyond the last category.
NextCategory(b) ==
  IF b.searchIndex < Count THEN OnSelectItem(b, b.searchIndex + 1) ELSE b
PreviousCategory(b) ==
  IF b.searchIndex > 0 THEN OnSelectItem(b, b.searchIndex - 1) ELSE b

\* A timer fires.
KeyTimerFires(b) == Search([b EXCEPT !.keyTimers = @ - 1])
===============================================================================
