------------------------------- MODULE DocSearch ------------------------------
(***************************************************************************)
(* The search of the HTML documentation, in a browser: the box and the     *)
(* list of categories in the page, the document of the results in a frame, *)
(* and the events that connect them (doc/html/search/search.js with the    *)
(* hooks that menu.js:45 and index.html:51-54 install).                    *)
(*                                                                         *)
(* One event is one step, as in a browser: an event handler runs to its    *)
(* end, with the focus and blur handlers that focus() and blur() call.     *)
(* The two timers, the arrival of a page and what the user does come in    *)
(* any order; a key that is held may repeat, and the events of one key are *)
(* delivered to whatever has the focus when each of them happens.  The     *)
(* mouse is not used while a key is held, and one key is held at a time.   *)
(* Text that is dropped into the field gives it the focus first.           *)
(***************************************************************************)
EXTENDS SearchResults

CONSTANT MaxTimers  \* bound of the timers of Search() that run at a time

ASSUME MaxTimersAssumption == MaxTimers \in Nat \ {0}

VARIABLES
  box,        \* the SearchBox
  doc,        \* the document in the frame
  focus,      \* the place that has the focus
  held,       \* the key that is down, or "none"
  fresh,      \* there was no keypress since its last keydown
  select,     \* MSearchSelectWindow is displayed
  hideTimer,  \* the timer of CloseSelectionWindow is running
  pointer,    \* the pointer is on the icon or on the list of categories
  lost        \* a search was lost, or the text changed without a handler,
              \* since the field last compared its text

vars == <<box, doc, focus, held, fresh, select, hideTimer, pointer, lost>>
list == <<select, hideTimer, pointer>>
keys == <<held, fresh>>

Init ==
  /\ box = NewBox
  /\ doc = NewDoc(BlankPage)
  /\ focus = Page
  /\ held = "none" /\ fresh = FALSE
  /\ select = FALSE /\ hideTimer = FALSE /\ pointer = FALSE
  /\ lost = FALSE

\* The box when the focus moves to and from its field.
Moved(b, from, to) ==
  CASE to = from -> b
    [] to = Field /\ from # Field -> Focused(b)
    [] from = Field /\ to # Field -> Blurred(b)
    [] OTHER -> b

\* What is in a frame that is no longer displayed loses the focus.
Settled(b, place) == IF InFrame(place) /\ ~b.window THEN Page ELSE place

-------------------------------------------------------------------------------
(* The mouse.                                                              *)

PressOn(place) ==
  /\ held = "none" /\ focus # place
  /\ focus' = place
  /\ box' = Moved(box, focus, place)
  /\ UNCHANGED <<doc, keys, list, lost>>

ClickField == PressOn(Field)
ClickAway == PressOn(Page)
PressOnCategory == select /\ pointer /\ PressOn(Select)
PressOnResult == box.window /\ \E place \in Displayed(doc) : PressOn(place)

\* Text pasted, dropped or cleared with the mouse: the field has handlers of
\* focus, blur and keyup only.
ChangeByMouse ==
  /\ held = "none" /\ focus = Field
  /\ \E text \in Texts \ {box.value} : box' = [box EXCEPT !.value = text]
  /\ lost' = TRUE
  /\ UNCHANGED <<doc, focus, keys, list>>

\* The press of the button has taken the focus from wherever it was.
ClickClose ==
  /\ held = "none" /\ box.close /\ focus = Page
  /\ box' = CloseResultsWindow(box)
  /\ UNCHANGED <<doc, focus, keys, list, lost>>

ClickCategory ==
  /\ held = "none" /\ select /\ pointer /\ focus = Select
  /\ \E category \in Categories : box' = OnSelectItem(box, category)
  /\ UNCHANGED <<doc, focus, keys, list, lost>>

\* The link of a row with children toggles them; any other leads to another
\* page of the documentation, with a search box of its own.
FollowLink(place) ==
  IF place[1] = "item" /\ Row(doc.page, place[2]).children > 0
    THEN /\ doc' = Toggle(doc, place[2])
         /\ UNCHANGED <<box, focus, list, lost>>
    ELSE /\ box' = NewBox /\ doc' = NewDoc(BlankPage) /\ focus' = Page
         /\ select' = FALSE /\ hideTimer' = FALSE /\ pointer' = FALSE
         /\ lost' = FALSE

ClickResult ==
  /\ held = "none" /\ InFrame(focus)
  /\ FollowLink(focus)
  /\ UNCHANGED keys

\* Variant for mutation testing: the timer runs on.
OnSearchSelectShowOnly == select' = TRUE /\ UNCHANGED hideTimer

OnSearchSelectShow == select' = TRUE /\ hideTimer' = FALSE

PointerIn ==
  /\ ~pointer
  /\ pointer' = TRUE
  /\ OnSearchSelectShow
  /\ UNCHANGED <<box, doc, focus, keys, lost>>

OnSearchSelectHide ==
  /\ pointer
  /\ pointer' = FALSE /\ hideTimer' = TRUE
  /\ UNCHANGED <<box, doc, focus, keys, select, lost>>

-------------------------------------------------------------------------------
(* Keys in the field, which handles only their end.                        *)

Type ==
  /\ focus = Field /\ held \in {"none", "Char"}
  /\ \E text \in Texts \ {box.value} : box' = [box EXCEPT !.value = text]
  /\ held' = "Char" /\ fresh' = TRUE
  /\ UNCHANGED <<doc, focus, list, lost>>

KeyDownInField(key) ==
  /\ focus = Field /\ key # "Char"
  /\ fresh' = TRUE
  /\ UNCHANGED <<box, doc, focus, list, lost>>

\* With the shift key, Down and Enter go to the list of categories, and the
\* search that was waiting for its timer is not started again.
ToCategories ==
  /\ held \in {"Down", "Enter"}
  /\ OnSearchSelectShow
  /\ focus' = Select
  /\ box' = Blurred(KillKeyTimer(box))
  /\ lost' = (lost \/ box.keyTimeout)
  /\ UNCHANGED pointer

\* Without it they go to the first result, if there is one to go to.
ToResults ==
  LET b == KillKeyTimer(box)
      next == NavNext(doc, 0)
      to == IF b.window /\ next \in Displayed(doc) THEN next ELSE Field
      compared == CompareText(Moved(b, Field, to))
  IN  /\ held \in {"Down", "Enter"}
      /\ box' = compared
      /\ focus' = Settled(compared, to)
      /\ lost' = FALSE
      /\ UNCHANGED list

OutOfField ==
  /\ held = "Escape"
  /\ box' = EscapeField(KillKeyTimer(box))
  /\ focus' = Page
  /\ lost' = FALSE
  /\ UNCHANGED list

OtherKey ==
  /\ held \notin {"Down", "Enter", "Escape"}
  /\ box' = CompareText(KillKeyTimer(box))
  /\ lost' = FALSE
  /\ UNCHANGED <<focus, list>>

OnSearchFieldChange ==
  /\ focus = Field
  /\ KillKeyTimer(box).keyTimers < MaxTimers
  /\ ToCategories \/ ToResults \/ OutOfField \/ OtherKey
  /\ UNCHANGED doc

-------------------------------------------------------------------------------
(* Keys in the list of categories, which handles only their start.  With   *)
(* Enter and Escape it is closed, unless the search for the category found *)
(* none and threw.                                                         *)

OnSearchSelectKey(key) ==
  LET again == OnSelectItem(box, box.searchIndex)
  IN  /\ focus = Select
      /\ fresh' = TRUE
      /\ \/ /\ key = "Down" /\ box' = NextCategory(box)
            /\ UNCHANGED <<focus, select>>
         \/ /\ key = "Up" /\ box' = PreviousCategory(box)
            /\ UNCHANGED <<focus, select>>
         \/ /\ key \in {"Enter", "Escape"}
            /\ SearchesAgain(box) /\ Throws(box)
            /\ box' = again
            /\ UNCHANGED <<focus, select>>
         \/ /\ key \in {"Enter", "Escape"}
            /\ ~(SearchesAgain(box) /\ Throws(box))
            /\ box' = Focused(again) /\ focus' = Field /\ select' = FALSE
         \/ /\ key \in {"Left", "Right", "Char"}
            /\ UNCHANGED <<box, focus, select>>
      /\ UNCHANGED <<doc, hideTimer, pointer, lost>>

-------------------------------------------------------------------------------
(* Keys in the frame, on an item (Nav) or on a child (NavChild).           *)

Go(d, to) ==
  /\ doc' = d
  /\ focus' = IF to = Field \/ to \in Displayed(d) THEN to ELSE focus
  /\ box' = Moved(box, focus, focus')

NavKey(d, key) ==
  \/ key = "Up" /\ Go(d, Up(d, focus))
  \/ key = "Down" /\ Go(d, Down(d, focus))
  \/ key = "Right" /\ focus[1] = "item"
       /\ doc' = Open(d, focus[2]) /\ UNCHANGED <<box, focus>>
  \/ key = "Left" /\ focus[1] = "item"
       /\ doc' = Close(d, focus[2]) /\ UNCHANGED <<box, focus>>
  \/ key = "Escape"
       /\ doc' = d /\ focus' = Field /\ box' = Focused(CloseResultsWindow(box))
  \/ (key = "Char" \/ (key \in {"Left", "Right"} /\ focus[1] = "child"))
       /\ doc' = d /\ UNCHANGED <<box, focus>>

\* Enter is left to the browser, which follows the link.
KeyDownInFrame(key) ==
  /\ InFrame(focus)
  /\ \/ key = "Enter" /\ FollowLink(focus)
     \/ NavKey(KeyDownIn(doc, key), key) /\ UNCHANGED <<list, lost>>
  /\ fresh' = TRUE

KeyPressInFrame ==
  /\ InFrame(focus) /\ held \notin {"none", "Enter"}
  /\ IF ActsOnPress(doc)
       THEN NavKey(doc, doc.lastKey)
       ELSE doc' = KeyPressIn(doc) /\ UNCHANGED <<box, focus>>
  /\ fresh' = FALSE
  /\ UNCHANGED <<held, list, lost>>

KeyUpInFrame ==
  /\ InFrame(focus)
  /\ doc' = IF held = "Enter" THEN doc ELSE KeyUpIn(doc)
  /\ UNCHANGED <<box, focus, list, lost>>

-------------------------------------------------------------------------------
(* Events.                                                                 *)

KeyDown ==
  \E key \in Keys :
    /\ held \in {"none", key}
    /\ held' = key
    /\ KeyDownInField(key) \/ OnSearchSelectKey(key) \/ KeyDownInFrame(key)

KeyUp ==
  /\ held # "none"
  /\ held' = "none" /\ fresh' = FALSE
  /\ \/ OnSearchFieldChange
     \/ KeyUpInFrame
     \/ /\ focus \in {Page, Select}
        /\ UNCHANGED <<box, doc, focus, list, lost>>

KeyTimer ==
  /\ box.keyTimers > 0
  /\ box' = KeyTimerFires(box)
  /\ lost' = (lost \/ Throws(box))
  /\ UNCHANGED <<doc, focus, keys, list>>

CloseSelectionWindow ==
  /\ hideTimer
  /\ hideTimer' = FALSE /\ select' = FALSE
  /\ focus' = IF focus = Select THEN Page ELSE focus
  /\ UNCHANGED <<box, doc, keys, pointer, lost>>

\* A page arrives; the document that was there goes, with the focus it had.
FrameLoads ==
  /\ box.loading
  /\ box' = [box EXCEPT !.loading = FALSE]
  /\ doc' = NewDoc(box.location)
  /\ focus' = IF InFrame(focus) THEN Page ELSE focus
  /\ UNCHANGED <<keys, list, lost>>

Next ==
  \/ ClickField \/ ClickAway \/ PressOnCategory \/ PressOnResult
  \/ ChangeByMouse
  \/ ClickClose \/ ClickCategory \/ ClickResult
  \/ PointerIn \/ OnSearchSelectHide
  \/ Type \/ KeyDown \/ KeyPressInFrame \/ KeyUp
  \/ KeyTimer \/ CloseSelectionWindow \/ FrameLoads

Spec == Init /\ [][Next]_vars

-------------------------------------------------------------------------------
(* Properties.                                                             *)

Places ==
  {Field, Page, Select} \cup {Item(e) : e \in Rows(doc.page)}
    \cup UNION {Children(doc, e) : e \in Rows(doc.page)}

\* Types.  In particular the index of the category never leaves the list by
\* more than one place, which is where Search throws, and what has the focus
\* is displayed.
TypeOK ==
  /\ box \in Boxes /\ box.keyTimers \in 0 .. MaxTimers
  /\ doc \in Docs /\ doc.open \subseteq Rows(doc.page)
  /\ focus \in Places
  /\ InFrame(focus) => box.window /\ focus \in Displayed(doc)
  /\ held \in Keys \cup {"none"} /\ fresh \in BOOLEAN
  /\ select \in BOOLEAN /\ hideTimer \in BOOLEAN /\ pointer \in BOOLEAN
  /\ lost \in BOOLEAN

\* However focus, blur, keys and timers follow each other, the parts of the
\* panel agree, also where handlers call each other while it is half hidden:
\* the window of the results and the button that closes it come and go
\* together; a search whose window is gone is forgotten, so that the same text
\* searches again; a box that looks idle has its label in the field and takes
\* no part in searches, and one that looks active does (search.js:209-217,
\* 232-234, 317-319, 364-389, 397-421).
PanelConsistent ==
  /\ box.window <=> box.close
  /\ ~box.window => box.lastSearchValue = ""
  /\ IF box.className = "MSearchBoxInactive"
       THEN box.value = Label /\ ~box.searchActive
       ELSE box.searchActive

\* While results are displayed, the page in the frame, or on its way to it, is
\* the one of some category for the last search, also when the text or the
\* category changed since (search.js:361, 389).
ShownIsLastSearch ==
  box.window =>
    \E category \in Categories : box.location = ResultsPage(category, box.lastSearchValue)

\* The results can be open while the box is idle in one way only: a timer that
\* outlived the text it was started for searches for the label
\* (search.js:227, 333, 416).
StrayIsLabel ==
  box.window /\ box.className = "MSearchBoxInactive" => box.lastSearchValue = Label

\* No text is left unsearched: with the focus in the field, no key down and no
\* timer running, open results are those of the text, up to its blanks, and
\* there are results if there is a text.  The exceptions are the ways the code
\* has of losing a search: text changed with the mouse, of which no handler is
\* called (menu.js:45), until a key of the field has it compared; a search that
\* throws, past the last category; a timer stopped by shift and Down; and a
\* search for the label, which is erased when the focus moves
\* (search.js:179-237, 285, 346, 407).
NothingLeftUnsearched ==
  (/\ focus = Field /\ held = "none" /\ box.keyTimers = 0
   /\ ~lost /\ box.lastSearchValue # Label)
  => Squeezed[box.value] = Squeezed[box.lastSearchValue]

\* The list of categories does not vanish under the pointer, except by Enter
\* or Escape (search.js:162-166, 170-174).
StaysUnderPointer ==
  [][select /\ ~select' /\ pointer /\ pointer' => held' \in {"Enter", "Escape"}]_vars

\* Places of the document in the order in which they are displayed.
Before(p, q) ==
  \/ p[2] < q[2]
  \/ p[2] = q[2] /\ p[1] = "item" /\ q[1] = "child"
  \/ p[2] = q[2] /\ p[1] = "child" /\ q[1] = "child" /\ p[3] < q[3]

Preceding(p) == {q \in Displayed(doc) : Before(q, p)}
Following(p) == {q \in Displayed(doc) : Before(p, q)}

\* Down and Up move by one displayed line, whichever rows match and are open:
\* Down stays on the last one, Up leaves the first one for the field.  A
\* repetition of the key may be ignored (search.js:610-729).
ArrowsFollowOrder ==
  [][InFrame(focus) /\ held' \in {"Up", "Down"}
     /\ (held = "none" \/ focus' \notin {focus, Page}) =>
       \/ /\ held' = "Down" /\ focus' \in Following(focus)
          /\ Following(focus) \subseteq {focus'} \cup Following(focus')
       \/ held' = "Down" /\ Following(focus) = {} /\ focus' = focus
       \/ /\ held' = "Up" /\ focus' \in Preceding(focus)
          /\ Preceding(focus) \subseteq {focus'} \cup Preceding(focus')
       \/ held' = "Up" /\ Preceding(focus) = {} /\ focus' = Field]_vars

\* The keypress that comes with a keydown is not taken for a second key, also
\* when the events of the key before were split between the document and the
\* field (search.js:587-608).
FirstPressIgnored ==
  [][fresh /\ ~fresh' /\ held' = held => focus' = focus /\ doc'.open = doc.open]_vars
===============================================================================
