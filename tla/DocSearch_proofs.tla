---------------------------- MODULE DocSearch_proofs --------------------------
(***************************************************************************)
(* Proofs about DocSearch: what the parts of the panel have to do with     *)
(* each other, and what of a key is acted on, for any texts, categories    *)
(* and pages.                                                              *)
(***************************************************************************)
EXTENDS DocSearch, TLAPS

\* The box, with its parts in agreement.
Consistent(b) ==
  /\ b.window <=> b.close
  /\ ~b.window => b.lastSearchValue = ""
  /\ b.className = "MSearchBoxInactive" => b.value = Label /\ ~b.searchActive
  /\ b.className = "MSearchBoxActive" => b.searchActive

Shows(b) ==
  b.window =>
    \E category \in Categories : b.location = ResultsPage(category, b.lastSearchValue)

Stray(b) ==
  b.window /\ b.className = "MSearchBoxInactive" => b.lastSearchValue = Label

BoxInv(b) ==
  /\ b \in Boxes
  /\ b.keyTimeout => b.keyTimers > 0
  /\ Consistent(b)
  /\ Shows(b)
  /\ Stray(b)

Active(b) == b.className = "MSearchBoxActive"

-------------------------------------------------------------------------------
(* The methods of the box.                                                 *)

\* A search is sent to a page that there is.
LEMMA ResultsPageType ==
  ASSUME NEW category \in Categories, NEW text \in Texts
  PROVE  ResultsPage(category, text) \in Pages
<1>1. Indexed[category] \in Seq(Letters) /\ Indexed[category] # <<>>
  BY IndexedAssumption
<1>2. Indexed[category][1] \in Letters
  BY <1>1
<1>3. Initial[text] \in Letters
  BY TextAssumption
<1> QED
  BY <1>2, <1>3 DEF ResultsPage, Pages

\* Activation keeps the box consistent.
LEMMA ActivateInv ==
  ASSUME NEW b, BoxInv(b), NEW isActive \in BOOLEAN
  PROVE  BoxInv(Activate(b, isActive))
<1>1. "" \in Texts /\ Label \in Texts
  BY TextAssumption
<1>2. CASE isActive \/ b.window
  <2> DEFINE c == Activate(b, isActive)
  <2>1. c = [b EXCEPT !.className = "MSearchBoxActive",
                      !.value = IF b.value = Label THEN "" ELSE b.value,
                      !.searchActive = b.searchActive \/ b.value = Label]
    BY <1>2 DEF Activate
  <2>2. b.searchActive \/ b.value = Label
    BY DEF BoxInv, Consistent, Boxes
  <2>3. c \in Boxes /\ c.className = "MSearchBoxActive" /\ c.searchActive
        /\ c.window = b.window /\ c.close = b.close
        /\ c.lastSearchValue = b.lastSearchValue /\ c.location = b.location
        /\ c.keyTimeout = b.keyTimeout /\ c.keyTimers = b.keyTimers
    BY <1>1, <2>1, <2>2 DEF BoxInv, Boxes
  <2> HIDE DEF c
  <2>4. BoxInv(c)
    BY <2>3 DEF BoxInv, Consistent, Shows, Stray
  <2> QED
    BY <2>4 DEF c
<1>3. CASE ~(isActive \/ b.window)
  <2> DEFINE c == Activate(b, isActive)
  <2>1. c = [b EXCEPT !.className = "MSearchBoxInactive", !.value = Label,
                      !.searchActive = FALSE, !.lastSearchValue = ""]
    BY <1>3 DEF Activate
  <2>2. c \in Boxes /\ c.className = "MSearchBoxInactive" /\ c.searchActive = FALSE
        /\ c.value = Label /\ c.window = b.window /\ c.close = b.close
        /\ c.lastSearchValue = "" /\ ~c.window
        /\ c.keyTimeout = b.keyTimeout /\ c.keyTimers = b.keyTimers
    BY <1>1, <1>3, <2>1 DEF BoxInv, Boxes
  <2> HIDE DEF c
  <2>3. BoxInv(c)
    BY <2>2 DEF BoxInv, Consistent, Shows, Stray
  <2> QED
    BY <2>3 DEF c
<1> QED
  BY <1>2, <1>3

\* Entering the field activates the box.
LEMMA FocusedInv ==
  ASSUME NEW b, BoxInv(b)
  PROVE  BoxInv(Focused(b)) /\ Active(Focused(b))
<1>1. BoxInv(Focused(b))
  BY ActivateInv DEF Focused
<1>2. Active(Focused(b))
  BY DEF Focused, Activate, Active, BoxInv, Boxes
<1> QED
  BY <1>1, <1>2

\* Hiding the results together with what they were the results of.
LEMMA HiddenInv ==
  ASSUME NEW b, BoxInv(b)
  PROVE  /\ BoxInv([HideResults(b) EXCEPT !.lastSearchValue = ""])
         /\ Active(b) => Active([HideResults(b) EXCEPT !.lastSearchValue = ""])
<1> DEFINE c == [HideResults(b) EXCEPT !.lastSearchValue = ""]
<1>1. "" \in Texts
  BY TextAssumption
<1>2. /\ c \in Boxes /\ c.window = FALSE /\ c.close = FALSE /\ c.lastSearchValue = ""
      /\ c.className = b.className /\ c.value = b.value
      /\ c.searchActive = b.searchActive
      /\ c.keyTimeout = b.keyTimeout /\ c.keyTimers = b.keyTimers
  BY <1>1 DEF HideResults, BoxInv, Boxes
<1> HIDE DEF c
<1>3. BoxInv(c) /\ (Active(b) => Active(c))
  BY <1>2 DEF BoxInv, Consistent, Shows, Stray, Active
<1> QED
  BY <1>3 DEF c

\* Closing the results removes the panel.
LEMMA CloseInv ==
  ASSUME NEW b, BoxInv(b)
  PROVE  BoxInv(CloseResultsWindow(b))
<1> DEFINE h == [HideResults(b) EXCEPT !.lastSearchValue = ""]
<1>1. BoxInv(h)
  BY HiddenInv
<1>2. BoxInv(Activate(h, FALSE))
  BY <1>1, ActivateInv
<1>3. Activate(h, FALSE) = Activate(HideResults(b), FALSE)
  BY DEF Activate, HideResults, BoxInv, Boxes
<1> QED
  BY <1>2, <1>3 DEF CloseResultsWindow

\* Escape in the field.
LEMMA EscapeFieldInv ==
  ASSUME NEW b, BoxInv(b)
  PROVE  BoxInv(EscapeField(b))
<1>1. BoxInv(Blurred(b))
  BY ActivateInv DEF Blurred
<1>2. BoxInv([HideResults(Blurred(b)) EXCEPT !.lastSearchValue = ""])
  BY <1>1, HiddenInv
<1> QED
  BY <1>2, ActivateInv DEF EscapeField

\* A search shows the page of the text it remembers.
LEMMA SearchInv ==
  ASSUME NEW b, BoxInv(b)
  PROVE  BoxInv(Search(b)) /\ (Active(b) => Active(Search(b)))
<1> DEFINE c == Search(b)
           text == Trimmed[b.value]
<1>1. text \in Texts /\ Trimmed[Label] = Label
  BY TextAssumption DEF BoxInv, Boxes
<1>2. CASE Throws(b)
  <2>1. c = [b EXCEPT !.keyTimeout = FALSE]
    BY <1>2 DEF Search
  <2>2. /\ c \in Boxes /\ c.keyTimeout = FALSE
        /\ c.window = b.window /\ c.close = b.close /\ c.className = b.className
        /\ c.value = b.value /\ c.searchActive = b.searchActive
        /\ c.location = b.location /\ c.lastSearchValue = b.lastSearchValue
    BY <2>1 DEF BoxInv, Boxes
  <2> HIDE DEF c
  <2>3. BoxInv(c) /\ (Active(b) => Active(c))
    BY <2>2 DEF BoxInv, Consistent, Shows, Stray, Active
  <2> QED
    BY <2>3 DEF c
<1>3. CASE ~Throws(b)
  <2> DEFINE page == ResultsPage(b.searchIndex, text)
  <2>1. b.searchIndex \in Categories
    BY <1>3 DEF Throws
  <2>2. page \in Pages
    BY <1>1, <2>1, ResultsPageType
  <2>3. c = [b EXCEPT !.keyTimeout = FALSE, !.location = page, !.loading = TRUE,
                      !.window = TRUE, !.close = b.close \/ ~b.window,
                      !.lastSearchValue = text]
    BY <1>3 DEF Search
  <2> HIDE DEF page, text, c
  <2>4. /\ c \in Boxes /\ c.keyTimeout = FALSE
        /\ c.window = TRUE /\ c.close = TRUE /\ c.className = b.className
        /\ c.value = b.value /\ c.searchActive = b.searchActive
        /\ c.location = page /\ c.lastSearchValue = text
    BY <1>1, <2>2, <2>3 DEF BoxInv, Boxes, Consistent
  <2>5. Shows(c)
    BY <2>1, <2>4 DEF Shows, page
  <2>6. Stray(c)
    BY <1>1, <2>4 DEF Stray, BoxInv, Consistent, text
  <2>7. BoxInv(c) /\ (Active(b) => Active(c))
    BY <2>4, <2>5, <2>6 DEF BoxInv, Consistent, Active
  <2> QED
    BY <2>7 DEF c
<1> QED
  BY <1>2, <1>3

\* What concerns neither the panel nor the search does not disturb them.
LEMMA UnrelatedInv ==
  ASSUME NEW b, BoxInv(b), NEW c \in Boxes,
         c.keyTimeout => c.keyTimers > 0,
         c.window = b.window, c.close = b.close, c.className = b.className,
         c.value = b.value, c.searchActive = b.searchActive,
         c.location = b.location, c.lastSearchValue = b.lastSearchValue
  PROVE  BoxInv(c) /\ (Active(b) => Active(c))
BY DEF BoxInv, Consistent, Shows, Stray, Active

\* Timers are counted, and a timer that can be stopped is running.
LEMMA TimersInv ==
  ASSUME NEW b, BoxInv(b)
  PROVE  /\ BoxInv(KillKeyTimer(b)) /\ (Active(b) => Active(KillKeyTimer(b)))
         /\ BoxInv(StartKeyTimer(b)) /\ (Active(b) => Active(StartKeyTimer(b)))
<1>1. b.keyTimers \in Nat /\ (b.keyTimeout => b.keyTimers > 0)
  BY DEF BoxInv, Boxes
<1>2. BoxInv(StartKeyTimer(b)) /\ (Active(b) => Active(StartKeyTimer(b)))
  <2> DEFINE n == b.keyTimers + 1
             c == [b EXCEPT !.keyTimeout = TRUE, !.keyTimers = n]
  <2>0. n \in Nat /\ n > 0
    BY <1>1
  <2> HIDE DEF n
  <2>1. /\ c \in Boxes /\ c.keyTimers = n
        /\ c.window = b.window /\ c.close = b.close /\ c.className = b.className
        /\ c.value = b.value /\ c.searchActive = b.searchActive
        /\ c.location = b.location /\ c.lastSearchValue = b.lastSearchValue
    BY <2>0 DEF BoxInv, Boxes
  <2> HIDE DEF c
  <2>2. BoxInv(c) /\ (Active(b) => Active(c))
    BY <2>0, <2>1, UnrelatedInv
  <2> QED
    BY <2>2 DEF c, n, StartKeyTimer
<1>3. BoxInv(KillKeyTimer(b)) /\ (Active(b) => Active(KillKeyTimer(b)))
  <2>1. CASE ~b.keyTimeout
    BY <2>1 DEF KillKeyTimer
  <2>2. CASE b.keyTimeout
    <3> DEFINE c == [b EXCEPT !.keyTimeout = FALSE, !.keyTimers = @ - 1]
    <3>1. b.keyTimers - 1 \in Nat
      BY <1>1, <2>2
    <3>2. /\ c \in Boxes /\ c.keyTimeout = FALSE
          /\ c.window = b.window /\ c.close = b.close /\ c.className = b.className
          /\ c.value = b.value /\ c.searchActive = b.searchActive
          /\ c.location = b.location /\ c.lastSearchValue = b.lastSearchValue
      BY <3>1 DEF BoxInv, Boxes
    <3> HIDE DEF c
    <3>3. BoxInv(c) /\ (Active(b) => Active(c))
      BY <3>2, UnrelatedInv
    <3> QED
      BY <2>2, <3>3 DEF c, KillKeyTimer
  <2> QED
    BY <2>1, <2>2
<1> QED
  BY <1>2, <1>3

LEMMA CompareTextInv ==
  ASSUME NEW b, BoxInv(b)
  PROVE  BoxInv(CompareText(b)) /\ (Active(b) => Active(CompareText(b)))
BY TimersInv, HiddenInv DEF CompareText

\* The category may be one past the last.
LEMMA OnSelectItemInv ==
  ASSUME NEW b, BoxInv(b), NEW id \in 0 .. Count
  PROVE  BoxInv(OnSelectItem(b, id)) /\ (Active(b) => Active(OnSelectItem(b, id)))
<1> DEFINE c == [b EXCEPT !.searchIndex = id]
<1>1. /\ c \in Boxes /\ c.keyTimeout = b.keyTimeout /\ c.keyTimers = b.keyTimers
      /\ c.window = b.window /\ c.close = b.close /\ c.className = b.className
      /\ c.value = b.value /\ c.searchActive = b.searchActive
      /\ c.location = b.location /\ c.lastSearchValue = b.lastSearchValue
  BY DEF BoxInv, Boxes
<1> HIDE DEF c
<1>2. b.keyTimeout => b.keyTimers > 0
  BY DEF BoxInv
<1>3. BoxInv(c) /\ (Active(b) => Active(c))
  BY <1>1, <1>2, UnrelatedInv
<1>4. BoxInv(Search(c)) /\ (Active(b) => Active(Search(c)))
  BY <1>3, SearchInv
<1> QED
  BY <1>3, <1>4 DEF OnSelectItem, c

LEMMA CategoryInv ==
  ASSUME NEW b, BoxInv(b)
  PROVE  /\ BoxInv(NextCategory(b)) /\ BoxInv(PreviousCategory(b))
         /\ BoxInv(OnSelectItem(b, b.searchIndex))
<1>1. b.searchIndex \in 0 .. Count /\ Count \in Nat
  BY CountAssumption DEF BoxInv, Boxes
<1>2. BoxInv(NextCategory(b))
  <2>1. b.searchIndex < Count => b.searchIndex + 1 \in 0 .. Count
    BY <1>1
  <2> QED
    BY <2>1, OnSelectItemInv DEF NextCategory
<1>3. BoxInv(PreviousCategory(b))
  <2>1. b.searchIndex > 0 => b.searchIndex - 1 \in 0 .. Count
    BY <1>1
  <2> QED
    BY <2>1, OnSelectItemInv DEF PreviousCategory
<1> QED
  BY <1>1, <1>2, <1>3, OnSelectItemInv

LEMMA KeyTimerFiresInv ==
  ASSUME NEW b, BoxInv(b), b.keyTimers > 0
  PROVE  BoxInv(KeyTimerFires(b)) /\ (Active(b) => Active(KeyTimerFires(b)))
<1> DEFINE c == [b EXCEPT !.keyTimers = @ - 1]
           d == [c EXCEPT !.keyTimeout = FALSE]
<1>1. b.keyTimers - 1 \in Nat
  BY DEF BoxInv, Boxes
<1>2. /\ d \in Boxes /\ d.keyTimeout = FALSE
      /\ d.window = b.window /\ d.close = b.close /\ d.className = b.className
      /\ d.value = b.value /\ d.searchActive = b.searchActive
      /\ d.location = b.location /\ d.lastSearchValue = b.lastSearchValue
  BY <1>1 DEF BoxInv, Boxes
<1>3. Search(c) = Search(d)
  BY <1>1 DEF Search, Throws, BoxInv, Boxes
<1> HIDE DEF c, d
<1>4. BoxInv(d) /\ (Active(b) => Active(d))
  BY <1>2, UnrelatedInv
<1> QED
  BY <1>3, <1>4, SearchInv DEF KeyTimerFires, c

\* The focus activates the box whenever it gets to the field.
LEMMA MovedInv ==
  ASSUME NEW b, BoxInv(b), NEW from, NEW to
  PROVE  /\ BoxInv(Moved(b, from, to))
         /\ (from = Field => Active(b)) => (to = Field => Active(Moved(b, from, to)))
BY FocusedInv, ActivateInv DEF Moved, Blurred

LEMMA NewBoxInv == BoxInv(NewBox)
<1>1. BlankPage \in Pages /\ Label \in Texts /\ "" \in Texts
  BY TextAssumption DEF Pages
<1>2. 0 \in 0 .. Count /\ 0 \in Nat
  BY CountAssumption
<1>3. NewBox \in Boxes
  BY <1>1, <1>2 DEF NewBox, Boxes
<1> QED
  BY <1>3 DEF BoxInv, Consistent, Shows, Stray, NewBox

-------------------------------------------------------------------------------
(* The panel.                                                              *)

PanelInv == BoxInv(box) /\ (focus = Field => Active(box))

\* Keys of the frame, with whatever ProcessKeys makes of the document.
LEMMA NavKeyPanel ==
  ASSUME PanelInv, NEW d, NEW key, NavKey(d, key)
  PROVE  PanelInv'
<1>1. CASE \E to : Go(d, to)
  BY <1>1, MovedInv DEF Go, PanelInv
<1>2. CASE box' = box /\ focus' = focus
  BY <1>2 DEF PanelInv
<1>3. CASE focus' = Field /\ box' = Focused(CloseResultsWindow(box))
  <2>1. BoxInv(CloseResultsWindow(box))
    BY CloseInv DEF PanelInv
  <2> QED
    BY <1>3, <2>1, FocusedInv DEF PanelInv
<1> QED
  BY <1>1, <1>2, <1>3 DEF NavKey

LEMMA FollowLinkPanel ==
  ASSUME PanelInv, NEW place, FollowLink(place)
  PROVE  PanelInv'
<1>1. Page # Field
  BY DEF Page, Field
<1> QED
  BY <1>1, NewBoxInv DEF FollowLink, PanelInv

\* The end of a key in the field.
LEMMA FieldPanel ==
  ASSUME PanelInv, OnSearchFieldChange
  PROVE  PanelInv'
<1> DEFINE k == KillKeyTimer(box)
<1>1. BoxInv(k) /\ Active(k)
  BY TimersInv DEF PanelInv, OnSearchFieldChange
<1>2. Page # Field /\ Select # Field
  BY DEF Page, Field, Select
<1>3. CASE ToCategories
  <2>1. BoxInv(Blurred(k))
    BY <1>1, ActivateInv DEF Blurred
  <2> QED
    BY <1>2, <1>3, <2>1 DEF ToCategories, PanelInv
<1>4. CASE ToResults
  <2>1. PICK to : /\ box' = CompareText(Moved(k, Field, to))
                  /\ focus' = Settled(box', to)
    BY <1>4 DEF ToResults
  <2>2. BoxInv(Moved(k, Field, to)) /\ (to = Field => Active(Moved(k, Field, to)))
    BY <1>1, MovedInv
  <2>3. BoxInv(box') /\ (to = Field => Active(box'))
    BY <2>1, <2>2, CompareTextInv
  <2>4. focus' = Field => to = Field
    BY <1>2, <2>1 DEF Settled
  <2> QED
    BY <2>3, <2>4 DEF PanelInv
<1>5. CASE OutOfField
  BY <1>1, <1>2, <1>5, EscapeFieldInv DEF OutOfField, PanelInv
<1>6. CASE OtherKey
  BY <1>1, <1>6, CompareTextInv DEF OtherKey, PanelInv
<1> QED
  BY <1>3, <1>4, <1>5, <1>6 DEF OnSearchFieldChange

\* A key in the list of categories.
LEMMA SelectPanel ==
  ASSUME PanelInv, NEW key, OnSearchSelectKey(key)
  PROVE  PanelInv'
<1>1. Select # Field
  BY DEF Select, Field
<1>2. /\ BoxInv(NextCategory(box)) /\ BoxInv(PreviousCategory(box))
      /\ BoxInv(OnSelectItem(box, box.searchIndex))
  BY CategoryInv DEF PanelInv
<1>3. /\ BoxInv(Focused(OnSelectItem(box, box.searchIndex)))
      /\ Active(Focused(OnSelectItem(box, box.searchIndex)))
  BY <1>2, FocusedInv
<1>4. CASE focus' = Field /\ box' = Focused(OnSelectItem(box, box.searchIndex))
  BY <1>3, <1>4 DEF PanelInv
<1>5. CASE focus' = Select /\ box' \in {box, NextCategory(box), PreviousCategory(box),
                                       OnSelectItem(box, box.searchIndex)}
  BY <1>1, <1>2, <1>5 DEF PanelInv
<1> QED
  BY <1>4, <1>5 DEF OnSearchSelectKey

LEMMA PressPanel ==
  ASSUME PanelInv, NEW place, PressOn(place)
  PROVE  PanelInv'
BY MovedInv DEF PressOn, PanelInv

\* The parts of the panel agree in every order of events.
THEOREM PanelInvariance == Spec => []PanelInv
<1>1. Init => PanelInv
  <2>1. Page # Field
    BY DEF Page, Field
  <2> QED
    BY <2>1, NewBoxInv DEF Init, PanelInv
<1>2. PanelInv /\ [Next]_vars => PanelInv'
  <2> SUFFICES ASSUME PanelInv, [Next]_vars
               PROVE  PanelInv'
    OBVIOUS
  <2>1. CASE ClickField \/ ClickAway \/ PressOnCategory \/ PressOnResult
    BY <2>1, PressPanel DEF ClickField, ClickAway, PressOnCategory, PressOnResult
  <2>2. CASE ClickClose
    <3>1. Page # Field
      BY DEF Page, Field
    <3> QED
      BY <2>2, <3>1, CloseInv DEF ClickClose, PanelInv
  <2>3. CASE ClickCategory
    <3>1. \A category \in Categories : category \in 0 .. Count
      BY CountAssumption DEF Categories
    <3> QED
      BY <2>3, <3>1, OnSelectItemInv DEF ClickCategory, PanelInv
  <2>4. CASE ClickResult
    BY <2>4, FollowLinkPanel DEF ClickResult
  <2>5. CASE PointerIn \/ OnSearchSelectHide \/ CloseSelectionWindow
    <3>1. Page # Field
      BY DEF Page, Field
    <3> QED
      BY <2>5, <3>1
      DEF PointerIn, OnSearchSelectHide, CloseSelectionWindow, PanelInv
  <2>6. CASE Type \/ ChangeByMouse
    <3>1. PICK text \in Texts : box' = [box EXCEPT !.value = text]
      BY <2>6 DEF Type, ChangeByMouse
    <3>2. /\ box' \in Boxes /\ box'.className = box.className
          /\ box'.keyTimeout = box.keyTimeout /\ box'.keyTimers = box.keyTimers
          /\ box'.window = box.window /\ box'.close = box.close
          /\ box'.searchActive = box.searchActive
          /\ box'.location = box.location
          /\ box'.lastSearchValue = box.lastSearchValue
      BY <3>1 DEF PanelInv, BoxInv, Boxes
    <3>3. Active(box)
      BY <2>6 DEF Type, ChangeByMouse, PanelInv
    <3> QED
      BY <3>2, <3>3 DEF PanelInv, BoxInv, Consistent, Shows, Stray, Active
  <2>7. CASE KeyDown
    <3>1. PICK key \in Keys :
            KeyDownInField(key) \/ OnSearchSelectKey(key) \/ KeyDownInFrame(key)
      BY <2>7 DEF KeyDown
    <3>2. CASE KeyDownInField(key)
      BY <3>2 DEF KeyDownInField, PanelInv
    <3>3. CASE OnSearchSelectKey(key)
      BY <3>3, SelectPanel
    <3>4. CASE KeyDownInFrame(key)
      BY <3>4, FollowLinkPanel, NavKeyPanel DEF KeyDownInFrame
    <3> QED
      BY <3>1, <3>2, <3>3, <3>4
  <2>8. CASE KeyPressInFrame
    <3>1. CASE NavKey(doc, doc.lastKey)
      BY <3>1, NavKeyPanel
    <3>2. CASE UNCHANGED <<box, focus>>
      BY <3>2 DEF PanelInv
    <3> QED
      BY <2>8, <3>1, <3>2 DEF KeyPressInFrame
  <2>9. CASE KeyUp
    <3>1. CASE OnSearchFieldChange
      BY <3>1, FieldPanel
    <3>2. CASE UNCHANGED <<box, focus>>
      BY <3>2 DEF PanelInv
    <3> QED
      BY <2>9, <3>1, <3>2 DEF KeyUp, KeyUpInFrame
  <2>10. CASE KeyTimer
    BY <2>10, KeyTimerFiresInv DEF KeyTimer, PanelInv
  <2>11. CASE FrameLoads
    <3>1. Page # Field
      BY DEF Page, Field
    <3>2. box' = [box EXCEPT !.loading = FALSE]
      BY <2>11 DEF FrameLoads
    <3>3. /\ box' \in Boxes
          /\ box'.keyTimeout = box.keyTimeout /\ box'.keyTimers = box.keyTimers
          /\ box'.window = box.window /\ box'.close = box.close
          /\ box'.className = box.className /\ box'.value = box.value
          /\ box'.searchActive = box.searchActive
          /\ box'.location = box.location
          /\ box'.lastSearchValue = box.lastSearchValue
      BY <3>2 DEF PanelInv, BoxInv, Boxes
    <3>4. BoxInv(box') /\ (Active(box) => Active(box'))
      BY <3>3, UnrelatedInv DEF PanelInv, BoxInv
    <3>5. focus' = Field => focus = Field
      BY <2>11, <3>1 DEF FrameLoads
    <3> QED
      BY <3>4, <3>5 DEF PanelInv
  <2>12. CASE UNCHANGED vars
    BY <2>12 DEF vars, PanelInv
  <2> QED
    BY <2>1, <2>2, <2>3, <2>4, <2>5, <2>6, <2>7, <2>8, <2>9, <2>10, <2>11, <2>12
    DEF Next
<1> QED
  BY <1>1, <1>2, PTL DEF Spec

\* PanelConsistent, for any texts, categories and pages.
THEOREM PanelConsistentHolds == Spec => []PanelConsistent
<1>1. PanelInv => PanelConsistent
  BY DEF PanelInv, BoxInv, Consistent, PanelConsistent, Boxes
<1> QED
  BY <1>1, PanelInvariance, PTL

\* The page in the frame is the one of the last search.
THEOREM ShownIsLastSearchHolds == Spec => []ShownIsLastSearch
<1>1. PanelInv => ShownIsLastSearch
  BY DEF PanelInv, BoxInv, Shows, ShownIsLastSearch
<1> QED
  BY <1>1, PanelInvariance, PTL

\* Results under an idle box are those of the label.
THEOREM StrayIsLabelHolds == Spec => []StrayIsLabel
<1>1. PanelInv => StrayIsLabel
  BY DEF PanelInv, BoxInv, Stray, StrayIsLabel
<1> QED
  BY <1>1, PanelInvariance, PTL

-------------------------------------------------------------------------------
(* The list of categories.                                                 *)

PointerInv == hideTimer => ~pointer

\* The pointer is away while the timer runs, so that the list is closed under
\* it by Enter and Escape only.
THEOREM StaysUnderPointerHolds == Spec => StaysUnderPointer
<1> DEFINE Stays == select /\ ~select' /\ pointer /\ pointer'
                      => held' \in {"Enter", "Escape"}
<1>1. Init => PointerInv
  BY DEF Init, PointerInv
<1>2. PointerInv /\ [Next]_vars => PointerInv' /\ Stays
  <2> SUFFICES ASSUME PointerInv, [Next]_vars
               PROVE  PointerInv' /\ Stays
    OBVIOUS
  <2>1. CASE UNCHANGED list
    BY <2>1 DEF list, PointerInv
  <2>2. CASE PointerIn \/ OnSearchSelectHide \/ CloseSelectionWindow
    BY <2>2
    DEF PointerIn, OnSearchSelectShow, OnSearchSelectHide, CloseSelectionWindow,
        PointerInv
  <2>3. ASSUME NEW place, FollowLink(place)
        PROVE  PointerInv' /\ Stays
    BY <2>3 DEF FollowLink, list, PointerInv
  <2>4. CASE KeyDown
    <3>1. PICK key \in Keys :
            /\ held' = key
            /\ KeyDownInField(key) \/ OnSearchSelectKey(key) \/ KeyDownInFrame(key)
      BY <2>4 DEF KeyDown
    <3>2. CASE OnSearchSelectKey(key)
      BY <3>1, <3>2 DEF OnSearchSelectKey, PointerInv
    <3>3. CASE KeyDownInFrame(key)
      BY <3>3, <2>1, <2>3 DEF KeyDownInFrame
    <3>4. CASE KeyDownInField(key)
      BY <3>4, <2>1 DEF KeyDownInField
    <3> QED
      BY <3>1, <3>2, <3>3, <3>4
  <2>5. CASE KeyUp
    <3>1. CASE OnSearchFieldChange /\ ToCategories
      BY <3>1 DEF ToCategories, OnSearchSelectShow, PointerInv
    <3>2. CASE UNCHANGED list
      BY <3>2, <2>1
    <3> QED
      BY <2>5, <3>1, <3>2
      DEF KeyUp, KeyUpInFrame, OnSearchFieldChange, ToResults, OutOfField, OtherKey
  <2> QED
    BY <2>1, <2>2, <2>3, <2>4, <2>5
    DEF Next, vars, list, ClickField, ClickAway, PressOnCategory, PressOnResult,
        PressOn, ClickClose, ClickCategory, ClickResult, ChangeByMouse, Type,
        KeyPressInFrame, KeyTimer, FrameLoads
<1>3. Stays => [Stays]_vars
  OBVIOUS
<1> QED
  BY <1>1, <1>2, PTL DEF Spec, StaysUnderPointer

-------------------------------------------------------------------------------
(* Keypresses.                                                             *)

IsDoc(d) ==
  d \in [page : {d.page}, open : {d.open}, lastKey : {d.lastKey}, repeatOn : BOOLEAN]

\* Between a keydown and its keypress nothing is repeated; Enter is left to the
\* browser by both.
PressInv ==
  /\ IsDoc(doc)
  /\ fresh \in BOOLEAN
  /\ held = "none" => ~fresh
  /\ fresh /\ InFrame(focus) /\ held # "Enter" => ~doc.repeatOn

LEMMA DocOperators ==
  ASSUME NEW d, IsDoc(d), NEW e, NEW key, NEW page
  PROVE  /\ IsDoc(KeyDownIn(d, key)) /\ ~KeyDownIn(d, key).repeatOn
         /\ IsDoc(KeyUpIn(d))
         /\ IsDoc(KeyPressIn(d)) /\ KeyPressIn(d).open = d.open
         /\ IsDoc(NewDoc(page)) /\ ~NewDoc(page).repeatOn
         /\ IsDoc(Open(d, e)) /\ Open(d, e).repeatOn = d.repeatOn
         /\ IsDoc(Close(d, e)) /\ Close(d, e).repeatOn = d.repeatOn
<1>1. IsDoc(KeyDownIn(d, key)) /\ ~KeyDownIn(d, key).repeatOn
  BY DEF IsDoc, KeyDownIn
<1>2. IsDoc(KeyUpIn(d))
  BY DEF IsDoc, KeyUpIn
<1>3. IsDoc(KeyPressIn(d)) /\ KeyPressIn(d).open = d.open
  BY DEF IsDoc, KeyPressIn
<1>4. IsDoc(NewDoc(page)) /\ ~NewDoc(page).repeatOn
  BY DEF IsDoc, NewDoc
<1>5. IsDoc(Open(d, e)) /\ Open(d, e).repeatOn = d.repeatOn
  BY DEF IsDoc, Open
<1>6. IsDoc(Close(d, e)) /\ Close(d, e).repeatOn = d.repeatOn
  BY DEF IsDoc, Close
<1> QED
  BY <1>1, <1>2, <1>3, <1>4, <1>5, <1>6

LEMMA NavKeyPress ==
  ASSUME NEW d, IsDoc(d), NEW key, NavKey(d, key)
  PROVE  IsDoc(doc') /\ doc'.repeatOn = d.repeatOn
BY DocOperators DEF NavKey, Go

LEMMA FollowLinkPress ==
  ASSUME IsDoc(doc), NEW place, FollowLink(place)
  PROVE  IsDoc(doc')
BY DocOperators DEF FollowLink, Toggle

\* A keypress that comes with its keydown moves and opens nothing.
THEOREM FirstPressIgnoredHolds == Spec => FirstPressIgnored
<1> DEFINE Ignored == fresh /\ ~fresh' /\ held' = held
                        => focus' = focus /\ doc'.open = doc.open
<1>1. Init => PressInv
  <2> SUFFICES ASSUME Init PROVE PressInv
    OBVIOUS
  <2>1. IsDoc(doc) /\ ~doc.repeatOn
    BY DEF Init, IsDoc, NewDoc
  <2> QED
    BY <2>1 DEF Init, PressInv
<1>2. PressInv /\ [Next]_vars => PressInv' /\ Ignored
  <2> SUFFICES ASSUME PressInv, [Next]_vars
               PROVE  PressInv' /\ Ignored
    OBVIOUS
  <2>1. ~InFrame(Field) /\ ~InFrame(Page) /\ ~InFrame(Select)
    BY DEF InFrame, Field, Page, Select
  <2>2. ASSUME NEW place, PressOn(place)
        PROVE  PressInv' /\ Ignored
    BY <2>2 DEF PressOn, keys, PressInv
  <2>3. CASE \/ ClickClose \/ ClickCategory \/ ChangeByMouse
             \/ PointerIn \/ OnSearchSelectHide \/ KeyTimer
    BY <2>3
    DEF ClickClose, ClickCategory, ChangeByMouse, PointerIn, OnSearchSelectHide,
        KeyTimer, keys, PressInv
  <2>4. CASE ClickResult
    BY <2>4, FollowLinkPress DEF ClickResult, keys, PressInv
  <2>5. CASE Type
    BY <2>1, <2>5 DEF Type, PressInv
  <2>6. CASE KeyDown
    <3>1. PICK key \in Keys :
            /\ held' = key /\ fresh' = TRUE
            /\ KeyDownInField(key) \/ OnSearchSelectKey(key) \/ KeyDownInFrame(key)
      BY <2>6 DEF KeyDown, KeyDownInField, OnSearchSelectKey, KeyDownInFrame
    <3>2. key # "none"
      BY DEF Keys
    <3>3. CASE KeyDownInField(key)
      BY <2>1, <3>1, <3>2, <3>3 DEF KeyDownInField, PressInv
    <3>4. CASE OnSearchSelectKey(key)
      BY <2>1, <3>1, <3>2, <3>4 DEF OnSearchSelectKey, PressInv
    <3>5. CASE KeyDownInFrame(key)
      <4>1. CASE key = "Enter" /\ FollowLink(focus)
        BY <3>1, <4>1, FollowLinkPress DEF PressInv
      <4>2. CASE NavKey(KeyDownIn(doc, key), key)
        BY <3>1, <3>2, <4>2, DocOperators, NavKeyPress DEF PressInv
      <4> QED
        BY <3>5, <4>1, <4>2 DEF KeyDownInFrame
    <3> QED
      BY <3>1, <3>3, <3>4, <3>5
  <2>7. CASE KeyPressInFrame
    <3>1. fresh => ~ActsOnPress(doc)
      BY <2>7 DEF KeyPressInFrame, PressInv, ActsOnPress
    <3>2. IsDoc(doc')
      BY <2>7, DocOperators, NavKeyPress DEF KeyPressInFrame, PressInv
    <3> QED
      BY <2>7, <3>1, <3>2, DocOperators DEF KeyPressInFrame, PressInv
  <2>8. CASE KeyUp
    BY <2>8, DocOperators DEF KeyUp, KeyUpInFrame, OnSearchFieldChange, PressInv
  <2>9. CASE CloseSelectionWindow
    BY <2>1, <2>9 DEF CloseSelectionWindow, keys, PressInv
  <2>10. CASE FrameLoads
    BY <2>1, <2>10, DocOperators DEF FrameLoads, keys, PressInv
  <2>11. CASE UNCHANGED vars
    BY <2>11 DEF vars, PressInv
  <2> QED
    BY <2>2, <2>3, <2>4, <2>5, <2>6, <2>7, <2>8, <2>9, <2>10, <2>11
    DEF Next, ClickField, ClickAway, PressOnCategory, PressOnResult
<1> QED
  BY <1>1, <1>2, PTL DEF Spec, FirstPressIgnored
-------------------------------------------------------------------------------
(* No text is left unsearched.                                             *)

Idle(b) == b.className = "MSearchBoxInactive"

\* Nothing is under way, the last search was that of the text.
Searched(b) ==
  b.keyTimers = 0 /\ b.lastSearchValue # Label
    => b.value # Label /\ Squeezed[b.value] = Squeezed[b.lastSearchValue]

\* A letter was typed in the field, and its key is still down.
Typing == focus = Field /\ held = "Char"

\* Outside the field, the label is in an idle box only.
SearchesInv ==
  /\ focus # Field /\ box.value = Label => Idle(box)
  /\ ~lost /\ ~Typing => Searched(box) \/ (focus # Field /\ box.value = Label)

LEMMA FocusedSearched ==
  ASSUME NEW b, BoxInv(b), Searched(b) \/ (b.value = Label /\ Idle(b))
  PROVE  Searched(Focused(b))
<1> DEFINE c == Focused(b)
<1>1. /\ c.value = (IF b.value = Label THEN "" ELSE b.value)
      /\ c.lastSearchValue = b.lastSearchValue /\ c.keyTimers = b.keyTimers
  BY DEF Focused, Activate, BoxInv, Boxes
<1>2. CASE b.value = Label /\ Idle(b)
  <2>1. b.lastSearchValue \in {"", Label}
    BY <1>2 DEF BoxInv, Consistent, Stray, Idle
  <2> QED
    BY <1>1, <1>2, <2>1, TextAssumption DEF Searched
<1>3. CASE Searched(b)
  BY <1>1, <1>3 DEF Searched
<1> QED
  BY <1>2, <1>3

LEMMA BlurredSearched ==
  ASSUME NEW b, BoxInv(b)
  PROVE  /\ Blurred(b).value = Label => Idle(Blurred(b))
         /\ Searched(b) => Searched(Blurred(b)) \/ Blurred(b).value = Label
<1> DEFINE c == Blurred(b)
<1>1. CASE b.window
  <2>1. /\ c.value = (IF b.value = Label THEN "" ELSE b.value)
        /\ c.lastSearchValue = b.lastSearchValue /\ c.keyTimers = b.keyTimers
    BY <1>1 DEF Blurred, Activate, BoxInv, Boxes
  <2> QED
    BY <2>1, TextAssumption DEF Searched
<1>2. CASE ~b.window
  BY <1>2 DEF Blurred, Activate, BoxInv, Boxes, Idle
<1> QED
  BY <1>1, <1>2

\* Removing the panel, and entering the field after it.
LEMMA ClosedSearched ==
  ASSUME NEW b, BoxInv(b), ~b.window
  PROVE  Blurred(b).value = Label /\ Idle(Blurred(b))
BY DEF Blurred, Activate, BoxInv, Boxes, Idle

LEMMA CloseSearched ==
  ASSUME NEW b, BoxInv(b)
  PROVE  CloseResultsWindow(b).value = Label /\ Idle(CloseResultsWindow(b))
BY DEF CloseResultsWindow, HideResults, Activate, BoxInv, Boxes, Idle

LEMMA SearchSearched ==
  ASSUME NEW b \in Boxes
  PROVE  /\ Search(b).value = b.value /\ Search(b).className = b.className
         /\ Searched(b) \/ ~Throws(b) => Searched(Search(b))
<1> DEFINE c == Search(b)
<1>1. CASE Throws(b)
  <2>1. c = [b EXCEPT !.keyTimeout = FALSE]
    BY <1>1 DEF Search
  <2>2. /\ c.value = b.value /\ c.className = b.className
        /\ c.lastSearchValue = b.lastSearchValue /\ c.keyTimers = b.keyTimers
    BY <2>1 DEF Boxes
  <2> QED
    BY <1>1, <2>2 DEF Searched
<1>2. CASE ~Throws(b)
  <2>1. /\ c.value = b.value /\ c.className = b.className
        /\ c.lastSearchValue = Trimmed[b.value]
    BY <1>2 DEF Search, Boxes
  <2>2. b.value \in Texts
    BY DEF Boxes
  <2> QED
    BY <2>1, <2>2, TextAssumption DEF Searched
<1> QED
  BY <1>1, <1>2

LEMMA KilledSearched ==
  ASSUME NEW b, BoxInv(b)
  PROVE  /\ KillKeyTimer(b).value = b.value /\ KillKeyTimer(b).className = b.className
         /\ ~b.keyTimeout => KillKeyTimer(b) = b
BY DEF KillKeyTimer, BoxInv, Boxes

\* Comparing the text with the last search leaves nothing unsearched.
LEMMA CompareSearched ==
  ASSUME NEW b, BoxInv(b)
  PROVE  /\ CompareText(b).value = b.value /\ CompareText(b).className = b.className
         /\ Searched(CompareText(b))
<1> DEFINE text == Squeezed[b.value]
<1>1. /\ b.value \in Texts /\ b.keyTimers \in Nat
      /\ "" # Label /\ Squeezed[""] = "" /\ Squeezed[Label] = Label
      /\ Squeezed[text] = text
  BY TextAssumption DEF BoxInv, Boxes
<1>2. CASE text = b.lastSearchValue
  <2>1. CompareText(b) = b
    BY <1>2 DEF CompareText
  <2> QED
    BY <1>1, <1>2, <2>1 DEF Searched
<1>3. CASE text # b.lastSearchValue /\ text # ""
  <2>1. CompareText(b) = [b EXCEPT !.keyTimeout = TRUE, !.keyTimers = @ + 1]
    BY <1>3 DEF CompareText, StartKeyTimer
  <2>2. /\ CompareText(b).value = b.value /\ CompareText(b).className = b.className
        /\ CompareText(b).keyTimers = b.keyTimers + 1
    BY <2>1 DEF BoxInv, Boxes
  <2>3. \A n \in Nat : n + 1 # 0
    OBVIOUS
  <2> QED
    BY <1>1, <2>2, <2>3 DEF Searched
<1>4. CASE text # b.lastSearchValue /\ text = ""
  <2>1. CompareText(b) = [HideResults(b) EXCEPT !.lastSearchValue = ""]
    BY <1>4 DEF CompareText
  <2>2. /\ CompareText(b).value = b.value /\ CompareText(b).className = b.className
        /\ CompareText(b).lastSearchValue = ""
    BY <2>1 DEF HideResults, BoxInv, Boxes
  <2> QED
    BY <1>1, <1>4, <2>2 DEF Searched
<1> QED
  BY <1>2, <1>3, <1>4

\* Choosing a category searches for the text again, or leaves it.
LEMMA SelectSearched ==
  ASSUME NEW b, BoxInv(b), NEW id \in 0 .. Count
  PROVE  /\ OnSelectItem(b, id).value = b.value
         /\ OnSelectItem(b, id).className = b.className
         /\ Searched(b) => Searched(OnSelectItem(b, id))
<1> DEFINE c == [b EXCEPT !.searchIndex = id]
<1>1. /\ c \in Boxes /\ c.value = b.value /\ c.className = b.className
      /\ c.lastSearchValue = b.lastSearchValue /\ c.keyTimers = b.keyTimers
  BY DEF BoxInv, Boxes
<1> HIDE DEF c
<1>2. Searched(b) => Searched(c)
  BY <1>1 DEF Searched
<1> QED
  BY <1>1, <1>2, SearchSearched DEF OnSelectItem, c

LEMMA TimerSearched ==
  ASSUME NEW b, BoxInv(b), b.keyTimers > 0
  PROVE  /\ KeyTimerFires(b).value = b.value
         /\ KeyTimerFires(b).className = b.className
         /\ ~Throws(b) => Searched(KeyTimerFires(b))
<1> DEFINE c == [b EXCEPT !.keyTimers = @ - 1]
<1>1. b.keyTimers - 1 \in Nat
  BY DEF BoxInv, Boxes
<1>2. /\ c \in Boxes /\ c.value = b.value /\ c.className = b.className
      /\ c.searchIndex = b.searchIndex
  BY <1>1 DEF BoxInv, Boxes
<1> HIDE DEF c
<1>3. Throws(c) <=> Throws(b)
  BY <1>2 DEF Throws
<1> QED
  BY <1>2, <1>3, SearchSearched DEF KeyTimerFires, c
\* The box when the focus moves.
LEMMA MovedSearched ==
  ASSUME NEW b, BoxInv(b), NEW from, NEW to,
         from # Field /\ b.value = Label => Idle(b),
         Searched(b) \/ (from # Field /\ b.value = Label)
  PROVE  LET c == Moved(b, from, to)
         IN  /\ to # Field /\ c.value = Label => Idle(c)
             /\ Searched(c) \/ (to # Field /\ c.value = Label)
BY FocusedSearched, BlurredSearched DEF Moved

\* The same when a search was lost, or a key is down in the field.
LEMMA MovedLabel ==
  ASSUME NEW b, BoxInv(b), NEW from, NEW to,
         from # Field /\ b.value = Label => Idle(b)
  PROVE  to # Field /\ Moved(b, from, to).value = Label => Idle(Moved(b, from, to))
BY BlurredSearched DEF Moved

\* The condition on a box and the focus that SearchesInv states.
Tidy(b, place) ==
  /\ place # Field /\ b.value = Label => Idle(b)
  /\ Searched(b) \/ (place # Field /\ b.value = Label)

LEMMA TidyInv ==
  ASSUME Tidy(box', focus')
  PROVE  SearchesInv'
BY DEF Tidy, SearchesInv, Typing

LEMMA PlacesDiffer ==
  Page # Field /\ Select # Field /\ ~InFrame(Field) /\ ~InFrame(Page) /\ ~InFrame(Select)
BY DEF Page, Field, Select, InFrame

\* A step that leaves the text alone and moves the focus, but not from a field
\* in which a key is down.
LEMMA MoveSearches ==
  ASSUME PanelInv, SearchesInv, ~Typing, lost' = lost, NEW to,
         focus' = to, box' = Moved(box, focus, to)
  PROVE  SearchesInv'
<1>1. to # Field /\ box'.value = Label => Idle(box')
  BY MovedLabel DEF PanelInv, SearchesInv
<1>2. ~lost => Tidy(box', focus')
  BY MovedSearched DEF PanelInv, SearchesInv, Tidy
<1> QED
  BY <1>1, <1>2, TidyInv DEF SearchesInv

LEMMA NavKeySearches ==
  ASSUME PanelInv, SearchesInv, InFrame(focus), NEW d, NEW key, NavKey(d, key),
         lost' = lost
  PROVE  SearchesInv'
<1>0. ~Typing /\ focus # Field
  BY PlacesDiffer DEF Typing
<1>1. CASE \E to : Go(d, to)
  BY <1>0, <1>1, MoveSearches DEF Go
<1>2. CASE box' = box /\ focus' = focus
  BY <1>0, <1>2 DEF SearchesInv, Typing
<1>3. CASE focus' = Field /\ box' = Focused(CloseResultsWindow(box))
  <2>1. BoxInv(CloseResultsWindow(box))
    BY CloseInv DEF PanelInv
  <2>2. Searched(box')
    BY <1>3, <2>1, CloseSearched, FocusedSearched DEF PanelInv
  <2> QED
    BY <1>3, <2>2 DEF SearchesInv
<1> QED
  BY <1>1, <1>2, <1>3 DEF NavKey

LEMMA FollowLinkSearches ==
  ASSUME SearchesInv, InFrame(focus), NEW place, FollowLink(place)
  PROVE  SearchesInv'
<1>1. CASE UNCHANGED <<box, focus, lost>>
  BY <1>1, PlacesDiffer DEF SearchesInv, Typing
<1>2. CASE box' = NewBox /\ focus' = Page
  BY <1>2, PlacesDiffer DEF SearchesInv, NewBox, Idle
<1> QED
  BY <1>1, <1>2 DEF FollowLink

LEMMA FieldSearches ==
  ASSUME PanelInv, SearchesInv, OnSearchFieldChange
  PROVE  SearchesInv'
<1> DEFINE k == KillKeyTimer(box)
<1>1. BoxInv(k) /\ BoxInv(box) /\ focus = Field
  BY TimersInv DEF PanelInv, OnSearchFieldChange
<1>2. CASE ToCategories
  <2>1. focus' = Select /\ box' = Blurred(k) /\ held \in {"Down", "Enter"}
    BY <1>2 DEF ToCategories
  <2>2. box'.value = Label => Idle(box')
    BY <1>1, <2>1, BlurredSearched
  <2>3. ASSUME ~lost' PROVE Searched(box') \/ box'.value = Label
    <3>1. ~lost /\ ~box.keyTimeout
      BY <1>2, <2>3 DEF ToCategories
    <3>2. k = box /\ Searched(box)
      BY <1>1, <2>1, <3>1, KilledSearched DEF SearchesInv, Typing
    <3> QED
      BY <1>1, <2>1, <3>2, BlurredSearched
  <2> QED
    BY <2>1, <2>2, <2>3, PlacesDiffer DEF SearchesInv
<1>3. CASE ToResults
  <2>1. PICK to : /\ box' = CompareText(Moved(k, Field, to))
                  /\ focus' = Settled(box', to)
    BY <1>3 DEF ToResults
  <2>2. BoxInv(Moved(k, Field, to))
    BY <1>1, MovedInv
  <2>3. to # Field /\ Moved(k, Field, to).value = Label => Idle(Moved(k, Field, to))
    BY <1>1, MovedLabel
  <2>4. /\ box'.value = Moved(k, Field, to).value
        /\ box'.className = Moved(k, Field, to).className
        /\ Searched(box')
    BY <2>1, <2>2, CompareSearched
  <2>5. to = Field => focus' = Field
    BY <2>1, PlacesDiffer DEF Settled
  <2> QED
    BY <2>3, <2>4, <2>5 DEF SearchesInv, Idle
<1>4. CASE OutOfField
  <2> DEFINE b == [HideResults(Blurred(k)) EXCEPT !.lastSearchValue = ""]
  <2>1. BoxInv(Blurred(k))
    BY <1>1, ActivateInv DEF Blurred
  <2>2. BoxInv(b) /\ ~b.window
    BY <2>1, HiddenInv DEF HideResults, BoxInv, Boxes
  <2>3. box' = Blurred(b) /\ focus' = Page
    BY <1>4 DEF OutOfField, EscapeField, Blurred
  <2> HIDE DEF b
  <2> QED
    BY <2>2, <2>3, ClosedSearched, PlacesDiffer DEF SearchesInv
<1>5. CASE OtherKey
  <2>1. box' = CompareText(k) /\ focus' = Field
    BY <1>1, <1>5 DEF OtherKey
  <2> QED
    BY <1>1, <2>1, CompareSearched DEF SearchesInv
<1> QED
  BY <1>2, <1>3, <1>4, <1>5 DEF OnSearchFieldChange

\* A step that searches for another category, or leaves the box alone.
LEMMA CategorySearches ==
  ASSUME PanelInv, SearchesInv, focus = Select, NEW b, BoxInv(b),
         b.value = box.value, b.className = box.className,
         Searched(box) => Searched(b), lost' = lost
  PROVE  /\ focus' = Select /\ box' = b => SearchesInv'
         /\ focus' = Field /\ box' = Focused(b) => SearchesInv'
<1>1. /\ b.value = Label => Idle(b)
      /\ ~lost => Searched(b) \/ b.value = Label
  BY PlacesDiffer DEF SearchesInv, Typing, Idle
<1>2. ~lost => Searched(Focused(b))
  BY <1>1, FocusedSearched
<1> QED
  BY <1>1, <1>2, PlacesDiffer DEF SearchesInv

LEMMA SelectSearches ==
  ASSUME PanelInv, SearchesInv, NEW key, OnSearchSelectKey(key)
  PROVE  SearchesInv'
<1>1. focus = Select /\ lost' = lost
  BY DEF OnSearchSelectKey
<1>2. /\ BoxInv(box) /\ BoxInv(NextCategory(box)) /\ BoxInv(PreviousCategory(box))
      /\ BoxInv(OnSelectItem(box, box.searchIndex))
  BY CategoryInv DEF PanelInv
<1>3. box.searchIndex \in 0 .. Count /\ Count \in Nat
  BY CountAssumption DEF PanelInv, BoxInv, Boxes
<1> DEFINE Kept(b) == /\ b.value = box.value /\ b.className = box.className
                      /\ Searched(box) => Searched(b)
<1>4. Kept(OnSelectItem(box, box.searchIndex)) /\ Kept(box)
  BY <1>2, <1>3, SelectSearched
<1>5. Kept(NextCategory(box))
  <2>1. box.searchIndex < Count => box.searchIndex + 1 \in 0 .. Count
    BY <1>3
  <2> QED
    BY <1>2, <2>1, SelectSearched DEF NextCategory
<1>6. Kept(PreviousCategory(box))
  <2>1. box.searchIndex > 0 => box.searchIndex - 1 \in 0 .. Count
    BY <1>3
  <2> QED
    BY <1>2, <2>1, SelectSearched DEF PreviousCategory
<1>7. PICK b \in {box, NextCategory(box), PreviousCategory(box),
                  OnSelectItem(box, box.searchIndex)} :
        \/ focus' = Select /\ box' = b
        \/ focus' = Field /\ box' = Focused(b)
  BY DEF OnSearchSelectKey
<1> QED
  BY <1>1, <1>2, <1>4, <1>5, <1>6, <1>7, CategorySearches
LEMMA SearchesStart == Init => SearchesInv
<1> SUFFICES ASSUME Init PROVE SearchesInv
  OBVIOUS
<1>1. NewBox.value = Label /\ Idle(NewBox)
  BY DEF NewBox, Idle
<1>2. box = NewBox /\ focus = Page
  BY DEF Init
<1> QED
  BY <1>1, <1>2, PlacesDiffer DEF SearchesInv

LEMMA SearchesStep == PanelInv /\ SearchesInv /\ [Next]_vars => SearchesInv'
<1> SUFFICES ASSUME PanelInv, SearchesInv, [Next]_vars PROVE SearchesInv'
  OBVIOUS
<1>1. ASSUME NEW place, PressOn(place) PROVE SearchesInv'
  BY <1>1, MoveSearches DEF PressOn, Typing
<1>2. CASE ClickClose
  BY <1>2, CloseSearched, PlacesDiffer DEF ClickClose, PanelInv, SearchesInv
<1>3. CASE ClickCategory
  <2>1. PICK category \in Categories : box' = OnSelectItem(box, category)
    BY <1>3 DEF ClickCategory
  <2>2. category \in 0 .. Count
    BY CountAssumption DEF Categories
  <2> QED
    BY <1>3, <2>1, <2>2, OnSelectItemInv, SelectSearched, CategorySearches
    DEF ClickCategory, PanelInv
<1>4. CASE ClickResult
  BY <1>4, FollowLinkSearches DEF ClickResult
<1>5. CASE PointerIn \/ OnSearchSelectHide
  BY <1>5 DEF PointerIn, OnSearchSelectHide, SearchesInv, Typing, keys
<1>6. CASE Type
  BY <1>6 DEF Type, SearchesInv, Typing
<1>7. CASE KeyDown
  <2>1. PICK key \in Keys :
          /\ held \in {"none", key} /\ held' = key
          /\ KeyDownInField(key) \/ OnSearchSelectKey(key) \/ KeyDownInFrame(key)
    BY <1>7 DEF KeyDown
  <2>2. CASE KeyDownInField(key)
    BY <2>1, <2>2 DEF KeyDownInField, SearchesInv, Typing
  <2>3. CASE OnSearchSelectKey(key)
    BY <2>3, SelectSearches
  <2>4. CASE KeyDownInFrame(key)
    BY <2>4, FollowLinkSearches, NavKeySearches DEF KeyDownInFrame
  <2> QED
    BY <2>1, <2>2, <2>3, <2>4
<1>8. CASE KeyPressInFrame
  <2>1. CASE NavKey(doc, doc.lastKey)
    BY <1>8, <2>1, NavKeySearches DEF KeyPressInFrame
  <2>2. CASE UNCHANGED <<box, focus>>
    BY <1>8, <2>2, PlacesDiffer DEF KeyPressInFrame, SearchesInv, Typing
  <2> QED
    BY <1>8, <2>1, <2>2 DEF KeyPressInFrame
<1>9. CASE KeyUp
  <2>1. CASE OnSearchFieldChange
    BY <2>1, FieldSearches
  <2>2. CASE focus # Field /\ UNCHANGED <<box, focus, lost>>
    BY <2>2 DEF SearchesInv, Typing
  <2> QED
    BY <1>9, <2>1, <2>2, PlacesDiffer DEF KeyUp, KeyUpInFrame
<1>10. CASE KeyTimer
  <2>1. /\ box' = KeyTimerFires(box) /\ focus' = focus
        /\ ~lost' => ~lost /\ ~Throws(box)
    BY <1>10 DEF KeyTimer
  <2>2. /\ box'.value = box.value /\ box'.className = box.className
        /\ ~lost' => Searched(box')
    BY <1>10, <2>1, TimerSearched DEF KeyTimer, PanelInv
  <2> QED
    BY <2>1, <2>2 DEF SearchesInv, Idle
<1>11. CASE CloseSelectionWindow
  BY <1>11, PlacesDiffer DEF CloseSelectionWindow, SearchesInv, Typing, keys
<1>12. CASE FrameLoads
  <2>1. /\ box'.value = box.value /\ box'.className = box.className
        /\ box'.keyTimers = box.keyTimers /\ box'.lastSearchValue = box.lastSearchValue
    BY <1>12 DEF FrameLoads, PanelInv, BoxInv, Boxes
  <2>2. /\ UNCHANGED <<held, lost>>
        /\ focus' = Field <=> focus = Field
    BY <1>12, PlacesDiffer DEF FrameLoads, keys
  <2> QED
    BY <2>1, <2>2 DEF SearchesInv, Typing, Searched, Idle
<1>13. CASE UNCHANGED vars
  BY <1>13 DEF vars, SearchesInv, Typing, Searched, Idle
<1>14. CASE ChangeByMouse
  BY <1>14, PlacesDiffer DEF ChangeByMouse, SearchesInv, Typing, keys
<1> QED
  BY <1>1, <1>2, <1>3, <1>4, <1>5, <1>6, <1>7, <1>8, <1>9, <1>10, <1>11, <1>12, <1>13,
     <1>14 DEF Next, ClickField, ClickAway, PressOnCategory, PressOnResult

\* Open results are those of the text, and a text has its results, whatever the
\* order of keys, clicks and timers, but for the searches that the code loses
\* (search.js:179-237, 285, 346, 407).
THEOREM NothingLeftUnsearchedHolds == Spec => []NothingLeftUnsearched
<1>1. Spec => []SearchesInv
  BY SearchesStart, SearchesStep, PanelInvariance, PTL DEF Spec
<1>2. SearchesInv => NothingLeftUnsearched
  BY DEF SearchesInv, Typing, Searched, NothingLeftUnsearched
<1> QED
  BY <1>1, <1>2, PTL
-------------------------------------------------------------------------------
(* What is displayed.                                                      *)

\* The pages that searches are sent to are those of the indexes.
IsIndexed(page) ==
  HasResults(page) =>
    /\ page.category \in Categories
    /\ \E i \in DOMAIN Indexed[page.category] : page.letter = Indexed[page.category][i]

Located(b) == IsIndexed(b.location)

\* Rows that are open have children.
DocInv(d) ==
  /\ d \in Docs /\ IsIndexed(d.page)
  /\ \A e \in d.open : e \in Rows(d.page) /\ Row(d.page, e).children > 0

\* What has the focus is displayed, and a key that is down in the frame is the
\* one the document acts on.  The timers stay within their bound.
FrameInv ==
  /\ Located(box) /\ box.keyTimers <= MaxTimers
  /\ DocInv(doc)
  /\ held \in Keys \cup {"none"}
  /\ focus \in {Field, Page, Select} \cup Displayed(doc)
  /\ InFrame(focus) => box.window
  /\ InFrame(focus) /\ held \notin {"none", "Enter"} => doc.lastKey = held

LEMMA RowTypes ==
  ASSUME NEW page, IsIndexed(page), NEW e \in Rows(page)
  PROVE  e \in Nat /\ Row(page, e).children \in Nat
<1>1. HasResults(page)
  BY DEF Rows
<1>2. PICK i \in DOMAIN Indexed[page.category] :
        page.letter = Indexed[page.category][i]
  BY <1>1 DEF IsIndexed
<1> DEFINE rows == Content[page.category][page.letter]
<1>3. Len(rows) \in Nat /\ \A f \in 0 .. Len(rows) - 1 : rows[f + 1].children \in Nat
  BY <1>1, <1>2, ContentAssumption DEF IsIndexed
<1>4. e \in 0 .. Len(rows) - 1
  BY <1>1 DEF Rows
<1> HIDE DEF rows
<1>5. e \in Nat /\ rows[e + 1].children \in Nat
  BY <1>3, <1>4
<1> QED
  BY <1>5 DEF Row, rows

\* A place that is displayed is a row that matches, or a child of one that is
\* open.
LEMMA DisplayedPlace ==
  ASSUME NEW d, NEW p \in Displayed(d)
  PROVE  \/ \E e \in Visible(d.page) : p = Item(e)
         \/ \E e \in d.open \cap Visible(d.page) :
              \E c \in 0 .. Row(d.page, e).children - 1 : p = Child(e, c)
BY DEF Displayed, Children

LEMMA PlaceParts ==
  ASSUME NEW e, NEW c
  PROVE  /\ Item(e)[1] = "item" /\ Item(e)[2] = e
         /\ Child(e, c)[1] = "child" /\ Child(e, c)[2] = e /\ Child(e, c)[3] = c
         /\ InFrame(Item(e)) /\ InFrame(Child(e, c))
BY DEF Item, Child, InFrame

LEMMA DisplayedInFrame ==
  ASSUME NEW d, NEW p \in Displayed(d)
  PROVE  InFrame(p) /\ p[2] \in Visible(d.page)
BY DisplayedPlace, PlaceParts

\* What is displayed depends on the page and on the rows that are open.
LEMMA SameDisplayed ==
  ASSUME NEW d, NEW c, c.page = d.page, c.open = d.open
  PROVE  Displayed(c) = Displayed(d)
BY DEF Displayed, Children

\* Opening and closing a row does not hide the row.
LEMMA OpenDoc ==
  ASSUME NEW d, DocInv(d), NEW e \in Rows(d.page)
  PROVE  /\ DocInv(Open(d, e)) /\ Open(d, e).page = d.page
         /\ Open(d, e).lastKey = d.lastKey
         /\ DocInv(Close(d, e)) /\ Close(d, e).page = d.page
         /\ Close(d, e).lastKey = d.lastKey
<1>1. e \in Nat
  BY RowTypes DEF DocInv
<1>2. DocInv(Close(d, e)) /\ Close(d, e).page = d.page /\ Close(d, e).lastKey = d.lastKey
  <2> DEFINE c == Close(d, e)
  <2>1. /\ c \in Docs /\ c.page = d.page /\ c.open = d.open \ {e}
        /\ c.lastKey = d.lastKey
    BY DEF Close, DocInv, Docs
  <2> HIDE DEF c
  <2>2. DocInv(c) /\ c.page = d.page /\ c.lastKey = d.lastKey
    BY <2>1 DEF DocInv
  <2> QED
    BY <2>2 DEF c
<1>3. DocInv(Open(d, e)) /\ Open(d, e).page = d.page /\ Open(d, e).lastKey = d.lastKey
  <2>1. CASE Row(d.page, e).children > 0
    <3> DEFINE c == Open(d, e)
    <3>1. c = [d EXCEPT !.open = @ \cup {e}]
      BY <2>1 DEF Open
    <3>2. /\ c \in Docs /\ c.page = d.page /\ c.open = d.open \cup {e}
          /\ c.lastKey = d.lastKey
      BY <1>1, <3>1 DEF DocInv, Docs
    <3> HIDE DEF c
    <3>3. DocInv(c) /\ c.page = d.page /\ c.lastKey = d.lastKey
      BY <2>1, <3>2 DEF DocInv
    <3> QED
      BY <3>3 DEF c
  <2>2. CASE ~(Row(d.page, e).children > 0)
    BY <2>2 DEF Open
  <2> QED
    BY <2>1, <2>2
<1> QED
  BY <1>2, <1>3

\* Keys change neither the page nor the rows that are open.
LEMMA KeyDoc ==
  ASSUME NEW d, DocInv(d), NEW key \in Keys
  PROVE  /\ DocInv(KeyDownIn(d, key)) /\ Displayed(KeyDownIn(d, key)) = Displayed(d)
         /\ KeyDownIn(d, key).page = d.page /\ KeyDownIn(d, key).open = d.open
         /\ KeyDownIn(d, key).lastKey = key
         /\ DocInv(KeyUpIn(d)) /\ Displayed(KeyUpIn(d)) = Displayed(d)
         /\ DocInv(KeyPressIn(d)) /\ Displayed(KeyPressIn(d)) = Displayed(d)
         /\ KeyPressIn(d).lastKey = d.lastKey
<1>1. ASSUME NEW c \in Docs, c.page = d.page, c.open = d.open
      PROVE  DocInv(c) /\ Displayed(c) = Displayed(d)
  BY <1>1, SameDisplayed DEF DocInv
<1>2. /\ KeyDownIn(d, key) \in Docs /\ KeyDownIn(d, key).page = d.page
      /\ KeyDownIn(d, key).open = d.open /\ KeyDownIn(d, key).lastKey = key
  BY DEF KeyDownIn, DocInv, Docs
<1>3. /\ KeyUpIn(d) \in Docs /\ KeyUpIn(d).page = d.page /\ KeyUpIn(d).open = d.open
  BY DEF KeyUpIn, DocInv, Docs
<1>4. /\ KeyPressIn(d) \in Docs /\ KeyPressIn(d).page = d.page
      /\ KeyPressIn(d).open = d.open /\ KeyPressIn(d).lastKey = d.lastKey
  BY DEF KeyPressIn, DocInv, Docs
<1> QED
  BY <1>1, <1>2, <1>3, <1>4

LEMMA NewDocInv ==
  ASSUME NEW page \in Pages, IsIndexed(page)
  PROVE  DocInv(NewDoc(page))
<1>1. /\ NewDoc(page) \in Docs /\ NewDoc(page).page = page
      /\ NewDoc(page).open = {}
  BY DEF NewDoc, Docs
<1> QED
  BY <1>1 DEF DocInv
-------------------------------------------------------------------------------
(* The box and the frame.                                                  *)

LEMMA ResultsIndexed ==
  ASSUME NEW category \in Categories, NEW text
  PROVE  IsIndexed(ResultsPage(category, text))
<1> DEFINE page(letter) == [category |-> category, letter |-> letter, query |-> text]
<1>1. ASSUME NEW i \in DOMAIN Indexed[category] PROVE IsIndexed(page(Indexed[category][i]))
  BY <1>1 DEF IsIndexed
<1>2. 1 \in DOMAIN Indexed[category]
  BY IndexedAssumption
<1>3. IsIndexed(NoMatches)
  BY DEF IsIndexed, HasResults
<1> QED
  BY <1>1, <1>2, <1>3 DEF ResultsPage

\* The methods of the box leave the frame where it is, or send it to a page of
\* an index.
LEMMA ActivateFrame ==
  ASSUME NEW b, BoxInv(b), NEW isActive \in BOOLEAN
  PROVE  /\ Activate(b, isActive).location = b.location
         /\ Activate(b, isActive).window = b.window
         /\ Activate(b, isActive).keyTimers = b.keyTimers
BY DEF Activate, BoxInv, Boxes

LEMMA MovedFrame ==
  ASSUME NEW b, BoxInv(b), NEW from, NEW to
  PROVE  /\ Moved(b, from, to).location = b.location
         /\ Moved(b, from, to).window = b.window
         /\ Moved(b, from, to).keyTimers = b.keyTimers
BY ActivateFrame DEF Moved, Focused, Blurred

LEMMA CloseFrame ==
  ASSUME NEW b, BoxInv(b)
  PROVE  /\ CloseResultsWindow(b).location = b.location
         /\ CloseResultsWindow(b).keyTimers = b.keyTimers
BY DEF CloseResultsWindow, HideResults, Activate, BoxInv, Boxes

LEMMA SearchFrame ==
  ASSUME NEW b \in Boxes
  PROVE  /\ Located(b) => Located(Search(b))
         /\ b.window => Search(b).window
         /\ Search(b).keyTimers = b.keyTimers
<1> DEFINE c == Search(b)
<1>1. CASE Throws(b)
  <2>1. c = [b EXCEPT !.keyTimeout = FALSE]
    BY <1>1 DEF Search
  <2>2. c.location = b.location /\ c.window = b.window /\ c.keyTimers = b.keyTimers
    BY <2>1 DEF Boxes
  <2> QED
    BY <2>2 DEF Located
<1>2. CASE ~Throws(b)
  <2>1. /\ c.location = ResultsPage(b.searchIndex, Trimmed[b.value])
        /\ c.window = TRUE /\ c.keyTimers = b.keyTimers
    BY <1>2 DEF Search, Boxes
  <2> QED
    BY <1>2, <2>1, ResultsIndexed DEF Located, Throws
<1> QED
  BY <1>1, <1>2

LEMMA TimersFrame ==
  ASSUME NEW b, BoxInv(b)
  PROVE  /\ KillKeyTimer(b).location = b.location /\ KillKeyTimer(b).window = b.window
         /\ KillKeyTimer(b).keyTimers <= b.keyTimers
         /\ StartKeyTimer(b).location = b.location
         /\ StartKeyTimer(b).window = b.window
         /\ StartKeyTimer(b).keyTimers = b.keyTimers + 1
<1>1. b.keyTimers \in Nat /\ b.keyTimers - 1 <= b.keyTimers
  BY DEF BoxInv, Boxes
<1>2. /\ KillKeyTimer(b).location = b.location /\ KillKeyTimer(b).window = b.window
      /\ KillKeyTimer(b).keyTimers \in {b.keyTimers, b.keyTimers - 1}
  BY DEF KillKeyTimer, BoxInv, Boxes
<1>3. /\ StartKeyTimer(b).location = b.location
      /\ StartKeyTimer(b).window = b.window
      /\ StartKeyTimer(b).keyTimers = b.keyTimers + 1
  BY DEF StartKeyTimer, BoxInv, Boxes
<1> QED
  BY <1>1, <1>2, <1>3

LEMMA CompareFrame ==
  ASSUME NEW b, BoxInv(b)
  PROVE  /\ CompareText(b).location = b.location
         /\ CompareText(b).keyTimers \in {b.keyTimers, b.keyTimers + 1}
<1>1. /\ [HideResults(b) EXCEPT !.lastSearchValue = ""].location = b.location
      /\ [HideResults(b) EXCEPT !.lastSearchValue = ""].keyTimers = b.keyTimers
  BY DEF HideResults, BoxInv, Boxes
<1> QED
  BY <1>1, TimersFrame DEF CompareText

LEMMA SelectFrame ==
  ASSUME NEW b, BoxInv(b), Located(b), NEW id \in 0 .. Count
  PROVE  /\ Located(OnSelectItem(b, id))
         /\ OnSelectItem(b, id).keyTimers = b.keyTimers
<1> DEFINE c == [b EXCEPT !.searchIndex = id]
<1>1. c \in Boxes /\ c.location = b.location /\ c.keyTimers = b.keyTimers
  BY DEF BoxInv, Boxes
<1> HIDE DEF c
<1> QED
  BY <1>1, SearchFrame DEF OnSelectItem, Located, c

LEMMA CategoryFrame ==
  ASSUME NEW b, BoxInv(b), Located(b),
         NEW c \in {b, NextCategory(b), PreviousCategory(b), OnSelectItem(b, b.searchIndex)}
  PROVE  Located(c) /\ c.keyTimers = b.keyTimers
<1>1. b.searchIndex \in 0 .. Count /\ Count \in Nat
  BY CountAssumption DEF BoxInv, Boxes
<1>2. /\ b.searchIndex < Count => b.searchIndex + 1 \in 0 .. Count
      /\ b.searchIndex > 0 => b.searchIndex - 1 \in 0 .. Count
  BY <1>1
<1> QED
  BY <1>1, <1>2, SelectFrame DEF NextCategory, PreviousCategory

LEMMA TimerFrame ==
  ASSUME NEW b, BoxInv(b), b.keyTimers > 0
  PROVE  /\ Located(b) => Located(KeyTimerFires(b))
         /\ b.window => KeyTimerFires(b).window
         /\ KeyTimerFires(b).keyTimers = b.keyTimers - 1
<1> DEFINE c == [b EXCEPT !.keyTimers = @ - 1]
<1>1. b.keyTimers - 1 \in Nat
  BY DEF BoxInv, Boxes
<1>2. /\ c \in Boxes /\ c.location = b.location /\ c.window = b.window
      /\ c.keyTimers = b.keyTimers - 1
  BY <1>1 DEF BoxInv, Boxes
<1> HIDE DEF c
<1> QED
  BY <1>2, SearchFrame DEF KeyTimerFires, Located, c
\* The conjuncts of FrameInv but the ones about the key.
Framed(b, d, place) ==
  /\ Located(b) /\ b.keyTimers <= MaxTimers
  /\ DocInv(d)
  /\ place \in {Field, Page, Select} \cup Displayed(d)
  /\ InFrame(place) => b.window

LEMMA FramedInv ==
  ASSUME Framed(box', doc', focus'), held' \in Keys \cup {"none"},
         InFrame(focus') /\ held' \notin {"none", "Enter"} => doc'.lastKey = held'
  PROVE  FrameInv'
BY DEF Framed, FrameInv

LEMMA InvFramed ==
  ASSUME FrameInv
  PROVE  Framed(box, doc, focus)
BY DEF Framed, FrameInv

LEMMA StaysFrame ==
  ASSUME FrameInv, UNCHANGED <<box, doc, focus, held>>
  PROVE  FrameInv'
BY InvFramed, FramedInv DEF FrameInv

LEMMA VisibleRows ==
  ASSUME NEW page, NEW e \in Visible(page)
  PROVE  e \in Rows(page)
BY DEF Visible

LEMMA ItemDisplayed ==
  ASSUME NEW d, NEW p \in Displayed(d), p[1] = "item"
  PROVE  /\ p[2] \in Visible(d.page) /\ p[2] \in Rows(d.page)
         /\ \A c : c.page = d.page => p \in Displayed(c)
<1>1. PICK e \in Visible(d.page) : p = Item(e)
  BY DisplayedPlace, PlaceParts
<1> QED
  BY <1>1, PlaceParts, VisibleRows DEF Displayed

LEMMA PressFrame ==
  ASSUME PanelInv, FrameInv, NEW place \in {Field, Page, Select} \cup Displayed(doc),
         InFrame(place) => box.window, PressOn(place)
  PROVE  FrameInv'
<1>1. box' = Moved(box, focus, place) /\ doc' = doc /\ focus' = place /\ held' = "none"
  BY DEF PressOn, keys
<1>2. box'.location = box.location /\ box'.window = box.window
      /\ box'.keyTimers = box.keyTimers
  BY <1>1, MovedFrame DEF PanelInv
<1>3. Framed(box', doc', focus')
  BY <1>1, <1>2, InvFramed DEF Framed, Located
<1> QED
  BY <1>1, <1>3, FramedInv

LEMMA NewPageFramed == Framed(NewBox, NewDoc(BlankPage), Page)
<1>1. BlankPage \in Pages /\ IsIndexed(BlankPage)
  BY DEF Pages, IsIndexed, HasResults
<1>2. NewBox.location = BlankPage /\ NewBox.keyTimers = 0
  BY DEF NewBox
<1>3. 0 <= MaxTimers
  BY MaxTimersAssumption
<1> QED
  BY <1>1, <1>2, <1>3, NewDocInv, PlacesDiffer DEF Framed, Located

LEMMA FollowLinkFrame ==
  ASSUME FrameInv, InFrame(focus), FollowLink(focus)
  PROVE  Framed(box', doc', focus')
<1>1. focus \in Displayed(doc)
  BY PlacesDiffer DEF FrameInv
<1>2. CASE focus[1] = "item" /\ doc' = Toggle(doc, focus[2])
            /\ UNCHANGED <<box, focus>>
  <2>1. focus[2] \in Rows(doc.page) /\ DocInv(doc)
    BY <1>1, <1>2, ItemDisplayed DEF FrameInv
  <2>2. DocInv(doc') /\ doc'.page = doc.page
    BY <1>2, <2>1, OpenDoc DEF Toggle
  <2>3. focus \in Displayed(doc')
    BY <1>1, <1>2, <2>2, ItemDisplayed
  <2> QED
    BY <1>2, <2>2, <2>3, InvFramed DEF Framed
<1>3. CASE box' = NewBox /\ doc' = NewDoc(BlankPage) /\ focus' = Page
  BY <1>3, NewPageFramed
<1> QED
  BY <1>2, <1>3 DEF FollowLink

LEMMA NavKeyFrame ==
  ASSUME PanelInv, FrameInv, InFrame(focus), NEW d, NEW key, NavKey(d, key),
         DocInv(d), Displayed(d) = Displayed(doc)
  PROVE  Framed(box', doc', focus') /\ doc'.lastKey = d.lastKey
<1>1. focus \in Displayed(d) /\ box.window /\ BoxInv(box)
      /\ Located(box) /\ box.keyTimers <= MaxTimers
  BY PlacesDiffer DEF FrameInv, PanelInv
<1>2. CASE \E to : Go(d, to)
  <2>1. /\ doc' = d /\ box' = Moved(box, focus, focus')
        /\ focus' \in {Field} \cup Displayed(d)
    BY <1>1, <1>2 DEF Go
  <2>2. /\ box'.location = box.location /\ box'.window = box.window
        /\ box'.keyTimers = box.keyTimers
    BY <1>1, <2>1, MovedFrame
  <2> QED
    BY <1>1, <2>1, <2>2 DEF Framed, Located
<1>3. CASE focus[1] = "item" /\ doc' \in {Open(d, focus[2]), Close(d, focus[2])}
            /\ UNCHANGED <<box, focus>>
  <2>1. focus[2] \in Rows(d.page)
    BY <1>1, <1>3, ItemDisplayed
  <2>2. DocInv(doc') /\ doc'.page = d.page /\ doc'.lastKey = d.lastKey
    BY <1>3, <2>1, OpenDoc
  <2>3. focus \in Displayed(doc')
    BY <1>1, <1>3, <2>2, ItemDisplayed
  <2> QED
    BY <1>1, <1>3, <2>2, <2>3 DEF Framed
<1>4. CASE doc' = d /\ focus' = Field /\ box' = Focused(CloseResultsWindow(box))
  <2>1. BoxInv(CloseResultsWindow(box))
    BY <1>1, CloseInv
  <2>2. box'.location = box.location /\ box'.keyTimers = box.keyTimers
    BY <1>1, <1>4, <2>1, ActivateFrame, CloseFrame DEF Focused
  <2> QED
    BY <1>1, <1>4, <2>2, PlacesDiffer DEF Framed, Located
<1>5. CASE doc' = d /\ UNCHANGED <<box, focus>>
  BY <1>1, <1>5 DEF Framed
<1> QED
  BY <1>2, <1>3, <1>4, <1>5 DEF NavKey

\* The end of a key in the field.
LEMMA FieldFrame ==
  ASSUME PanelInv, FrameInv, OnSearchFieldChange
  PROVE  Framed(box', doc', focus')
<1> DEFINE k == KillKeyTimer(box)
<1>1. /\ BoxInv(k) /\ BoxInv(box) /\ Located(k) /\ k.keyTimers < MaxTimers
      /\ k.keyTimers \in Nat /\ doc' = doc /\ DocInv(doc)
  BY TimersInv, TimersFrame
  DEF PanelInv, FrameInv, OnSearchFieldChange, Located, BoxInv, Boxes
<1>2. ASSUME NEW b, BoxInv(b), b.location = k.location, b.keyTimers = k.keyTimers
      PROVE  /\ Located(CompareText(b)) /\ CompareText(b).keyTimers <= MaxTimers
             /\ Located(b) /\ b.keyTimers <= MaxTimers
  <2>1. CompareText(b).keyTimers \in {k.keyTimers, k.keyTimers + 1}
    BY <1>2, CompareFrame
  <2>2. MaxTimers \in Nat
    BY MaxTimersAssumption
  <2>3. CompareText(b).keyTimers <= MaxTimers
    BY <1>1, <2>1, <2>2
  <2>4. b.keyTimers <= MaxTimers
    BY <1>1, <1>2, <2>2
  <2> QED
    BY <1>1, <1>2, <2>3, <2>4, CompareFrame DEF Located
<1>3. CASE ToCategories
  <2>1. focus' = Select /\ box' = Blurred(k)
    BY <1>3 DEF ToCategories
  <2>2. BoxInv(Blurred(k)) /\ Blurred(k).location = k.location
        /\ Blurred(k).keyTimers = k.keyTimers
    BY <1>1, ActivateInv, ActivateFrame DEF Blurred
  <2>3. Located(box') /\ box'.keyTimers <= MaxTimers
    BY <1>2, <2>1, <2>2
  <2> QED
    BY <1>1, <2>1, <2>3, PlacesDiffer DEF Framed
<1>4. CASE ToResults
  <2>1. PICK to : /\ box' = CompareText(Moved(k, Field, to))
                  /\ focus' = Settled(box', to)
                  /\ to \in {Field} \cup Displayed(doc)
    BY <1>4 DEF ToResults
  <2>2. BoxInv(Moved(k, Field, to)) /\ Moved(k, Field, to).location = k.location
        /\ Moved(k, Field, to).keyTimers = k.keyTimers
    BY <1>1, MovedInv, MovedFrame
  <2>3. Located(box') /\ box'.keyTimers <= MaxTimers
    BY <1>2, <2>1, <2>2
  <2>4. focus' \in {Field, Page, Select} \cup Displayed(doc)
        /\ (InFrame(focus') => box'.window)
    BY <2>1, PlacesDiffer DEF Settled
  <2> QED
    BY <1>1, <2>3, <2>4 DEF Framed
<1>5. CASE OutOfField
  <2> DEFINE h == [HideResults(Blurred(k)) EXCEPT !.lastSearchValue = ""]
  <2>1. BoxInv(Blurred(k)) /\ Blurred(k).location = k.location
        /\ Blurred(k).keyTimers = k.keyTimers
    BY <1>1, ActivateInv, ActivateFrame DEF Blurred
  <2>2. BoxInv(h) /\ h.location = k.location /\ h.keyTimers = k.keyTimers
    BY <2>1, HiddenInv DEF HideResults, BoxInv, Boxes
  <2>3. box' = Activate(h, FALSE) /\ focus' = Page
    BY <1>5 DEF OutOfField, EscapeField
  <2> HIDE DEF h
  <2>4. BoxInv(box') /\ box'.location = k.location /\ box'.keyTimers = k.keyTimers
    BY <2>2, <2>3, ActivateInv, ActivateFrame
  <2>5. Located(box') /\ box'.keyTimers <= MaxTimers
    BY <1>2, <2>4
  <2> QED
    BY <1>1, <2>3, <2>5, PlacesDiffer DEF Framed
<1>6. CASE OtherKey
  <2>1. box' = CompareText(k) /\ focus' = Field
    BY <1>6 DEF OtherKey, OnSearchFieldChange
  <2>2. Located(box') /\ box'.keyTimers <= MaxTimers
    BY <1>1, <1>2, <2>1
  <2> QED
    BY <1>1, <2>1, <2>2, PlacesDiffer DEF Framed
<1> QED
  BY <1>3, <1>4, <1>5, <1>6 DEF OnSearchFieldChange
LEMMA SelectFrameStep ==
  ASSUME PanelInv, FrameInv, NEW key \in Keys, OnSearchSelectKey(key), held' = key
  PROVE  FrameInv'
<1>1. BoxInv(box) /\ Located(box) /\ box.keyTimers <= MaxTimers /\ DocInv(doc)
  BY DEF PanelInv, FrameInv
<1>2. PICK b \in {box, NextCategory(box), PreviousCategory(box),
                  OnSelectItem(box, box.searchIndex)} :
        \/ focus' = Select /\ box' = b
        \/ focus' = Field /\ box' = Focused(b)
  BY DEF OnSearchSelectKey
<1>3. BoxInv(b) /\ Located(b) /\ b.keyTimers <= MaxTimers
  BY <1>1, <1>2, CategoryInv, CategoryFrame
<1>4. Located(box') /\ box'.keyTimers <= MaxTimers
  BY <1>2, <1>3, ActivateFrame DEF Focused, Located
<1>5. doc' = doc
  BY DEF OnSearchSelectKey
<1>6. Framed(box', doc', focus')
  BY <1>1, <1>2, <1>4, <1>5, PlacesDiffer DEF Framed
<1> QED
  BY <1>2, <1>6, FramedInv, PlacesDiffer

LEMMA FrameStarts == Init => FrameInv
<1> SUFFICES ASSUME Init PROVE FrameInv
  OBVIOUS
<1>1. box = NewBox /\ doc = NewDoc(BlankPage) /\ focus = Page /\ held = "none"
  BY DEF Init
<1> QED
  BY <1>1, NewPageFramed, PlacesDiffer DEF Framed, FrameInv

LEMMA FrameStep == PanelInv /\ FrameInv /\ [Next]_vars => FrameInv'
<1> SUFFICES ASSUME PanelInv, FrameInv, [Next]_vars PROVE FrameInv'
  OBVIOUS
<1>1. CASE ClickField \/ ClickAway \/ PressOnCategory
  BY <1>1, PressFrame, PlacesDiffer DEF ClickField, ClickAway, PressOnCategory
<1>2. CASE PressOnResult
  BY <1>2, PressFrame DEF PressOnResult
<1>3. CASE ClickClose
  <2>1. /\ box' = CloseResultsWindow(box) /\ focus' = Page
        /\ UNCHANGED <<doc, held>>
    BY <1>3 DEF ClickClose, keys
  <2>2. Framed(box', doc', focus')
    BY <2>1, CloseFrame, PlacesDiffer DEF Framed, FrameInv, PanelInv, Located
  <2> QED
    BY <2>1, <2>2, FramedInv, PlacesDiffer DEF FrameInv
<1>4. CASE ClickCategory
  <2>1. PICK category \in Categories : box' = OnSelectItem(box, category)
    BY <1>4 DEF ClickCategory
  <2>2. category \in 0 .. Count
    BY CountAssumption DEF Categories
  <2>3. focus' = Select /\ UNCHANGED <<doc, held>>
    BY <1>4 DEF ClickCategory, keys
  <2>4. Located(box') /\ box'.keyTimers <= MaxTimers
    BY <2>1, <2>2, SelectFrame DEF PanelInv, FrameInv
  <2>5. Framed(box', doc', focus')
    BY <2>3, <2>4, PlacesDiffer DEF Framed, FrameInv
  <2> QED
    BY <2>3, <2>5, FramedInv, PlacesDiffer DEF FrameInv
<1>5. CASE ClickResult
  BY <1>5, FollowLinkFrame, FramedInv DEF ClickResult, keys
<1>6. CASE PointerIn \/ OnSearchSelectHide
  BY <1>6, StaysFrame DEF PointerIn, OnSearchSelectHide, keys
<1>7. CASE Type \/ ChangeByMouse
  <2>1. /\ focus' = Field /\ held' \in {held, "Char"} /\ doc' = doc
        /\ box'.location = box.location /\ box'.keyTimers = box.keyTimers
    BY <1>7 DEF Type, ChangeByMouse, keys, PanelInv, BoxInv, Boxes
  <2>2. Framed(box', doc', focus')
    BY <2>1, PlacesDiffer DEF Framed, FrameInv, Located
  <2> QED
    BY <2>1, <2>2, FramedInv, PlacesDiffer DEF Keys, FrameInv
<1>8. CASE KeyDown
  <2>1. PICK key \in Keys :
          /\ held' = key
          /\ KeyDownInField(key) \/ OnSearchSelectKey(key) \/ KeyDownInFrame(key)
    BY <1>8 DEF KeyDown
  <2>2. CASE KeyDownInField(key)
    <3>1. UNCHANGED <<box, doc, focus>> /\ focus = Field
      BY <2>2 DEF KeyDownInField
    <3> QED
      BY <2>1, <3>1, InvFramed, FramedInv, PlacesDiffer
  <2>3. CASE OnSearchSelectKey(key)
    BY <2>1, <2>3, SelectFrameStep
  <2>4. CASE KeyDownInFrame(key) /\ key = "Enter" /\ FollowLink(focus)
    BY <2>1, <2>4, FollowLinkFrame, FramedInv DEF KeyDownInFrame
  <2>5. CASE KeyDownInFrame(key) /\ NavKey(KeyDownIn(doc, key), key)
    <3>1. /\ DocInv(KeyDownIn(doc, key)) /\ KeyDownIn(doc, key).lastKey = key
          /\ Displayed(KeyDownIn(doc, key)) = Displayed(doc)
      BY KeyDoc DEF FrameInv
    <3>2. Framed(box', doc', focus') /\ doc'.lastKey = key
      BY <2>5, <3>1, NavKeyFrame DEF KeyDownInFrame
    <3> QED
      BY <2>1, <3>2, FramedInv
  <2> QED
    BY <2>1, <2>2, <2>3, <2>4, <2>5 DEF KeyDownInFrame
<1>9. CASE KeyPressInFrame
  <2>1. InFrame(focus) /\ held' = held /\ doc.lastKey = held /\ DocInv(doc)
    BY <1>9 DEF KeyPressInFrame, FrameInv
  <2>2. CASE NavKey(doc, doc.lastKey)
    <3>1. Framed(box', doc', focus') /\ doc'.lastKey = doc.lastKey
      BY <2>1, <2>2, NavKeyFrame
    <3> QED
      BY <2>1, <3>1, FramedInv DEF FrameInv
  <2>3. CASE doc' = KeyPressIn(doc) /\ UNCHANGED <<box, focus>>
    <3>1. /\ DocInv(doc') /\ Displayed(doc') = Displayed(doc)
          /\ doc'.lastKey = doc.lastKey
      BY <2>1, <2>3, KeyDoc DEF Keys
    <3>2. Framed(box', doc', focus')
      BY <2>3, <3>1, InvFramed DEF Framed
    <3> QED
      BY <2>1, <3>1, <3>2, FramedInv DEF FrameInv
  <2> QED
    BY <1>9, <2>2, <2>3 DEF KeyPressInFrame
<1>10. CASE KeyUp
  <2>1. held' = "none"
    BY <1>10 DEF KeyUp
  <2>2. CASE OnSearchFieldChange
    BY <2>1, <2>2, FieldFrame, FramedInv
  <2>3. CASE doc' \in {doc, KeyUpIn(doc)} /\ UNCHANGED <<box, focus>>
    <3>1. DocInv(doc') /\ Displayed(doc') = Displayed(doc)
      BY <2>3, KeyDoc DEF Keys, FrameInv
    <3>2. Framed(box', doc', focus')
      BY <2>3, <3>1, InvFramed DEF Framed
    <3> QED
      BY <2>1, <3>2, FramedInv
  <2> QED
    BY <1>10, <2>2, <2>3 DEF KeyUp, KeyUpInFrame
<1>11. CASE KeyTimer
  <2>1. box.keyTimers > 0 /\ box' = KeyTimerFires(box) /\ UNCHANGED <<doc, focus, held>>
    BY <1>11 DEF KeyTimer, keys
  <2>2. /\ Located(box') /\ box'.keyTimers = box.keyTimers - 1
        /\ box.window => box'.window
    BY <2>1, TimerFrame DEF PanelInv, FrameInv
  <2>3. box'.keyTimers <= MaxTimers
    <3>1. box.keyTimers \in Nat /\ MaxTimers \in Nat /\ box.keyTimers <= MaxTimers
      BY MaxTimersAssumption DEF PanelInv, BoxInv, Boxes, FrameInv
    <3> QED
      BY <2>2, <3>1
  <2>4. Framed(box', doc', focus')
    BY <2>1, <2>2, <2>3 DEF Framed, FrameInv
  <2> QED
    BY <2>1, <2>4, FramedInv DEF FrameInv
<1>12. CASE CloseSelectionWindow
  <2>1. UNCHANGED <<box, doc, held>> /\ focus' \in {focus, Page}
    BY <1>12 DEF CloseSelectionWindow, keys
  <2> QED
    BY <2>1, FramedInv, PlacesDiffer DEF Framed, FrameInv
<1>13. CASE FrameLoads
  <2>1. /\ doc' = NewDoc(box.location) /\ held' = held
        /\ focus' = IF InFrame(focus) THEN Page ELSE focus
        /\ box'.location = box.location /\ box'.keyTimers = box.keyTimers
    BY <1>13 DEF FrameLoads, keys, PanelInv, BoxInv, Boxes
  <2>2. DocInv(doc')
    BY <2>1, NewDocInv DEF FrameInv, Located, PanelInv, BoxInv, Boxes
  <2>3. focus' \in {Field, Page, Select}
    BY <2>1, DisplayedInFrame DEF FrameInv
  <2>4. Framed(box', doc', focus')
    BY <2>1, <2>2, <2>3, PlacesDiffer DEF Framed, FrameInv, Located
  <2> QED
    BY <2>1, <2>3, <2>4, FramedInv, PlacesDiffer DEF FrameInv
<1>14. CASE UNCHANGED vars
  BY <1>14, StaysFrame DEF vars
<1> QED
  BY <1>1, <1>2, <1>3, <1>4, <1>5, <1>6, <1>7, <1>8, <1>9, <1>10, <1>11, <1>12, <1>13,
     <1>14 DEF Next

\* Nothing that is not displayed has the focus, and no page is shown that no
\* index leads to.
THEOREM FrameInvariance == Spec => []FrameInv
BY FrameStarts, FrameStep, PanelInvariance, PTL DEF Spec
-------------------------------------------------------------------------------
(* Types.                                                                  *)

Flags ==
  /\ fresh \in BOOLEAN
  /\ select \in BOOLEAN /\ hideTimer \in BOOLEAN /\ pointer \in BOOLEAN
  /\ lost \in BOOLEAN

LEMMA FlagsStep == Flags /\ [Next]_vars => Flags'
<1> SUFFICES ASSUME Flags, [Next]_vars PROVE Flags'
  OBVIOUS
<1> USE DEF Flags
<1>1. CASE UNCHANGED <<keys, list, lost>>
  BY <1>1 DEF keys, list
<1>2. CASE PointerIn \/ OnSearchSelectHide \/ CloseSelectionWindow
  BY <1>2
  DEF PointerIn, OnSearchSelectShow, OnSearchSelectHide, CloseSelectionWindow, keys
<1>3. ASSUME NEW place, FollowLink(place)
      PROVE  select' \in BOOLEAN /\ hideTimer' \in BOOLEAN /\ pointer' \in BOOLEAN
             /\ lost' \in BOOLEAN
  BY <1>3 DEF FollowLink, list
<1>4. CASE ClickResult
  BY <1>3, <1>4 DEF ClickResult, keys
<1>5. CASE Type \/ ChangeByMouse
  BY <1>5 DEF Type, ChangeByMouse, keys, list
<1>6. CASE KeyDown
  <2>1. PICK key \in Keys :
          /\ fresh' = TRUE
          /\ KeyDownInField(key) \/ OnSearchSelectKey(key) \/ KeyDownInFrame(key)
    BY <1>6 DEF KeyDown, KeyDownInField, OnSearchSelectKey, KeyDownInFrame
  <2> QED
    BY <1>3, <2>1 DEF KeyDownInField, OnSearchSelectKey, KeyDownInFrame, list
<1>7. CASE KeyPressInFrame
  BY <1>7 DEF KeyPressInFrame, list
<1>8. CASE KeyUp
  <2>1. CASE OnSearchFieldChange
    BY <1>8, <2>1
    DEF KeyUp, OnSearchFieldChange, ToCategories, ToResults, OutOfField, OtherKey,
        OnSearchSelectShow, list
  <2>2. CASE UNCHANGED <<list, lost>>
    BY <1>8, <2>2 DEF KeyUp, list
  <2> QED
    BY <1>8, <2>1, <2>2 DEF KeyUp, KeyUpInFrame
<1>9. CASE KeyTimer
  BY <1>9 DEF KeyTimer, keys, list
<1> QED
  BY <1>1, <1>2, <1>4, <1>5, <1>6, <1>7, <1>8, <1>9
  DEF Next, vars, keys, list, ClickField, ClickAway, PressOnCategory, PressOnResult,
      PressOn, ClickClose, ClickCategory, FrameLoads

\* Every variable keeps its type; in particular the index of the category
\* goes at most one past the list, and the focus is on something that is displayed.
THEOREM TypeCorrect == Spec => []TypeOK
<1>1. Init => Flags
  BY DEF Init, Flags
<1>2. PanelInv /\ FrameInv /\ Flags => TypeOK
  <2> SUFFICES ASSUME PanelInv, FrameInv, Flags PROVE TypeOK
    OBVIOUS
  <2>1. box \in Boxes /\ box.keyTimers \in 0 .. MaxTimers
    BY MaxTimersAssumption DEF PanelInv, BoxInv, Boxes, FrameInv
  <2>2. doc \in Docs /\ doc.open \subseteq Rows(doc.page)
    BY DEF FrameInv, DocInv
  <2>3. focus \in Places
    BY DisplayedPlace, VisibleRows DEF FrameInv, Places, Children
  <2>4. InFrame(focus) => box.window /\ focus \in Displayed(doc)
    BY PlacesDiffer DEF FrameInv
  <2> QED
    BY <2>1, <2>2, <2>3, <2>4 DEF TypeOK, FrameInv, Flags
<1> QED
  BY <1>1, <1>2, FlagsStep, PanelInvariance, FrameInvariance, PTL DEF Spec

-------------------------------------------------------------------------------
(* Arrow keys.                                                             *)

\* Nothing displayed lies between two rows next to each other, and rows that
\* match follow each other.
LEMMA NextRow ==
  ASSUME NEW d, DocInv(d), NEW e \in Visible(d.page)
  PROVE  IF \E f \in Visible(d.page) : f >= e + 1
           THEN e + 1 \in Visible(d.page) /\ NavNext(d, e + 1) = Item(e + 1)
           ELSE NavNext(d, e + 1) = None
<1>1. \A f \in Visible(d.page) : f \in Nat
  BY RowTypes, VisibleRows DEF DocInv
<1>2. ASSUME NEW f \in Visible(d.page), f >= e + 1
      PROVE  e + 1 \in Visible(d.page)
  <2>1. d.page \in Pages \ {NoMatches, BlankPage}
    BY VisibleRows DEF DocInv, Docs, Rows, HasResults
  <2>2. PICK i \in DOMAIN Indexed[d.page.category] :
          d.page.category \in Categories /\ d.page.letter = Indexed[d.page.category][i]
    BY <2>1 DEF DocInv, IsIndexed, HasResults
  <2>3. e .. f \subseteq Visible(d.page)
    BY <2>1, <2>2, SortedAssumption
  <2>4. e + 1 \in e .. f
    BY <1>1, <1>2
  <2> QED
    BY <2>3, <2>4
<1> DEFINE found == {f \in Visible(d.page) : f >= e + 1}
<1>3. CASE found = {}
  BY <1>3 DEF NavNext
<1>4. CASE found # {}
  <2>1. e + 1 \in found /\ \A f \in found : e + 1 <= f
    BY <1>1, <1>2, <1>4
  <2>2. Min(found) \in found /\ \A f \in found : Min(found) <= f
    BY <2>1 DEF Min
  <2>3. Min(found) = e + 1
    BY <1>1, <2>1, <2>2
  <2> QED
    BY <1>4, <2>1, <2>3 DEF NavNext
<1> QED
  BY <1>3, <1>4

LEMMA PreviousRow ==
  ASSUME NEW d, DocInv(d), NEW e \in Visible(d.page)
  PROVE  IF \E f \in Visible(d.page) : f <= e - 1
           THEN e - 1 \in Visible(d.page) /\ NavPrev(d, e - 1) = Item(e - 1)
           ELSE NavPrev(d, e - 1) = None
<1>1. \A f \in Visible(d.page) : f \in Nat
  BY RowTypes, VisibleRows DEF DocInv
<1>2. ASSUME NEW f \in Visible(d.page), f <= e - 1
      PROVE  e - 1 \in Visible(d.page)
  <2>1. d.page \in Pages \ {NoMatches, BlankPage}
    BY VisibleRows DEF DocInv, Docs, Rows, HasResults
  <2>2. PICK i \in DOMAIN Indexed[d.page.category] :
          d.page.category \in Categories /\ d.page.letter = Indexed[d.page.category][i]
    BY <2>1 DEF DocInv, IsIndexed, HasResults
  <2>3. f .. e \subseteq Visible(d.page)
    BY <2>1, <2>2, SortedAssumption
  <2>4. e - 1 \in f .. e
    BY <1>1, <1>2
  <2> QED
    BY <2>3, <2>4
<1> DEFINE found == {f \in Visible(d.page) : f <= e - 1}
<1>3. CASE found = {}
  BY <1>3 DEF NavPrev
<1>4. CASE found # {}
  <2>1. e - 1 \in found /\ \A f \in found : e - 1 >= f
    BY <1>1, <1>2, <1>4
  <2>2. Max(found) \in found /\ \A f \in found : Max(found) >= f
    BY <2>1 DEF Max
  <2>3. Max(found) = e - 1
    BY <1>1, <2>1, <2>2
  <2> QED
    BY <1>4, <2>1, <2>3 DEF NavPrev
<1> QED
  BY <1>3, <1>4
LEMMA BeforeParts ==
  ASSUME NEW e, NEW f, NEW c, NEW g
  PROVE  /\ Before(Item(e), Item(f)) <=> e < f
         /\ Before(Item(e), Child(f, g)) <=> e < f \/ e = f
         /\ Before(Child(e, c), Item(f)) <=> e < f
         /\ Before(Child(e, c), Child(f, g)) <=> e < f \/ (e = f /\ c < g)
BY PlaceParts DEF Before

\* The rows and children that are displayed have numbers.
LEMMA DisplayedTypes ==
  ASSUME NEW d, DocInv(d), NEW p \in Displayed(d)
  PROVE  \/ \E e \in Visible(d.page) : e \in Nat /\ p = Item(e)
         \/ \E e \in d.open \cap Visible(d.page) :
              /\ e \in Nat /\ Row(d.page, e).children \in Nat
              /\ \E c \in Nat : c < Row(d.page, e).children /\ p = Child(e, c)
<1>1. \A e \in Visible(d.page) : e \in Nat /\ Row(d.page, e).children \in Nat
  BY RowTypes, VisibleRows DEF DocInv
<1>2. CASE \E e \in Visible(d.page) : p = Item(e)
  BY <1>1, <1>2
<1>3. CASE \E e \in d.open \cap Visible(d.page) :
             \E c \in 0 .. Row(d.page, e).children - 1 : p = Child(e, c)
  BY <1>1, <1>3
<1> QED
  BY <1>2, <1>3, DisplayedPlace

LEMMA ChildDisplayed ==
  ASSUME NEW d, NEW e \in d.open \cap Visible(d.page),
         Row(d.page, e).children \in Nat,
         NEW c \in Nat, c < Row(d.page, e).children
  PROVE  Child(e, c) \in Displayed(d)
<1>1. c \in 0 .. Row(d.page, e).children - 1
  OBVIOUS
<1> QED
  BY <1>1 DEF Displayed, Children

LEMMA RowDisplayed ==
  ASSUME NEW d, NEW e \in Visible(d.page)
  PROVE  Item(e) \in Displayed(d)
BY DEF Displayed

\* r is the line after p, or before it.
IsNext(d, p, r) ==
  /\ r \in Displayed(d) /\ Before(p, r)
  /\ \A q \in Displayed(d) : Before(p, q) => q = r \/ Before(r, q)

IsPrevious(d, p, r) ==
  /\ r \in Displayed(d) /\ Before(r, p)
  /\ \A q \in Displayed(d) : Before(q, p) => q = r \/ Before(q, r)

\* From a row or child whose later children are not displayed, Down goes on to
\* the next row.
LEMMA DownToRow ==
  ASSUME NEW d, DocInv(d), NEW p \in Displayed(d), NEW e \in Visible(d.page),
         e \in Nat, p[2] = e, e < e + 1,
         \A q \in Displayed(d) : Before(p, q) <=> q[2] > e,
         Down(d, p) = IF NavNext(d, e + 1) = None THEN p ELSE NavNext(d, e + 1)
  PROVE  \/ IsNext(d, p, Down(d, p))
         \/ Down(d, p) = p /\ \A q \in Displayed(d) : ~Before(p, q)
<1>1. \A f \in Visible(d.page) : f \in Nat
  BY RowTypes, VisibleRows DEF DocInv
<1>2. CASE \E f \in Visible(d.page) : f >= e + 1
  <2>1. e + 1 \in Visible(d.page) /\ NavNext(d, e + 1) = Item(e + 1)
    BY <1>2, NextRow
  <2>2. Item(e + 1) # None
    BY DEF Item, None
  <2>3. Down(d, p) = Item(e + 1) /\ Item(e + 1) \in Displayed(d)
    BY <2>1, <2>2, RowDisplayed
  <2>4. Before(p, Item(e + 1))
    BY <2>3, PlaceParts
  <2>5. ASSUME NEW q \in Displayed(d), Before(p, q)
        PROVE  q = Item(e + 1) \/ Before(Item(e + 1), q)
    <3>1. CASE \E f \in Visible(d.page) : f \in Nat /\ q = Item(f)
      <4>1. PICK f \in Nat : q = Item(f)
        BY <3>1
      <4>2. f > e
        BY <2>5, <4>1, PlaceParts
      <4>3. f = e + 1 \/ e + 1 < f
        BY <4>1, <4>2
      <4> QED
        BY <4>1, <4>3, BeforeParts
    <3>2. CASE \E f \in Nat : \E c : q = Child(f, c)
      <4>1. PICK f \in Nat : \E c : q = Child(f, c)
        BY <3>2
      <4>2. PICK c : q = Child(f, c)
        BY <4>1
      <4>3. f > e
        BY <2>5, <4>2, PlaceParts
      <4>4. e + 1 = f \/ e + 1 < f
        BY <4>1, <4>3
      <4> QED
        BY <4>2, <4>4, BeforeParts
    <3> QED
      BY <3>1, <3>2, DisplayedTypes
  <2> QED
    BY <2>3, <2>4, <2>5 DEF IsNext
<1>3. CASE ~\E f \in Visible(d.page) : f >= e + 1
  <2>1. NavNext(d, e + 1) = None
    BY <1>3, NextRow
  <2>2. ASSUME NEW q \in Displayed(d), Before(p, q) PROVE FALSE
    <3>1. PICK f \in Visible(d.page) : f \in Nat /\ f > e
      BY <1>1, <2>2, DisplayedInFrame
    <3>2. f >= e + 1
      BY <3>1
    <3> QED
      BY <1>3, <3>1, <3>2
  <2> QED
    BY <2>1, <2>2
<1> QED
  BY <1>2, <1>3

LEMMA DownNext ==
  ASSUME NEW d, DocInv(d), NEW p \in Displayed(d)
  PROVE  \/ IsNext(d, p, Down(d, p))
         \/ Down(d, p) = p /\ \A q \in Displayed(d) : ~Before(p, q)
<1>1. ASSUME NEW e \in Visible(d.page), e \in Nat, p = Item(e), e \in d.open
      PROVE  IsNext(d, p, Down(d, p))
  <2>1. Down(d, p) = Child(e, 0)
    BY <1>1, PlaceParts DEF Down
  <2>2. Row(d.page, e).children \in Nat /\ 0 < Row(d.page, e).children
    BY <1>1, RowTypes, VisibleRows DEF DocInv
  <2>3. Child(e, 0) \in Displayed(d) /\ Before(p, Child(e, 0))
    BY <1>1, <2>2, ChildDisplayed, BeforeParts
  <2>4. ASSUME NEW q \in Displayed(d), Before(p, q)
        PROVE  q = Child(e, 0) \/ Before(Child(e, 0), q)
    <3>1. CASE \E f \in Nat : q = Item(f)
      BY <1>1, <2>4, <3>1, BeforeParts
    <3>2. CASE \E f \in Nat, c \in Nat : q = Child(f, c)
      <4>1. PICK f \in Nat, c \in Nat : q = Child(f, c)
        BY <3>2
      <4>2. e < f \/ e = f
        BY <1>1, <2>4, <4>1, BeforeParts
      <4>3. c = 0 \/ 0 < c
        BY <4>1
      <4> QED
        BY <4>1, <4>2, <4>3, BeforeParts
    <3> QED
      BY <3>1, <3>2, DisplayedTypes
  <2> QED
    BY <2>1, <2>3, <2>4 DEF IsNext
<1>2. ASSUME NEW e \in Visible(d.page), e \in Nat, p = Item(e), e \notin d.open
      PROVE  \/ IsNext(d, p, Down(d, p))
             \/ Down(d, p) = p /\ \A q \in Displayed(d) : ~Before(p, q)
  <2>1. Down(d, p) = IF NavNext(d, e + 1) = None THEN p ELSE NavNext(d, e + 1)
    BY <1>2, PlaceParts DEF Down
  <2>2. ASSUME NEW q \in Displayed(d) PROVE Before(p, q) <=> q[2] > e
    <3>1. CASE \E f \in Nat : q = Item(f)
      BY <1>2, <3>1, BeforeParts, PlaceParts
    <3>2. CASE \E f \in d.open \cap Nat : \E c : q = Child(f, c)
      BY <1>2, <3>2, BeforeParts, PlaceParts
    <3> QED
      BY <3>1, <3>2, DisplayedTypes
  <2>3. p[2] = e /\ e < e + 1
    BY <1>2, PlaceParts
  <2> QED
    BY <1>2, <2>1, <2>2, <2>3, DownToRow
<1>3. ASSUME NEW e \in d.open \cap Visible(d.page), e \in Nat,
             Row(d.page, e).children \in Nat, NEW c \in Nat,
             c < Row(d.page, e).children, p = Child(e, c)
      PROVE  \/ IsNext(d, p, Down(d, p))
             \/ Down(d, p) = p /\ \A q \in Displayed(d) : ~Before(p, q)
  <2>1. CASE c + 1 < Row(d.page, e).children
    <3>1. Down(d, p) = Child(e, c + 1)
      BY <1>3, <2>1, PlaceParts DEF Down
    <3>2. c + 1 \in Nat /\ c < c + 1
      BY <1>3
    <3>3. Child(e, c + 1) \in Displayed(d) /\ Before(p, Child(e, c + 1))
      BY <1>3, <2>1, <3>2, ChildDisplayed, BeforeParts
    <3>4. ASSUME NEW q \in Displayed(d), Before(p, q)
          PROVE  q = Child(e, c + 1) \/ Before(Child(e, c + 1), q)
      <4>1. CASE \E f \in Nat : q = Item(f)
        BY <1>3, <3>4, <4>1, BeforeParts
      <4>2. CASE \E f \in Nat, g \in Nat : q = Child(f, g)
        <5>1. PICK f \in Nat, g \in Nat : q = Child(f, g)
          BY <4>2
        <5>2. e < f \/ (e = f /\ c < g)
          BY <1>3, <3>4, <5>1, BeforeParts
        <5>3. c < g => g = c + 1 \/ c + 1 < g
          BY <5>1
        <5> QED
          BY <5>1, <5>2, <5>3, BeforeParts
      <4> QED
        BY <4>1, <4>2, DisplayedTypes
    <3> QED
      BY <3>1, <3>3, <3>4 DEF IsNext
  <2>2. CASE ~(c + 1 < Row(d.page, e).children)
    <3>1. Down(d, p) = IF NavNext(d, e + 1) = None THEN p ELSE NavNext(d, e + 1)
      BY <1>3, <2>2, PlaceParts DEF Down
    <3>2. ASSUME NEW q \in Displayed(d) PROVE Before(p, q) <=> q[2] > e
      <4>1. CASE \E f \in Nat : q = Item(f)
        BY <1>3, <4>1, BeforeParts, PlaceParts
      <4>2. CASE \E f \in Nat : /\ Row(d.page, f).children \in Nat
                                /\ \E g \in Nat : /\ g < Row(d.page, f).children
                                                  /\ q = Child(f, g)
        <5>1. PICK f \in Nat, g \in Nat :
                q = Child(f, g) /\ (f = e => g < Row(d.page, e).children)
          BY <4>2
        <5>2. f = e => ~(c < g)
          BY <1>3, <2>2, <5>1
        <5> QED
          BY <1>3, <5>1, <5>2, BeforeParts, PlaceParts
      <4> QED
        BY <4>1, <4>2, DisplayedTypes
    <3>3. p[2] = e /\ e < e + 1
      BY <1>3, PlaceParts
    <3> QED
      BY <1>3, <3>1, <3>2, <3>3, DownToRow
  <2> QED
    BY <2>1, <2>2
<1> QED
  BY <1>1, <1>2, <1>3, DisplayedTypes
LEMMA UpPrevious ==
  ASSUME NEW d, DocInv(d), NEW p \in Displayed(d)
  PROVE  \/ IsPrevious(d, p, Up(d, p))
         \/ Up(d, p) = Field /\ \A q \in Displayed(d) : ~Before(q, p)
<1>0. \A f \in Visible(d.page) : f \in Nat
  BY RowTypes, VisibleRows DEF DocInv
<1>1. ASSUME NEW e \in d.open \cap Visible(d.page), e \in Nat,
             Row(d.page, e).children \in Nat, NEW c \in Nat,
             c < Row(d.page, e).children, p = Child(e, c)
      PROVE  IsPrevious(d, p, Up(d, p))
  <2>1. CASE c > 0
    <3>1. Up(d, p) = Child(e, c - 1)
      BY <1>1, <2>1, PlaceParts DEF Up
    <3>2. c - 1 \in Nat /\ c - 1 < c /\ c - 1 < Row(d.page, e).children
      BY <1>1, <2>1
    <3>3. Child(e, c - 1) \in Displayed(d) /\ Before(Child(e, c - 1), p)
      BY <1>1, <3>2, ChildDisplayed, BeforeParts
    <3>4. ASSUME NEW q \in Displayed(d), Before(q, p)
          PROVE  q = Child(e, c - 1) \/ Before(q, Child(e, c - 1))
      <4>1. CASE \E f \in Nat : q = Item(f)
        BY <1>1, <3>4, <4>1, BeforeParts
      <4>2. CASE \E f \in Nat, g \in Nat : q = Child(f, g)
        <5>1. PICK f \in Nat, g \in Nat : q = Child(f, g)
          BY <4>2
        <5>2. f < e \/ (f = e /\ g < c)
          BY <1>1, <3>4, <5>1, BeforeParts
        <5>3. g < c => g = c - 1 \/ g < c - 1
          BY <5>1
        <5> QED
          BY <1>1, <5>1, <5>2, <5>3, BeforeParts
      <4> QED
        BY <4>1, <4>2, DisplayedTypes
    <3> QED
      BY <3>1, <3>3, <3>4 DEF IsPrevious
  <2>2. CASE c = 0
    <3>1. Up(d, p) = Item(e)
      BY <1>1, <2>2, PlaceParts DEF Up
    <3>2. Item(e) \in Displayed(d) /\ Before(Item(e), p)
      BY <1>1, RowDisplayed, BeforeParts
    <3>3. ASSUME NEW q \in Displayed(d), Before(q, p)
          PROVE  q = Item(e) \/ Before(q, Item(e))
      <4>1. CASE \E f \in Nat : q = Item(f)
        BY <1>1, <3>3, <4>1, BeforeParts
      <4>2. CASE \E f \in Nat, g \in Nat : q = Child(f, g)
        <5>1. PICK f \in Nat, g \in Nat : q = Child(f, g)
          BY <4>2
        <5>2. f < e \/ (f = e /\ g < c)
          BY <1>1, <3>3, <5>1, BeforeParts
        <5>3. ~(g < c)
          BY <2>2, <5>1
        <5> QED
          BY <5>1, <5>2, <5>3, BeforeParts
      <4> QED
        BY <4>1, <4>2, DisplayedTypes
    <3> QED
      BY <3>1, <3>2, <3>3 DEF IsPrevious
  <2> QED
    BY <1>1, <2>1, <2>2
<1>2. ASSUME NEW e \in Visible(d.page), e \in Nat, p = Item(e)
      PROVE  \/ IsPrevious(d, p, Up(d, p))
             \/ Up(d, p) = Field /\ \A q \in Displayed(d) : ~Before(q, p)
  <2>0. \A q \in Displayed(d) : Before(q, p) => q[2] < e
    <3> SUFFICES ASSUME NEW q \in Displayed(d), Before(q, p) PROVE q[2] < e
      OBVIOUS
    <3>1. (\E f : q = Item(f)) \/ (\E f, c : q = Child(f, c))
      BY DisplayedPlace
    <3> QED
      BY <1>2, <3>1, BeforeParts, PlaceParts
  <2>1. CASE ~\E f \in Visible(d.page) : f <= e - 1
    <3>1. NavPrev(d, e - 1) = None
      BY <2>1, PreviousRow
    <3>2. Up(d, p) = Field
      BY <1>2, <3>1, PlaceParts DEF Up
    <3>3. ASSUME NEW q \in Displayed(d), Before(q, p) PROVE FALSE
      <4>1. PICK f \in Visible(d.page) : f \in Nat /\ f < e
        BY <1>0, <2>0, <3>3, DisplayedInFrame
      <4>2. f <= e - 1
        BY <1>2, <4>1
      <4> QED
        BY <2>1, <4>1, <4>2
    <3> QED
      BY <3>2, <3>3
  <2>2. CASE \E f \in Visible(d.page) : f <= e - 1
    <3> DEFINE m == e - 1
               n == Row(d.page, m).children
    <3>1. m \in Visible(d.page) /\ NavPrev(d, e - 1) = Item(m)
      BY <2>2, PreviousRow
    <3>2. Item(m) # None
      BY DEF Item, None
    <3>3. m \in Nat /\ m < e /\ (\A f \in Nat : f < e => f = m \/ f < m)
      BY <1>0, <1>2, <3>1
    <3>4. n \in Nat
      BY <3>1, RowTypes, VisibleRows DEF DocInv
    <3>5. CASE m \in d.open
      <4>1. n > 0
        BY <3>5 DEF DocInv
      <4>2. Up(d, p) = Child(m, n - 1)
        BY <1>2, <3>1, <3>2, <3>5, <4>1, PlaceParts DEF Up
      <4>3. n - 1 \in Nat /\ n - 1 < n /\ (\A c \in Nat : c < n => c = n - 1 \/ c < n - 1)
        BY <3>4, <4>1
      <4>4. Child(m, n - 1) \in Displayed(d) /\ Before(Child(m, n - 1), p)
        <5>1. Before(Child(m, n - 1), p)
          BY <1>2, <3>3, BeforeParts
        <5> QED
          BY <3>1, <3>4, <3>5, <4>3, <5>1, ChildDisplayed
      <4>5. ASSUME NEW q \in Displayed(d), Before(q, p)
            PROVE  q = Child(m, n - 1) \/ Before(q, Child(m, n - 1))
        <5> HIDE DEF m
        <5>1. CASE \E f \in Nat : q = Item(f)
          <6>1. PICK f \in Nat : q = Item(f)
            BY <5>1
          <6>2. f = m \/ f < m
            BY <2>0, <3>3, <4>5, <6>1, PlaceParts
          <6> QED
            BY <6>1, <6>2, BeforeParts
        <5>2. CASE \E f \in Nat : /\ Row(d.page, f).children \in Nat
                                  /\ \E g \in Nat : /\ g < Row(d.page, f).children
                                                    /\ q = Child(f, g)
          <6>1. PICK f \in Nat, g \in Nat :
                  q = Child(f, g) /\ g < Row(d.page, f).children
            BY <5>2
          <6>2. f = m \/ f < m
            BY <2>0, <3>3, <4>5, <6>1, PlaceParts
          <6>3. f = m => g = n - 1 \/ g < n - 1
            BY <4>3, <6>1
          <6> QED
            BY <6>1, <6>2, <6>3, BeforeParts
        <5> QED
          BY <4>5, <5>1, <5>2, DisplayedTypes
      <4> QED
        BY <4>2, <4>4, <4>5 DEF IsPrevious
    <3>6. CASE m \notin d.open
      <4>1. Up(d, p) = Item(m)
        BY <1>2, <3>1, <3>2, <3>6, PlaceParts DEF Up
      <4>2. Item(m) \in Displayed(d) /\ Before(Item(m), p)
        BY <1>2, <3>1, <3>3, RowDisplayed, BeforeParts
      <4>3. ASSUME NEW q \in Displayed(d), Before(q, p)
            PROVE  q = Item(m) \/ Before(q, Item(m))
        <5> HIDE DEF m
        <5>1. CASE \E f \in Nat : q = Item(f)
          <6>1. PICK f \in Nat : q = Item(f)
            BY <5>1
          <6>2. f = m \/ f < m
            BY <2>0, <3>3, <4>3, <6>1, PlaceParts
          <6> QED
            BY <6>1, <6>2, BeforeParts
        <5>2. CASE \E f \in d.open \cap Nat, g \in Nat : q = Child(f, g)
          <6>1. PICK f \in d.open \cap Nat, g \in Nat : q = Child(f, g)
            BY <5>2
          <6>2. f = m \/ f < m
            BY <2>0, <3>3, <4>3, <6>1, PlaceParts
          <6> QED
            BY <3>6, <6>1, <6>2, BeforeParts
        <5> QED
          BY <4>3, <5>1, <5>2, DisplayedTypes
      <4> QED
        BY <4>1, <4>2, <4>3 DEF IsPrevious
    <3> QED
      BY <3>5, <3>6
  <2> QED
    BY <2>1, <2>2
<1> QED
  BY <1>1, <1>2, DisplayedTypes
\* What ArrowsFollowOrder says of a step.
Obeyed ==
  \/ /\ held' = "Down" /\ focus' \in Following(focus)
     /\ Following(focus) \subseteq {focus'} \cup Following(focus')
  \/ held' = "Down" /\ Following(focus) = {} /\ focus' = focus
  \/ /\ held' = "Up" /\ focus' \in Preceding(focus)
     /\ Preceding(focus) \subseteq {focus'} \cup Preceding(focus')
  \/ held' = "Up" /\ Preceding(focus) = {} /\ focus' = Field

LEMMA ArrowObeyed ==
  ASSUME FrameInv, InFrame(focus), NEW d, DocInv(d), Displayed(d) = Displayed(doc),
         NEW key \in {"Up", "Down"}, NavKey(d, key), held' = key
  PROVE  Obeyed
<1>1. focus \in Displayed(d)
  BY PlacesDiffer DEF FrameInv
<1>2. CASE key = "Down"
  <2>1. focus' = IF Down(d, focus) = Field \/ Down(d, focus) \in Displayed(d)
                   THEN Down(d, focus) ELSE focus
    BY <1>2 DEF NavKey, Go
  <2>2. CASE IsNext(d, focus, Down(d, focus))
    <3>1. IsNext(d, focus, focus')
      BY <2>1, <2>2 DEF IsNext
    <3> QED
      BY <1>2, <3>1 DEF IsNext, Obeyed, Following
  <2>3. CASE Down(d, focus) = focus /\ \A q \in Displayed(d) : ~Before(focus, q)
    BY <1>1, <1>2, <2>1, <2>3 DEF Obeyed, Following
  <2> QED
    BY <1>1, <2>2, <2>3, DownNext
<1>3. CASE key = "Up"
  <2>1. focus' = IF Up(d, focus) = Field \/ Up(d, focus) \in Displayed(d)
                   THEN Up(d, focus) ELSE focus
    BY <1>3 DEF NavKey, Go
  <2>2. CASE IsPrevious(d, focus, Up(d, focus))
    <3>1. IsPrevious(d, focus, focus')
      BY <2>1, <2>2 DEF IsPrevious
    <3> QED
      BY <1>3, <3>1 DEF IsPrevious, Obeyed, Preceding
  <2>3. CASE Up(d, focus) = Field /\ \A q \in Displayed(d) : ~Before(q, focus)
    BY <1>3, <2>1, <2>3 DEF Obeyed, Preceding
  <2> QED
    BY <1>1, <2>2, <2>3, UpPrevious
<1> QED
  BY <1>2, <1>3

\* Down and Up move by one displayed line, for any pages and any query
\* (search.js:610-729).
THEOREM ArrowsFollowOrderHolds == Spec => ArrowsFollowOrder
<1> DEFINE Arrow == InFrame(focus) /\ held' \in {"Up", "Down"}
                    /\ (held = "none" \/ focus' \notin {focus, Page})
           Follows == Arrow => Obeyed
<1>1. FrameInv /\ [Next]_vars => Follows
  <2> SUFFICES ASSUME FrameInv, [Next]_vars, Arrow PROVE Obeyed
    OBVIOUS
  <2>1. CASE KeyDown
    <3>1. PICK key \in Keys :
            /\ held' = key
            /\ KeyDownInField(key) \/ OnSearchSelectKey(key) \/ KeyDownInFrame(key)
      BY <2>1 DEF KeyDown
    <3>2. NavKey(KeyDownIn(doc, key), key)
      BY <3>1, PlacesDiffer DEF KeyDownInField, OnSearchSelectKey, KeyDownInFrame
    <3>3. /\ DocInv(KeyDownIn(doc, key))
          /\ Displayed(KeyDownIn(doc, key)) = Displayed(doc)
      BY KeyDoc DEF FrameInv
    <3> QED
      BY <3>1, <3>2, <3>3, ArrowObeyed
  <2>2. CASE KeyPressInFrame
    <3>1. held' = held /\ doc.lastKey = held /\ focus' # focus
      BY <2>2 DEF KeyPressInFrame, FrameInv
    <3>2. NavKey(doc, held)
      BY <2>2, <3>1 DEF KeyPressInFrame
    <3> QED
      BY <3>1, <3>2, ArrowObeyed DEF FrameInv
  <2>3. CASE held' \notin {"Up", "Down"}
    BY <2>3
  <2>4. CASE UNCHANGED held /\ focus' \in {focus, Page}
    BY <2>4
  <2>5. ASSUME NEW place, PressOn(place) PROVE FALSE
    BY <2>5 DEF PressOn, keys
  <2> QED
    BY <2>1, <2>2, <2>3, <2>4, <2>5
    DEF Next, vars, keys, ClickField, ClickAway, PressOnCategory, PressOnResult,
        ClickClose, ClickCategory, ClickResult, ChangeByMouse, PointerIn,
        OnSearchSelectHide, Type, KeyUp, KeyTimer, CloseSelectionWindow, FrameLoads
<1>2. Spec => [][Follows]_vars
  BY <1>1, FrameInvariance, PTL DEF Spec
<1> QED
  BY <1>2 DEF ArrowsFollowOrder, Obeyed
===============================================================================
