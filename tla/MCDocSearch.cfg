CONSTANTS
  Texts <- SomeTexts
  Label = "Search"
  Squeezed <- SomeSqueezed
  Trimmed <- SomeTrimmed
  Initial <- SomeInitial
  Letters = {"", "h", "s"}
  Count = 2
  Indexed <- SomeIndexed
  Content <- SomeContent
  MaxTimers = 2

SPECIFICATION Spec

INVARIANTS
  TypeOK
  PanelConsistent
  ShownIsLastSearch
  StrayIsLabel
  NothingLeftUnsearched

PROPERTIES
  StaysUnderPointer
  ArrowsFollowOrder
  FirstPressIgnored
