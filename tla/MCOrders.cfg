CONSTANTS
  NumKeys = 3
  NumCopies = 2
  MaxDeps = 4
  NumViews = 3
  ViewName <- MCViewName
SPECIFICATION OrdersSpec
INVARIANTS
  TypeOK
  ViewTypeOK
PROPERTIES
  IsTopological
  OnlyCyclesBreakOrder
  ViewsAreTopological
  UsedViewsComeFirst
