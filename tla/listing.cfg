\* A listing of up to three items, one to a page, by any column.
CONSTANTS
  Item = {1, 2, 3}
  PageSize = 1
  MaxTime = 2
  MaxValue = 1
SPECIFICATION Spec
INVARIANTS
  PagesAreComplete
  ItemsMoveAsOrdered
