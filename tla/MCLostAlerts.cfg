SPECIFICATION Spec
CONSTANTS
  Id <- Ids
  Time <- Times
  Status <- Statuses
  Limit = 1
  MaxChanges = 1
INVARIANT AlertPagesAreComplete
CHECK_DEADLOCK FALSE
