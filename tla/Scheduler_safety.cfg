\* Three protected calls compete for two permits, one background call for one.
SPECIFICATION Spec
CONSTANTS
  p1 = p1
  p2 = p2
  p3 = p3
  b1 = b1
  Protected = {p1, p2, p3}
  Background = {b1}
  Limit <- MCLimit
  QueueTimeout <- MCQueueTimeout
  ExecTimeout = 1
  RequestBudgets = {0, 1}
  Outcomes = {"value"}
SYMMETRY ProtectedSymmetry
INVARIANTS
  TypeOK
  OperationHoldsSlot
  AllocationMatchesJobs
  NothingWaitsForAFreeSlot
  AnswerMatchesFate
PROPERTIES
  StartsInOrderAndInTime
  ResultIsFinal
  NoStartAfterShutdown
  ImplementsSlot
