\* One call of each class.
SPECIFICATION Spec
CONSTANTS
  p1 = p1
  p2 = p2
  p3 = p3
  b1 = b1
  Protected = {p1}
  Background = {b1}
  Limit <- MCLimit
  QueueTimeout <- MCQueueTimeout
  ExecTimeout = 1
  RequestBudgets = {}
  Outcomes = {"value"}
PROPERTY
  BackgroundNeverCostsProtected
