\* Two protected calls and a background one, under the fairness of the event
\* loop alone: an operation may never end, or end in cancellation.
SPECIFICATION FairSpec
CONSTANTS
  p1 = p1
  p2 = p2
  p3 = p3
  b1 = b1
  Protected = {p1, p2}
  Background = {b1}
  Limit <- MCLimit
  QueueTimeout <- MCQueueTimeout
  ExecTimeout = 1
  RequestBudgets = {}
  Outcomes = {"cancelled"}
PROPERTIES
  CallersAreAnswered
  ShutdownDrains
