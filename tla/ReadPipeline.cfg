SPECIFICATION Spec
CONSTANTS
  p1 = p1
  p2 = p2
  b1 = b1
  b2 = b2
  Protected = {p1, p2}
  Background = {b1, b2}
  Capacity <- MCCapacity
  QueueTimeout <- MCQueueTimeout
  UpstreamTimeout = 2
  RetryFloor = 2
  Backoff = 1
  MinCooldown = 1
  RetryLimit = 2
  RetryAfters = {0, 2}
SYMMETRY Symmetry
INVARIANTS
  TypeOK
  CooldownCoversTheAsk
  AnsweredInTime
PROPERTIES
  AnswerMatchesCalls
  NoCallWhileAsked
  UsesSlot
