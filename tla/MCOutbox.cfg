SPECIFICATION MCSpec
CONSTANTS
  Events = {e1, e2}
  Workers = {w1, w2}
  NoEvent = NoEvent
  e1 = e1
  MaxAttempts = 2
  BaseDelay = 1
  MaxDelay = 1
  Stall = 1
  BatchSize = 2
  MaxFaults = 2
INVARIANTS
  ExactlyOnceWithoutStall
  RetriesWithinBudget
PROPERTIES
  ImplementsContract
  EveryJobFinishes
