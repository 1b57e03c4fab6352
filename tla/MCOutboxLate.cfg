SPECIFICATION MCSpec
CONSTANTS
  Events = {e1}
  Workers = {w1, w2}
  NoEvent = NoEvent
  e1 = e1
  MaxAttempts = 2
  BaseDelay = 1
  MaxDelay = 2
  Stall = 1
  BatchSize = 1
  MaxFaults = 2
PROPERTY LateCallIsNoOp
