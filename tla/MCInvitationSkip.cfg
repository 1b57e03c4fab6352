SPECIFICATION Spec
CONSTANTS
  Workers = {w1}
  MaxAttempts = 2
  Lease = 3
  Safety = 2
  MinWindow = 1
  SendTimeout = 2
  TimerLag = 1
  Expiry = 7
  MaxTime = 8
  MaxRequeues = 1
INVARIANT PlainSkipMeansNotSent
CHECK_DEADLOCK FALSE
