\* The answer of a charge against the webhook about the same transaction.
SPECIFICATION MCSpec
CONSTANTS
  p1 = p1
  Payments = {p1}
  Workers = {w1, w2}
  NoJob = NoJob
  Outcomes = {"approved"}
  Initially = {"past_due"}
  Copies = {1}
  MaxAttempts = 1
  MaxFaults = 0
INVARIANT SyncedWhenQuiet
CHECK_DEADLOCK FALSE
