\* Two workers; the payments and faults are those of MCInit.
SPECIFICATION MCSpec
CONSTANTS
  p1 = p1
  Payments = {p1, p2}
  Workers = {w1, w2}
  NoJob = NoJob
  Outcomes = {"approved", "declined", "voided"}
  Initially = {"past_due", "cancelled"}
  Copies = {1}
  MaxAttempts = 3
  MaxFaults = 2
INVARIANTS KnownIsKept FinalStatusStays
PROPERTIES OneEffectPerOutcome EventuallyKnown
CHECK_DEADLOCK FALSE
