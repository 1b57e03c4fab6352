SPECIFICATION MCSpec
CONSTANTS
  Purgers = {p1, p2}
  Nobody = Nobody
  Lease = 3
  StartWindow = 1
  DeleteTime = 1
  MaxTime = 7
  k1 = k1 k2 = k2 u1 = u1 u2 = u2 u3 = u3
  Keys = {k1, k2}
  Calls = {u1, u2, u3}
  ReceptionIds = {1, 2}
  Sums = {"s1", "s2"}
  UploadTtl = 1
  IncompleteKept = 1
  QuarantineKept = 1
  UnlinkedKept = 1
  SignatureKept = 2
  LastHour = 2
  LastKey = 5
  ForeignKeys = {5}
  MaxChanges = 2
  MaxFailures = 1
SYMMETRY Symmetry
INVARIANTS
  DeletesOnlyUnprotected
  ObjectAccountedFor
  UploadsAreSound
  UploadAnswersHold
  CompletedCanBeAttached
  NoUploadDeadlock
  ReportedWasTrue
  CompleteReportsMissNothing
PROPERTIES
  PromisesStand
CHECK_DEADLOCK FALSE
