SPECIFICATION MCSpec
CONSTANTS
  Requests = {r1, r2}
  Tenants = {t1, t2}
  None = None
  PoolMax = 2
  MaxWaiters = 1
  MaxMoves = 2
  r1 = r1
  r2 = r2
  t1 = t1
  Assets = {1, 2, 3}
  Places = {p1, p2}
  Unbound = Unbound
  PageSize = 1
  MaxTurns = 2
  p1 = p1
  p2 = p2
INVARIANTS
  StatementsInside
  AnswerTellsTheOutcome
  WorkIsAuthorized
  DownloadPlacesAreSound
  ReadsAreSound
PROPERTY EveryRequestSettles
CHECK_DEADLOCK FALSE
