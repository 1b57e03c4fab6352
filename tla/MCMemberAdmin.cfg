SPECIFICATION MCSpec
CONSTANTS
  Members = {m1, m2}
  Requests = {r1, r2}
  Jobs = {j1}
  Admins = {p1}
  NoMember = NoMember
  s1 = s1
  s2 = s2
  a = a
  b = b
  q1 = q1
  q2 = q2
  q3 = q3
  w1 = w1
  w2 = w2
  Subjects = {s1, s2}
  Emails = {a, b}
  Invitations = {1, 2, 3}
  Callers = {q1, q2, q3}
  Home = Home
  None = None
  SlugAttempts = 2
  Events = {11, 12, 13}
  Hashes = {"x", "y"}
  Runners = {w1, w2}
  Budget = 2
  MaxClaims = 2
SYMMETRY Symmetry
INVARIANTS
  AtLeastOneOwner
  AccountsAreSound
  TombstonesHold
  QuietIdentityIsInSync
PROPERTIES
  AuthorizedAtCommit
  AuditTellsTheTruth
  GrantsOnlyToActive
CHECK_DEADLOCK FALSE
