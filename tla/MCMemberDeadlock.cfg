SPECIFICATION AdminSpec
CONSTANTS
  Members = {m1, m2}
  Requests = {r1}
  Jobs = {}
  Admins = {p1}
  NoMember = NoMember
  s1 = s1
  s2 = s2
  a = a
  b = b
  q1 = q1
  q2 = q2
  q3 = q3
  w1 = w1
  w2 = w2
  Subjects = {s1, s2}
  Emails = {a, b}
  Invitations = {1, 2, 3}
  Callers = {q1, q2, q3}
  Home = Home
  None = None
  SlugAttempts = 2
  Events = {11, 12, 13}
  Hashes = {"x", "y"}
  Runners = {w1, w2}
  Budget = 2
  MaxClaims = 2
INVARIANT NoDeadlock
