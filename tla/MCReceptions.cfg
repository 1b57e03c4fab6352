SPECIFICATION MCSpec
CONSTANTS
  c1 = c1 c2 = c2 v1 = v1 v2 = v2 v3 = v3
  s1 = s1 s2 = s2 s3 = s3 q1 = q1 q2 = q2 q3 = q3
  Requests = {s1, s2, s3, q1, q2, q3}
  Vehicles = {v1, v2, v3}
  Customers = {c1, c2}
  MaxMileage = 2
  None = None
CHECK_DEADLOCK FALSE
INVARIANTS RecordsConsistent NoLostUpdate
PROPERTIES ReceptionHistory Serializable EveryRequestEnds
