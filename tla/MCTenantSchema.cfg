SPECIFICATION MCSpec
CONSTANTS
  Ids = {1, 2, 3}
  Null = Null
  MaxRows = 2
INVARIANTS
  ReferencesAreOwn
  PathsAgree
