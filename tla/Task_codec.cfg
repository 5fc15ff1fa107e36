CONSTANTS
  u1 = u1
  u2 = u2
  Ids = {i1, i2}
  Urls = {u1, u2}
  LastName <- MCLastName
  Nil = Nil
  MaxSize = 20
  Precision = 8
  Ulps = {1, 2, 4}

SPECIFICATION Spec

INVARIANTS
  TaskTypeOK
  DownloadedWithinTotal

PROPERTIES
  IdentitySurvives
  SizesSurvive

CHECK_DEADLOCK FALSE
