CONSTANTS
  Subjects = {ana}
  Families = {f1, f2}
  Tokens = {t1, t2, t3, t4}
  Handlers = {h1, h2}
  NoSubject = NoSubject
  NoFamily = NoFamily
  NoToken = NoToken
SYMMETRY Symmetry
SPECIFICATION SessionsSpec
INVARIANTS
  SessionsTypeOK
  SessionsFindable
  UndisturbedRevocationIsComplete
  ReuseSparesSession
PROPERTIES
  ImplementsLineage
CHECK_DEADLOCK FALSE
