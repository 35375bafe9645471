CONSTANTS
  Members = {ana}
  Classes = {k1, k2}
  Collections = {ring}
  Requests = {r1, r2}
  Handlers = {h1, h2}
  Nobody = Nobody
  Nothing = Nothing
  NoAsk = NoAsk
SYMMETRY Symmetry
SPECIFICATION AccessSpec
INVARIANTS
  AccessTypeOK
  SatisfiedAreClosed
  CompletedKeysAreIssued
PROPERTIES
  CompletedIsGranted
  DecisionsStand
CHECK_DEADLOCK FALSE
