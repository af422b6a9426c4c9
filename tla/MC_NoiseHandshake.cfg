SPECIFICATION Spec
CONSTANTS
  i1 = i1
  i2 = i2
  r1 = r1
  r2 = r2
  us = us
  them = them
  other = other
  stranger = stranger
  Initiators = {i1, i2}
  Responders = {r1, r2, stranger}
  StaticKey = {us, them, other}
  Static <- MCStatic
  Expected <- MCExpected
  Malformed = malformed
  None = none
  MaxBadTags = 1
SYMMETRY MCSymmetry
INVARIANTS
  PanicsUnreachable
  ResponderIsExpected
  InitiatorIsKnown
  CiphersMatch
  GenuineActAccepted
PROPERTIES
  BadTagIsFinal
CHECK_DEADLOCK FALSE
