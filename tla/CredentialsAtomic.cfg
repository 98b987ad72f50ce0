CONSTANTS
  v1 = v1
  v2 = v2
  s1 = s1
  s2 = s2
  s3 = s3
  d1 = d1
  q1 = q1
  r1 = r1
  r2 = r2
  p0 = p0
  p1 = p1
  p2 = p2
  Venues = {v1, v2}
  Stores = {s1, s3}
  Deletes = {}
  Retrieves = {}
  Rotations = {r1}
  Passphrases = {p0, p1}
  Venue <- MCVenue
  Old <- MCOld
  New <- MCNew
  Initial = p0
SPECIFICATION Spec
CHECK_DEADLOCK FALSE
INVARIANT RotationAllOrNothing
