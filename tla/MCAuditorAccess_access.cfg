SPECIFICATION Spec
CONSTANTS
  p1 = p1
  p2 = p2
  o1 = o1
  c1 = c1
  c2 = c2
  c3 = c3
  c4 = c4
  s1 = s1
  s2 = s2
  t1 = t1
  t2 = t2
  k1 = k1
  w1 = w1
  w2 = w2
  a1 = a1
  a2 = a2
  h1 = h1
  Processes = {p1, p2}
  Operators = {o1}
  Artifacts <- SignedArtifacts
  Challenges = {c1, c2, c3, c4}
  Sessions = {s1, s2}
  Tokens = {t1, t2}
  Checks = {k1}
  Payers = {w1, w2}
  Shares = {h1}
  ChallengeTtl = 1
  SessionTtl = 1
  ShareTtl = 1
  MaxClock = 1
SYMMETRY Symmetric
CONSTRAINT Bounded
CHECK_DEADLOCK FALSE
PROPERTIES
  RevocationStops
INVARIANTS
  ChallengeSignsOnce
  StoredAsSigned
  RevisionsSequential
  WithinGrant
