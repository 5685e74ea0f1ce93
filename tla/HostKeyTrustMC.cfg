SPECIFICATION Spec
CONSTANTS
  h1 = h1
  h2 = h2
  k1 = k1
  k2 = k2
  d1 = d1
  d2 = d2
  u1 = u1
  Host <- MCHost
  Key <- MCKey
  Handshake <- MCHandshake
  Request <- MCRequest
  NoKey = NoKey
  Unsure = Unsure
SYMMETRY Symmetry
INVARIANTS
  TypeOK
  TrustIsEarned
  TrustSurvivesRestart
