SPECIFICATION Spec
CONSTANTS
  Host = {h1}
  Key = {k1, k2}
  Handshake = {d1, d2}
  Request = {u1}
  NoKey = NoKey
  Unsure = Unsure
INVARIANT RevocationSurvivesRestart
