CONSTANTS
  Calls = {r1, r2, r3}
  Keys = {u1, u2}
  u1 = u1
  u2 = u2
  AccessTokens = {1, 2}
  Holder <- HolderMC
  Burst = 1
  Idle = 1
  TokenLife = 2
  Managed = {u1}
  MaxTime = 2
  None = None
SPECIFICATION Spec
SYMMETRY Symmetry
CHECK_DEADLOCK FALSE
INVARIANTS
  TypeOK
  WritersWereAdmins
  DisabledShutOut
  ThrottledByOwnRequests
  WithinTwiceTheBurst
