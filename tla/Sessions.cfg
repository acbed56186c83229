CONSTANTS
  Requests = {1, 2, 3}
  GitHubIds = {g1, g2}
  Managed = {g1}
  MaxWrites = 1
  NoUser = NoUser
  NoRow = NoRow
  NoRole = NoRole
SPECIFICATION FairSpec
INVARIANTS
  TypeOK
  Superseded
  DeadTokenRefused
PROPERTIES
  SomeAdmin
  NoLateAdmin
  ClaimsMatchRow
  ImplementsTokenStore
  EveryRequestAnswered
CHECK_DEADLOCK FALSE
