CONSTANTS
  Requests = {1, 2, 3}
  GitHubIds = {g1}
  Managed = {g1}
  MaxWrites = 1
  NoUser = NoUser
  NoRow = NoRow
  NoRole = NoRole
SPECIFICATION Spec
INVARIANT OneValidTokenPerUser
CHECK_DEADLOCK FALSE
