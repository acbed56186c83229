CONSTANTS
  Flows = {f1, f2}
  Callbacks = {c1, c2}
  Instances = {i1}
  ClientStates = {s1}
  Verifiers = {v1}
  None = None
SPECIFICATION FairSpec
CHECK_DEADLOCK FALSE
PROPERTIES ExpiredPurged ImplementsLoginTickets
