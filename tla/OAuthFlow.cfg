CONSTANTS
  Flows = {f1, f2}
  Callbacks = {c1, c2}
  Instances = {i1, i2}
  ClientStates = {s1}
  Verifiers = {v1, v2}
  None = None
SPECIFICATION Spec
SYMMETRY Symmetry
CHECK_DEADLOCK FALSE
INVARIANTS
  TypeOK
  EntryTakenOnce
  EntryNotStale
  CliTokensNotInUrl
  PurgeSparesFresh
