CONSTANTS
  Creates = {c1, c2}
  Processes = {p1, p2}
  Spellings <- MCSpellings
  Postable <- MCPostable
  Lower <- MCLower
  Seeds <- MCSeeds
  Apis = {genderize, agify}
  None = None
SPECIFICATION Spec
SYMMETRY Symmetry
CHECK_DEADLOCK FALSE
INVARIANTS
  TypeOK
  CreatedOnlyIfAbsent
  ConflictOnlyByRace
  ErrorNamesCulprit
  InsertsWhatWasFetched
  SeedComplete
