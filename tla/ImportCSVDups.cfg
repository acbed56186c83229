CONSTANTS
  ann = ann
  bob = bob
  Uploads = {u1}
  Names = {ann, bob}
  Malformed = Malformed
  Invalid = Invalid
  Files <- MCFiles
  Seeded = {ann, bob}
  Touched = {}
  ChunkSize = 2
  SubBatch = 1
  Workers = 1
CHECK_DEADLOCK FALSE
SPECIFICATION Spec
INVARIANT AllDuplicatesInsertNothing
