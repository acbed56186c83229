CONSTANTS
  ann = ann
  bob = bob
  Uploads = {u1, u2}
  Names = {ann, bob}
  Malformed = Malformed
  Invalid = Invalid
  Files <- MCFiles
  Seeded = {ann}
  Touched = {bob}
  ChunkSize = 3
  SubBatch = 2
  Workers = 2
CHECK_DEADLOCK FALSE
SYMMETRY Symmetry
SPECIFICATION Spec
INVARIANTS
  TypeOK
  ResponseAddsUp
  InsertedAreReal
  NothingDropped
  WorkersBounded
