CONSTANTS
  ann = ann
  bob = bob
  Uploads = {u1, u2}
  Names = {ann, bob}
  Malformed = Malformed
  Invalid = Invalid
  Files <- MCLongFiles
  Seeded = {}
  Touched = {}
  ChunkSize = 1
  SubBatch = 1
  Workers = 1
CHECK_DEADLOCK FALSE
SPECIFICATION FairSpec
PROPERTY UploadAnswered
