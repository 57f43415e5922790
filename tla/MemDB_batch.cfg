\* Batches against reads and an iterator: MemDB implements KVStore.
SPECIFICATION Spec
CONSTANTS
  NoOne = NoOne
  nil = nil
  Absent = Absent
  c1 = c1
  Client = {c1, c2}
  Iter = {i1}
  Key = {1, 2}
  Value = {v1}
  Calls <- BatchAgainstReads
  Query <- FullForward
  chBufferSize = 1
  MaxBatch = 2
  MaxRaced = 0
  Discipline = "strict"
INVARIANT TypeOK
PROPERTY ImplementsKVStore
