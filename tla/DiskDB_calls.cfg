\* Batches, writes and syncs of two clients, or an iterator, on every backend, with crashes.
SPECIFICATION Spec
CONSTANTS
  nil = nil
  Absent = Absent
  NoOne = NoOne
  c1 = c1
  Client = {c1, c2}
  Iter = {i1}
  Key = {1, 2}
  Value = {v1}
  Backends <- AllBackends
  Opened <- Empty
  Programs <- AllPrograms
  Query <- SomeQueries
  Fallible = TRUE
  MaxBatch = 1
  MaxWrites = 2
  MaxCrashes = 1
INVARIANT TypeOK
PROPERTY ImplementsKVStore
PROPERTY SyncedSurvives
