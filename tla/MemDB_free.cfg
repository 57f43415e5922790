\* Two clients, an iterator with or without the lock, and callers that promise nothing.
SPECIFICATION Spec
CONSTANTS
  NoOne = NoOne
  nil = nil
  Absent = Absent
  c1 = c1
  Client = {c1, c2}
  Iter = {i1}
  Key = {1, 2}
  Value = {v1}
  Calls <- WriteAgainstHas
  Query <- WithUnlocked
  chBufferSize = 1
  MaxBatch = 0
  MaxRaced = 2
  Discipline = "free"
INVARIANT WriterIsAlone
INVARIANT IteratorIsSnapshot
