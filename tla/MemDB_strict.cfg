\* Clients that call nothing else while they have an iterator open: liveness.
SPECIFICATION FairSpec
CONSTANTS
  NoOne = NoOne
  nil = nil
  Absent = Absent
  c1 = c1
  Client = {c1, c2}
  Iter = {i1}
  Key = {1, 2, 3}
  Value = {v1}
  Calls <- WriteAgainstItems
  Query <- FullForward
  chBufferSize = 1
  MaxBatch = 0
  MaxRaced = 0
  Discipline = "strict"
PROPERTY CallsReturn
PROPERTY CloseFreesLock
