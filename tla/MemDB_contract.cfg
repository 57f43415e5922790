\* Callers that keep the contract of DB.Iterator, and read while they iterate.
SPECIFICATION FairSpec
CONSTANTS
  NoOne = NoOne
  nil = nil
  Absent = Absent
  c1 = c1
  Client = {c1, c2}
  Iter = {i1}
  Key = {1, 2, 3, 4}
  Value = {v1}
  Calls <- SetAgainstGet
  Query <- Partial
  chBufferSize = 1
  MaxBatch = 0
  MaxRaced = 0
  Discipline = "contract"
CHECK_DEADLOCK FALSE
PROPERTY GetReturns
