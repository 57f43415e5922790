\* Calls and batches of two clients, lost answers, repeated Init, restarts.
SPECIFICATION Spec
CONSTANTS
  nil = nil
  Absent = Absent
  EmptyValue = EmptyValue
  c1 = c1
  Client = {c1, c2}
  Key = {1}
  Value = {v1}
  ValuesPassed <- ValuesAndNil
  Calls <- BatchAgainstOthers
  Fallible = TRUE
  MaxRestarts = 1
  MaxBatch = 2
  MaxLost = 1
INVARIANT TypeOK
PROPERTY ImplementsKVStore
