\* Clients that pass an empty value.
SPECIFICATION Spec
CONSTANTS
  nil = nil
  Absent = Absent
  EmptyValue = EmptyValue
  c1 = c1
  Client = {c1, c2}
  Key = {1}
  Value = {v1}
  ValuesPassed <- ValueArg
  Calls <- BatchAgainstOthers
  Fallible = FALSE
  MaxRestarts = 0
  MaxBatch = 1
  MaxLost = 0
INVARIANT OnlyNilIsRefused
