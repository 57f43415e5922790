\* An iterator that is closed before it has shown everything.
SPECIFICATION FairSpec
CONSTANTS
  nil = nil
  Absent = Absent
  NoOne = NoOne
  EmptyValue = EmptyValue
  Client = {c1}
  Stream = {i1}
  Key = {1, 2, 3}
  Value = {v1}
  Query <- Full
  Asks = {0, 1, 2}
  Fallible = FALSE
  Window = 1
  MaxRestarts = 0
  MaxAsks = 0
  MaxWrites = 0
  MaxBreaks = 0
PROPERTY CloseReleases
