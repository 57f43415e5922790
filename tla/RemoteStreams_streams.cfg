\* A stream that is an iterator or a GetStream, with breaks, panics and a restart.
SPECIFICATION FairSpec
CONSTANTS
  nil = nil
  Absent = Absent
  NoOne = NoOne
  EmptyValue = EmptyValue
  Client = {c1, c2}
  Stream = {i1}
  Key = {1, 2}
  Value = {v1}
  Query <- SomeQueries
  Asks = {0, 1, 2}
  Fallible = TRUE
  Window = 1
  MaxRestarts = 1
  MaxAsks = 2
  MaxWrites = 1
  MaxBreaks = 1
INVARIANT TypeOK
INVARIANT AnswersMatch
PROPERTY ImplementsKVStore
PROPERTY EOFMeansEnd
PROPERTY EveryNextReturns
PROPERTY BrokenHandlersEnd
PROPERTY GetStreamsEnd
