\* Two namespaces side by side: reads, writes and batches, or every iterator but the reverse
\* ones from the end of the prefix that ends in 0xFF.
SPECIFICATION Spec
CONSTANTS
  MaxByte = 2
  nil = nil
  Absent = Absent
  NoOne = NoOne
  c1 = c1
  c2 = c2
  Client = {c1, c2}
  Iter = {i1}
  PrefixOf <- CarryAndPlain
  Key <- TwoKeys
  ParentKey <- AroundBoth
  Value = {v1}
  Programs <- CallsOrIterators
  Query <- WithoutCarryFromNil
  MaxBatch = 2
INVARIANT TypeOK
INVARIANT IteratePrefixIsExact
INVARIANT BackendKeysHavePrefix
PROPERTY ImplementsKVStore
