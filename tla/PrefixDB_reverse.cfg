\* A prefix that ends in 0xFF, iterated in reverse from the end.
SPECIFICATION Spec
CONSTANTS
  MaxByte = 2
  nil = nil
  Absent = Absent
  NoOne = NoOne
  c1 = c1
  c2 = c2
  Client = {c1, c2}
  Iter = {i1}
  PrefixOf <- CarryAndPlain
  Key <- TwoKeys
  ParentKey <- AroundBoth
  Value = {v1}
  Programs <- JustIterators
  Query <- Anything
  MaxBatch = 0
PROPERTY ReverseStartsAtLastKey
