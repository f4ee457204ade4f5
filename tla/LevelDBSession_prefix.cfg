\* Three calls on two keys, with batches of two updates.
CONSTANTS
  k1 = k1  k2 = k2  x = x  y = y
  Keys = {k1, k2}
  Values = {x, y}
  NoValue = NoValue
  MaxCalls = 3
  MaxBatch = 2
SYMMETRY Symmetry
SPECIFICATION Spec
INVARIANTS ReadsFollowWrites LossIsAPrefix
