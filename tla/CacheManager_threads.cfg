\* Two callers and the background thread over two keys; the loader may throw for one.
CONSTANTS
  t1 = t1  t2 = t2  k1 = k1  k2 = k2  x = x
  Threads = {t1, t2}
  Keys = {k1, k2}
  Values = {x}
  Throws = {k1}
  Interval = 2
  MaxLoad = 1
  NoEntry = NoEntry  NoKey = NoKey  NoValue = NoValue
SPECIFICATION FairSpec
INVARIANT TypeOK
PROPERTIES IterationUndisturbed ImplementsRecentReads
           GetReturns ExpiredIsReloaded DestructorReturns
