\* One thread, two ids, over more days than Redis keeps them: crashes, losses of
\* power, failing stores, and handlers that must end.
CONSTANTS
  w1 = w1  w2 = w2
  a1 = a1  a2 = a2  b = b  a = a
  Workers = {w1}
  ActionIds <- DaysActionIds
  Queries <- DaysQueries
  Callbacks <- DaysCallbacks
  CString <- MCCString
  Murmur <- MCMurmur
  Parses <- MCParses
  Renders <- DaysRenders
  Empty = Empty  NotANumber = NotANumber  ConfigKey = ConfigKey
  NoValue = NoValue  NoEntry = NoEntry  NoPayload = NoPayload  NoId = NoId
  MaxDay = 3
SPECIFICATION FairSpec
INVARIANTS AckedIsStored SyncedAckIsStored ForwardedIsStored CacheBounded
PROPERTY RequestsFinish
