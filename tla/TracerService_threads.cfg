\* Two threads trace two requests that share an id, over one Redis connection.
CONSTANTS
  w1 = w1  w2 = w2
  a1 = a1  a2 = a2  b = b  a = a
  Workers = {w1, w2}
  ActionIds <- SharedActionIds
  Queries <- SharedQueries
  Callbacks <- SharedCallbacks
  CString <- MCCString
  Murmur <- MCMurmur
  Parses <- MCParses
  Renders <- MCRenders
  Empty = Empty  NotANumber = NotANumber  ConfigKey = ConfigKey
  NoValue = NoValue  NoEntry = NoEntry  NoPayload = NoPayload  NoId = NoId
  MaxDay = 0
SYMMETRY SharedSymmetry
SPECIFICATION Spec
INVARIANT IInv
PROPERTY ImplementsLedger
