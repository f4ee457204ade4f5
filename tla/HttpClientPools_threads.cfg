\* Three callers, two request objects, calls with and without a body.
CONSTANTS
  t1 = t1  t2 = t2  t3 = t3
  c1 = c1  c2 = c2
  Threads = {t1, t2, t3}
  Clients = {c1, c2}
  u1 = u1  u2 = u2  b1 = b1  b2 = b2
  Urls = {u1, u2}
  Bodies = {b1, b2}
  Calls <- MCCalls
  NoUrl = NoUrl  NoBody = NoBody  NoCall = NoCall  NoClient = NoClient
SPECIFICATION FairSpec
INVARIANTS TypeOK NoClientLostOrShared NoLostWakeup OwnRequest
PROPERTIES ImplementsPool CallsReturn
