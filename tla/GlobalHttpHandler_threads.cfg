\* Two threads check a token without a lock; a window of one minute of two ticks.
CONSTANTS
  t1 = t1  t2 = t2  k1 = k1
  Threads = {t1, t2}
  Tokens = {k1}
  Unknown = Unknown  NoToken = NoToken  Absent = Absent
  MinuteLen = 2
  MaxNow = 8
  HTTP_HANDLER_AUTH_EXPIRED_TIME = 1
SYMMETRY ThreadSymmetry
SPECIFICATION Spec
INVARIANT IInv
PROPERTIES AcceptedIsFresh ExpiredForGood
