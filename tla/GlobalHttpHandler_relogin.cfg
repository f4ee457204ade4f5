\* A new login does not revive an expired token.
CONSTANTS
  t1 = t1  t2 = t2  k1 = k1
  Threads = {t1}
  Tokens = {k1}
  Unknown = Unknown  NoToken = NoToken  Absent = Absent
  MinuteLen = 2
  MaxNow = 8
  HTTP_HANDLER_AUTH_EXPIRED_TIME = 1
SPECIFICATION Spec
PROPERTY LoginRevives
