SPECIFICATION FairSpec
CONSTANTS
  Request = {r1, r2}
  Sid = {s1}
  MaxAge = 1
  MaxAttempts = 2
  MaxClock = 1
  MaxGen = 3
  None = None
INVARIANTS
  NoIdentityPastMaxAge
  RevokedStopsImmediately
  LogoutFinalWithoutRefresh
  SpentTokenIsAccountedFor
PROPERTIES
  SessionEndsForAReason
  RequestsEnd
