SPECIFICATION Spec
CONSTANTS
  Requests = {r1, r2}
  UserIds = {u1, u2}
  Tokens = {t1, t2}
  Names = {n1, n2}
  Emails = {e1, e2}
  Passwords = {good, short, long}
  ShortPasswords = {short}
  LongPasswords = {long}
  Duration = 1
  MaxClock = 2
  DbFaults = FALSE
  ForeignKeys = FALSE
  StoreApi = FALSE
  None = None
INVARIANTS
  OnlyTheFirstAdmin
