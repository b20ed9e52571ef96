SPECIFICATION Spec
CONSTANTS
  Requests = {r1, r2}
  UserIds = {u1, u2}
  Tokens = {t1, t2}
  Names = {n1}
  Emails = {e1}
  Passwords = {good}
  ShortPasswords = {}
  LongPasswords = {}
  Duration = 1
  MaxClock = 1
  DbFaults = TRUE
  ForeignKeys = FALSE
  StoreApi = TRUE
  None = None
PROPERTIES
  ImplementsAuthority
SYMMETRY Symmetry
