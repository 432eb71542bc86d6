SPECIFICATION Spec
CONSTANTS
  People = {p1}
  NoPerson = NoPerson
  Tokens = {t1}
  NoToken = NoToken
  MaxId = 2
  TokenLife = 4
  Window = 2
  Faults = {"refused", "unheard", "linkFails", "commitFails", "crash"}
  MaxFaults = 2
  Requests = {r1, r2}
  VerdictTtl = 1
  CacheLimit = 1
  ServiceLife = 3
  RefreshSkew = 2
  AnswerDelay = 1
  Transit = 1
INVARIANTS
  ProfileHasAccount
  WithdrawnCannotLogIn
  OrphanHasCause
  ArrivesAuthenticated
PROPERTIES
  AdmitsOnlyRecentlyLive
SYMMETRY Threads
CHECK_DEADLOCK FALSE
