SPECIFICATION LiveSpec
CONSTANTS
  Pages <- MCPages
  MaxPairs = 3
  MaxLoads = 2
  Sockets = {s1, s2, s3}
  NoSocket = NoSocket
  MaxTimers = 2
CHECK_DEADLOCK FALSE
INVARIANTS
  TypeOK
  WaitersHaveRefresh
  OneLiveSocket
PROPERTIES
  RefreshTokenOnce
  SignedOutStaysOut
  LogoutEndsSession
  LossReconnects
