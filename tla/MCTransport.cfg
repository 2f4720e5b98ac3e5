SPECIFICATION TransportSpec
CONSTANTS
  Methods = {"dh", "gex", "rsa"}
  MaxSent <- MCMaxSent
  MaxRekeys = 1
  Resumes = FALSE
  EarlyRekey = TRUE
  Times = {0, 2, 3}
  Limits = {1, 2}
  MaxQueued = 1
  SameTime = FALSE
  DuringLogin = FALSE
INVARIANTS KeysAgree RekeysKept
PROPERTIES ImplementsStream KexHappens
CHECK_DEADLOCK FALSE
