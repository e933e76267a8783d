\* Two clients that may be killed, under fairness.
SPECIFICATION FairSpec
CONSTANTS
  Clients = {c1, c2}
  Crashing = {c1, c2}
  LateStart = TRUE
  MaxQueue = 2
INVARIANTS
  ConnectComesAlone
  ServerSetsAgree
  NoUpdateAbandoned
  CancelsUnreadOnly
PROPERTIES
  QuitAnswered
  StopIsTold
CHECK_DEADLOCK FALSE
