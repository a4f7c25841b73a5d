CONSTANTS
  Mints = {m1}
  Wallets = {w1}
  Requests = {r1}
  LogsOf <- NamedLogs
  PollLimit = 2
  SendAttempts = 2
  MaxTxs = 3
  MaxFaults = 1
  Endpoints = {e1}
  MaxDeliveries = 1
SPECIFICATION ServicesSpec
CONSTRAINT TakeTurns
INVARIANTS TypeOK TotalsCountRows StatusTells
PROPERTIES PollRecords QueuedEnds
CHECK_DEADLOCK FALSE
