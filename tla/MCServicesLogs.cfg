CONSTANTS
  Mints = {m1}
  Wallets = {w1}
  Requests = {r1}
  LogsOf <- ProgramLogs
  PollLimit = 2
  SendAttempts = 2
  MaxTxs = 2
  MaxFaults = 1
  Endpoints = {e1}
  MaxDeliveries = 1
SPECIFICATION ServicesSpec
CONSTRAINT TakeTurns
PROPERTY RecordsTheProgram
CHECK_DEADLOCK FALSE
