CONSTANTS
  m1 = m1
  m2 = m2
  w1 = w1
  w2 = w2
  Mints = {m1, m2}
  Wallets = {w1}
  Exempt = {}
  HasVersion = TRUE
  MAX_SEND_ATTEMPTS = 2
  Changes = {"entry", "holders", "role", "policy", "list"}
  MaxChanges = 2
  MaxFaults = 1
SPECIFICATION Spec
PROPERTY RetryRespectsRemoval
