CONSTANTS
  NoKey = NoKey
  holder = holder
  pool = pool
  sss = sss
  fork = fork
  kyc = kyc
  admin = admin
  stranger = stranger
  Wallets = {holder, pool}
  Pdas = {pool}
  Accounts = {account}
  Issuers = {sss, fork}
  SasConfigs = {kyc}
  Keys = {admin, stranger}
  FreezeAuthority = admin
  Levels = {1, 2}
  MaxTime = 2
  MaxRecords = 2
  PolicyArgs <- MCPolicyArgs
SPECIFICATION Spec
CONSTRAINTS Small OwnersRecords OneRegistry
INVARIANTS
  TypeOK
  ListsMatchPolicy
  GateDecidesPolicy
  KeeperAgreesWithGate
PROPERTIES
  GateThawedKeepsOwner
  KeepsPromise
