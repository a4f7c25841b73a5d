CONSTANTS
  NoKey = NoKey
  holder = holder
  account = account
  sss = sss
  fork = fork
  kyc = kyc
  admin = admin
  shell = shell
  tab = tab
  Wallets = {holder}
  Pdas = {}
  Accounts = {account}
  Issuers = {sss, fork}
  SasConfigs = {kyc}
  Keys = {admin}
  FreezeAuthority = admin
  Levels = {1, 2}
  MaxTime = 2
  PolicyArgs <- MCPolicyArgs
  Clients = {shell, tab}
  KeyOf <- MCKeyOf
  Menu <- MCMenu
  SSS_TOKEN = sss
  MetadataAuthority = admin
  MaxCommands = 2
  MaxEvents = 1
SPECIFICATION ClientSpec
CONSTRAINT OneBeside
INVARIANT SwapIsWhole
PROPERTIES
  UpdateKeepsTheRest
  AnswersAreTrue
CHECK_DEADLOCK FALSE
