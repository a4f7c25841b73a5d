CONSTANTS
  NoKey = NoKey
  holder = holder
  sss = sss
  kyc = kyc
  Wallets = {holder}
  Accounts = {wallet}
  OwnerOf <- MCOwnerOf
  Issuers = {sss}
  SasConfigs = {kyc}
  lists = lists
  credentials = credentials
  both = both
  Policies = {credentials, lists}
  Terms <- MCTerms
  Unset = Unset
  Handlers = {handler}
  Environments <- OneTrouble
SPECIFICATION MCSpec
PROPERTIES
  FreezesAll
  IndexConverges
