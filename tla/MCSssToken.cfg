CONSTANTS
  Nobody = Nobody
  issuer = issuer
  holder = holder
  other = other
  treasury = treasury
  wallet = wallet
  side = side
  OwnerOf <- MCOwnerOf
  Keys = {issuer, holder}
  Accounts = {treasury, wallet, side}
  Atas = {treasury, wallet}
  InitArgs <- MintInitArgs
  RoleGrants <- RolesOfTheMint
  Limits = {0}
  Periods = {"Lifetime"}
  NewMasters = {holder}
  Delegations <- OneDelegate
  Attestors = {issuer}
  Stalenesses = {1}
  Postings = {2}
  Amounts = {1}
  U64Max = 2
  Day = 1
  MaxTime = 1
SPECIFICATION Spec
CONSTRAINT SetupFirst
INVARIANTS
  TypeOK
  OneMaster
  PauseInStep
  SupplyWithinMinted
PROPERTIES
  FrozenMovesOnlyBySeizure
  PausedMintIsStill
  HookHoldsBlacklisted
