CONSTANTS
  Nobody = Nobody
  issuer = issuer
  holder = holder
  other = other
  treasury = treasury
  wallet = wallet
  side = side
  OwnerOf <- MCOwnerOf
  Keys = {issuer, other}
  Accounts = {treasury}
  Atas = {treasury}
  InitArgs <- ReserveInitArgs
  RoleGrants = {}
  Limits = {1}
  Periods = {"Daily"}
  NewMasters = {}
  Delegations = {}
  Attestors = {issuer, other}
  Stalenesses = {1}
  Postings = {1, 2}
  Amounts = {1, 2}
  U64Max = 3
  Day = 1
  MaxTime = 2
SPECIFICATION Spec
CONSTRAINT IssuerFirst
INVARIANT
  DailyQuotaResets
