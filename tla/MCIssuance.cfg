CONSTANTS
  Nobody = Nobody
  issuer = issuer
  holder = holder
  treasury = treasury
  wallet = wallet
  OwnerOf <- MCOwnerOf
  Keys = {issuer, holder}
  Accounts = {treasury, wallet}
  Atas = {treasury, wallet}
  InitArgs = {}
  RoleGrants = {}
  Limits = {}
  Periods = {}
  NewMasters = {}
  Delegations = {}
  Attestors = {issuer, holder}
  Stalenesses = {1}
  Postings = {}
  Amounts = {}
  U64Max = 2
  Day = 1
  MaxTime = 2
  AttestorKey = issuer
  Reports <- MCReports
  MaxReports = 1
  MaxFaults = 1
  Scripts <- MCScripts
  MaxInterrupts = 1
SPECIFICATION MCSpec
CONSTRAINT WhereItMatters
INVARIANTS
  IssuanceTypeOK
  AuditIsTrue
PROPERTIES
  MintsAreBacked
  ReservesFollowReport
CHECK_DEADLOCK FALSE
