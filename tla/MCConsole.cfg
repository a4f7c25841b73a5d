CONSTANTS
  Wallets = {w1, w2}
  MaxMints = 3
  Modes = {"off", "create"}
  MaxHandlers = 2
  MaxMishaps = 2
  m1 = m1
  m2 = m2
  Names = {m1, m2, junk}
  Unit <- MCUnit
  Rows = {a1, a2}
  Typed = {0, 1}
  Rooms = {0, 1}
  MaxNamings = 2
  MaxCardMints = 2
  Routes = {"none", "decisions", "reserves", "mint"}
SPECIFICATION ConsoleSpec
CONSTRAINTS
  CardLast
  AfterCrossing
INVARIANTS
  ConsoleTypeOK
  DoneIsOnChain
  RetryKeepsMint
  ShownIsOfTheMint
  AmountsAsTyped
PROPERTIES
  WizardCompletes
  RowsAreJudged
CHECK_DEADLOCK FALSE
