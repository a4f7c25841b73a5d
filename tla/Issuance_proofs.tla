-------------------------- MODULE Issuance_proofs --------------------------
(***************************************************************************)
(* Proofs about Issuance: whatever commands an operator has at hand, the   *)
(* audit log is true and mints are backed, beside an attestor service.     *)
(* A command's transaction is a step of SssToken, with the caller's        *)
(* arguments in place of those the runs try, except setupMinting, which    *)
(* is three instructions in one.                                           *)
(***************************************************************************)
EXTENDS Issuance, SssToken_proofs

USE DEF Amounts64, Positive, PeriodNames

-----------------------------------------------------------------------------
(* What holds between steps.                                               *)

Ticks == [phase: Phases, report: Reports, seen: ReserveType]

\* The service: what its tick read, and its posts.
ServiceInv ==
  /\ report \in Reports /\ published \in 0 .. MaxReports /\ faults \in 0 .. MaxFaults
  /\ tick \in Ticks /\ posts \subseteq Reports

CliType ==
  [phase: {"prompt", "sent", "landed"}, command: Commands \cup {AtPrompt.command}, step: Nat,
   tx: Transactions \cup {AtPrompt.tx}]

\* The operator: what was sent is the command's transaction.
OperatorInv ==
  /\ script \in Scripts /\ cli \in CliType
  /\ cli.phase # "prompt" =>
       /\ cli.command \in Commands /\ cli.step \in DOMAIN cli.command.txs
       /\ cli.tx \in Transactions /\ cli.tx.do = cli.command.txs[cli.step].do
  /\ stray \subseteq Transactions
  /\ interrupts \in 0 .. MaxInterrupts
  /\ audit \in [minted: Nat, burned: Nat]

\* What has landed and is not yet written down.
Unlogged(amount) == IF cli.phase = "landed" THEN amount ELSE 0

\* The log and its unwritten line against the counters on chain.
Ledger ==
  /\ audit.minted + Unlogged(Minted(cli.tx)) <= config.total_minted
  /\ audit.burned + Unlogged(Burned(cli.tx)) <= config.total_burned
  /\ interrupts = 0 =>
       stray = {} /\ audit.minted + Unlogged(Minted(cli.tx)) = config.total_minted

\* Nothing is counted before initialize.
Unstarted == config.authority = Nobody => config.total_minted = 0 /\ config.total_burned = 0

IssuanceInv == Inv /\ ServiceInv /\ OperatorInv /\ Ledger /\ Unstarted

-----------------------------------------------------------------------------
(* Transactions.                                                           *)

\* The fields a transaction of each kind has.
LEMMA Fields ==
  ASSUME NEW tx \in Transactions
  PROVE  /\ tx.by \in Keys
         /\ tx.do = "initialize" => tx.args \in InitArgType
         /\ tx.do = "enableTokenAcl" => tx.check_blacklist \in BOOLEAN
         /\ tx.do = "setupMinting" =>
              tx.amount \in U64 /\ tx.attestor \in Keys /\ tx.staleness \in Positive /\ tx.as_of \in Nat
         /\ tx.do = "mintTokens" => tx.recipient \in Keys /\ tx.amount \in Amounts64
         /\ tx.do = "burnTokens" => tx.amount \in Amounts64
         /\ tx.do \in {"freezeAccount", "thawAccount"} => tx.account \in Accounts
         /\ tx.do = "updateRoles" => tx.holder \in Keys /\ tx.role \in Roles /\ tx.active \in BOOLEAN
         /\ tx.do = "updateMinter" => tx.minter \in Keys /\ tx.limit \in U64 /\ tx.period \in PeriodNames
         /\ tx.do = "transferAuthority" => tx.new_authority \in Keys
         /\ tx.do = "addToBlacklist" => tx.target \in Keys /\ tx.account \in Accounts
         /\ tx.do = "removeFromBlacklist" => tx.target \in Keys
         /\ tx.do \in {"addToAllowlist", "removeFromAllowlist"} => tx.wallet \in Keys
         /\ tx.do = "seize" => tx.owner \in Keys /\ tx.account \in Accounts /\ tx.treasury \in Accounts
         /\ tx.do = "attestReserves" => tx.amount \in U64 /\ tx.as_of \in Nat
<1>1. tx.by \in Keys
  BY DEF Transactions
<1>2. tx.do = "initialize" => tx.args \in InitArgType
  BY DEF Transactions
<1>3. tx.do = "enableTokenAcl" => tx.check_blacklist \in BOOLEAN
  BY DEF Transactions
<1>4. tx.do = "setupMinting" =>
        tx.amount \in U64 /\ tx.attestor \in Keys /\ tx.staleness \in Positive /\ tx.as_of \in Nat
  BY DEF Transactions
<1>5. tx.do = "mintTokens" => tx.recipient \in Keys /\ tx.amount \in Amounts64
  BY DEF Transactions
<1>6. tx.do = "burnTokens" => tx.amount \in Amounts64
  BY DEF Transactions
<1>7. tx.do \in {"freezeAccount", "thawAccount"} => tx.account \in Accounts
  BY DEF Transactions
<1>8. tx.do = "updateRoles" => tx.holder \in Keys /\ tx.role \in Roles /\ tx.active \in BOOLEAN
  BY DEF Transactions
<1>9. tx.do = "updateMinter" => tx.minter \in Keys /\ tx.limit \in U64 /\ tx.period \in PeriodNames
  BY DEF Transactions
<1>10. tx.do = "transferAuthority" => tx.new_authority \in Keys
  BY DEF Transactions
<1>11. tx.do = "addToBlacklist" => tx.target \in Keys /\ tx.account \in Accounts
  BY DEF Transactions
<1>12. tx.do = "removeFromBlacklist" => tx.target \in Keys
  BY DEF Transactions
<1>13. tx.do \in {"addToAllowlist", "removeFromAllowlist"} => tx.wallet \in Keys
  BY DEF Transactions
<1>14. tx.do = "seize" => tx.owner \in Keys /\ tx.account \in Accounts /\ tx.treasury \in Accounts
  BY DEF Transactions
<1>15. tx.do = "attestReserves" => tx.amount \in U64 /\ tx.as_of \in Nat
  BY DEF Transactions
<1>. QED
  BY <1>1, <1>2, <1>3, <1>4, <1>5, <1>6, <1>7, <1>8, <1>9, <1>10, <1>11, <1>12, <1>13, <1>14, <1>15

\* setupMinting is what a transaction may be beside one instruction.
SetUp ==
  \E k \in Keys, amount \in U64, attestor \in Keys, staleness \in Positive, as_of \in Nat :
    setupMinting(k, amount, attestor, staleness, amount, as_of)

\* A transaction that lands is one instruction of the program, or setupMinting.
LEMMA TransactionsAreSteps ==
  ASSUME TypeOK, NEW tx \in Transactions, Execute(tx)
  PROVE  AnyNext \/ SetUp
<1>. USE Fields
<1>1. Initializes(tx) => AnyAuthority(tx.by)
  BY DEF Initializes, AnyAuthority
<1>2. EnablesAcl(tx) => AnyAuthority(tx.by)
  BY DEF EnablesAcl, enableTokenAcl, AnyAuthority
<1>3. SetsUp(tx) => SetUp
  BY DEF SetsUp, SetUp
<1>4. Mints(tx) => AnyOperator(tx.by)
  BY DEF Mints, mintTokens, AnyOperator
<1>5. Burns(tx) => AnyOperator(tx.by)
  BY DEF Burns, burnTokens, AnyOperator
<1>6. Freezes(tx) \/ Thaws(tx) => AnyOperator(tx.by)
  BY DEF Freezes, Thaws, freezeAccount, thawAccount, AnyOperator
<1>7. Pauses(tx) \/ Unpauses(tx) => AnyOperator(tx.by)
  BY DEF Pauses, Unpauses, pause, unpause, AnyOperator
<1>8. GrantsRole(tx) => AnyAuthority(tx.by)
  <2>1. ASSUME GrantsRole(tx)
        PROVE  \E grant \in Keys \X Roles, active \in BOOLEAN : UpdateRoles(tx.by, grant[1], grant[2], active)
    <3>1. /\ <<tx.holder, tx.role>> \in Keys \X Roles /\ tx.active \in BOOLEAN
          /\ UpdateRoles(tx.by, <<tx.holder, tx.role>>[1], <<tx.holder, tx.role>>[2], tx.active)
      BY <2>1 DEF GrantsRole, updateRoles
    <3>. QED  BY <3>1
  <2>. QED  BY <2>1 DEF AnyAuthority
<1>9. SetsMinter(tx) => AnyAuthority(tx.by)
  BY DEF SetsMinter, updateMinter, AnyAuthority
<1>10. HandsOver(tx) => AnyAuthority(tx.by)
  BY DEF HandsOver, transferAuthority, AnyAuthority
<1>11. Allowlists(tx) => AnyAuthority(tx.by)
  BY DEF Allowlists, addToAllowlist, removeFromAllowlist, AnyAuthority
<1>12. PostsReserves(tx) => AnyOperator(tx.by)
  <2>1. ASSUME PostsReserves(tx) PROVE tx.amount \in U64 /\ tx.as_of \in 0 .. MaxTime /\ AttestReserves(tx.by, tx.amount, tx.as_of)
    BY <2>1, TypeParts, SssConstants DEF PostsReserves, attestReserves, AttestReserves
  <2>. QED  BY <2>1 DEF AnyOperator
<1>13. Blacklists(tx) \/ Unblacklists(tx) => AnyOperator(tx.by)
  BY DEF Blacklists, Unblacklists, addToBlacklist, removeFromBlacklist, AnyOperator
<1>14. Seizes(tx) => AnyOperator(tx.by)
  BY DEF Seizes, seize, AnyOperator
<1>. QED
  BY <1>1, <1>2, <1>3, <1>4, <1>5, <1>6, <1>7, <1>8, <1>9, <1>10, <1>11, <1>12, <1>13, <1>14
     DEF Execute, AnyNext

\* What setupMinting leaves alone, and what it makes of the attestation.
LEMMA SetUpKeeps ==
  ASSUME Inv, SetUp
  PROVE  Inv' /\ UNCHANGED <<config, mint>>
<1>. USE DEF Inv
<1>. USE TypeParts, SssConstants
<1>1. PICK k \in Keys, amount \in U64, attestor \in Keys, staleness \in Positive, as_of \in Nat :
        setupMinting(k, amount, attestor, staleness, amount, as_of)
  BY DEF SetUp
<1>2. /\ IsMaster(k) /\ roles' = [roles EXCEPT ![k] = @ \cup {"Minter"}]
      /\ quota' = [quota EXCEPT ![k] =
                     [exists |-> TRUE, limit |-> amount, used |-> 0, period |-> "Lifetime"]]
      /\ last_mint' = [last_mint EXCEPT ![k] = now]
      /\ UNCHANGED <<config, paused, mint, gate, blacklist, allowlist, tokens, now>>
  BY <1>1 DEF setupMinting
<1>3. 0 \in U64 /\ now \in 0 .. MaxTime /\ 0 \in 0 .. MaxTime
  BY DEF U64
<1>4. roles' \in [Keys -> SUBSET Roles] /\ last_mint' \in [Keys -> 0 .. MaxTime]
  BY <1>2, <1>3 DEF Roles
<1>5. quota' \in [Keys -> QuotaType]
  BY <1>2, <1>3 DEF QuotaType
<1>6. /\ reserve' \in ReserveType /\ signed_by' \in Keys \cup {Nobody}
      /\ ReservesSigned'
  <2>1. CASE attestor = k
    <3>1. /\ reserve' = [attestor |-> k, reserves |-> amount, as_of |-> as_of, max_staleness |-> staleness]
          /\ signed_by' = k /\ as_of \in 0 .. MaxTime
      BY <1>1, <1>3, <2>1 DEF setupMinting
    <3>2. reserve' \in ReserveType /\ reserve'.attestor = k
      BY <3>1 DEF ReserveType
    <3>. QED  BY <3>1, <3>2 DEF ReservesSigned
  <2>2. CASE attestor # k /\ reserve.attestor = attestor
    <3>1. reserve' = [reserve EXCEPT !.max_staleness = staleness] /\ signed_by' = signed_by
      BY <1>1, <2>2 DEF setupMinting
    <3>2. /\ reserve' \in ReserveType
          /\ reserve'.attestor = reserve.attestor /\ reserve'.reserves = reserve.reserves
      BY <3>1 DEF ReserveType
    <3>. QED  BY <3>1, <3>2 DEF ReservesSigned
  <2>3. CASE attestor # k /\ reserve.attestor # attestor
    <3>1. /\ reserve' = [attestor |-> attestor, reserves |-> 0, as_of |-> 0, max_staleness |-> staleness]
          /\ signed_by' = signed_by
      BY <1>1, <2>3 DEF setupMinting, NoReserve
    <3>2. reserve' \in ReserveType /\ reserve'.reserves = 0
      BY <1>3, <3>1 DEF ReserveType
    <3>. QED  BY <3>1, <3>2 DEF ReservesSigned
  <2>. QED  BY <2>1, <2>2, <2>3
<1>7. TypeOK'
  BY <1>2, <1>4, <1>5, <1>6, TypePartsNext
<1>8. config.authority # Nobody /\ \A j \in Keys : IsMaster(j)' <=> IsMaster(j)
  BY <1>2 DEF IsMaster, Untouched
<1>9. OneMaster' /\ Untouched' /\ PauseInStep'
  BY <1>2, <1>8 DEF OneMaster, Untouched, PauseInStep, UsesTokenAcl
<1>. QED  BY <1>2, <1>6, <1>7, <1>9

-----------------------------------------------------------------------------
(* The counters.                                                           *)

\* What a step adds to the counters: m minted, b or more burned.
Tallies(m, b) ==
  /\ config'.total_minted = config.total_minted + m
  /\ config'.total_burned >= config.total_burned + b
  /\ Unstarted'

\* What a transaction mints and burns is a number.
LEMMA CountsAreNumbers ==
  ASSUME NEW tx \in Transactions
  PROVE  Minted(tx) \in Nat /\ Burned(tx) \in Nat
BY Fields, SssConstants DEF Minted, Burned

\* A step that leaves the config leaves the counters.
LEMMA SameConfig ==
  ASSUME TypeOK, Unstarted, UNCHANGED config
  PROVE  Tallies(0, 0)
BY TypeParts, SssConstants DEF Tallies, Unstarted, ConfigType, U64

\* A transaction adds what the operator meant to the counters: total_minted
\* exactly that, total_burned also what a seizure takes.
LEMMA Tally ==
  ASSUME Inv, Unstarted, NEW tx \in Transactions, Execute(tx)
  PROVE  Tallies(Minted(tx), Burned(tx))
<1>. USE DEF Inv
<1>. USE TypeParts, SssConstants, Fields
<1>0. /\ config.total_minted \in Nat /\ config.total_burned \in Nat
      /\ \A k \in Keys : k # Nobody
      /\ \A k \in Keys : roles[k] # {} => config.authority # Nobody
  BY DEF ConfigType, U64, Untouched
<1>1. CASE Initializes(tx)
  <2>1. /\ config.authority = Nobody /\ tx.do = "initialize"
        /\ config'.authority = tx.by /\ config'.total_minted = 0 /\ config'.total_burned = 0
    BY <1>1 DEF Initializes, Initialize
  <2>. QED  BY <1>0, <2>1 DEF Tallies, Unstarted, Minted, Burned
<1>2. CASE Mints(tx)
  <2>1. PICK a \in Accounts : MintTokens(tx.by, a, tx.amount)
    BY <1>2 DEF Mints, mintTokens
  <2>2. /\ config' = [config EXCEPT !.total_minted = @ + tx.amount] /\ roles[tx.by] # {}
        /\ tx.do = "mintTokens" /\ tx.amount \in Amounts64
    BY <1>2, <2>1 DEF MintTokens, CountMinted, Mints
  <2>3. /\ config'.authority = config.authority
        /\ config'.total_minted = config.total_minted + tx.amount
        /\ config'.total_burned = config.total_burned
    BY <2>2 DEF ConfigType
  <2>. QED  BY <1>0, <2>2, <2>3 DEF Tallies, Unstarted, Minted, Burned
<1>3. CASE Burns(tx)
  <2>1. PICK a \in Accounts : BurnTokens(tx.by, a, tx.amount)
    BY <1>3 DEF Burns, burnTokens
  <2>2. /\ config' = [config EXCEPT !.total_burned = @ + tx.amount] /\ roles[tx.by] # {}
        /\ tx.do = "burnTokens" /\ tx.amount \in Amounts64
    BY <1>3, <2>1 DEF BurnTokens, Burns
  <2>3. /\ config'.authority = config.authority
        /\ config'.total_minted = config.total_minted
        /\ config'.total_burned = config.total_burned + tx.amount
    BY <2>2 DEF ConfigType
  <2>. QED  BY <1>0, <2>2, <2>3 DEF Tallies, Unstarted, Minted, Burned
<1>4. ASSUME tx.do \notin {"mintTokens", "burnTokens"}
      PROVE  Minted(tx) = 0 /\ Burned(tx) = 0
  BY <1>4 DEF Minted, Burned
<1>5. CASE HandsOver(tx)
  <2>1. /\ config' = [config EXCEPT !.authority = tx.new_authority]
        /\ tx.do = "transferAuthority" /\ tx.new_authority \in Keys
    BY <1>5 DEF HandsOver, transferAuthority, TransferAuthority
  <2>2. /\ config'.authority # Nobody
        /\ config'.total_minted = config.total_minted
        /\ config'.total_burned = config.total_burned
    BY <1>0, <2>1 DEF ConfigType
  <2>. QED  BY <1>0, <1>4, <2>1, <2>2 DEF Tallies, Unstarted
<1>6. CASE Pauses(tx) \/ Unpauses(tx)
  <2>1. PICK value \in BOOLEAN : SetPaused(tx.by, value)
    BY <1>6 DEF Pauses, Unpauses, pause, unpause, Pause, Unpause
  <2>2. /\ config' = [config EXCEPT !.paused = value] /\ roles[tx.by] # {}
        /\ tx.do \in {"pause", "unpause"}
    BY <1>6, <2>1 DEF SetPaused, ValidatePauser, Pauses, Unpauses
  <2>3. /\ config'.authority = config.authority
        /\ config'.total_minted = config.total_minted
        /\ config'.total_burned = config.total_burned
    BY <2>2 DEF ConfigType
  <2>. QED  BY <1>0, <1>4, <2>2, <2>3 DEF Tallies, Unstarted
<1>7. CASE Seizes(tx)
  <2>1. Seize(tx.by, tx.account, tx.treasury) /\ tx.do = "seize"
    BY <1>7 DEF Seizes, seize
  <2>2. /\ config' = [config EXCEPT !.total_burned = @ + tokens[tx.account].amount]
        /\ roles[tx.by] # {} /\ tokens[tx.account].amount \in Nat
    BY <2>1 DEF Seize, SeizeChecks, TokenType, U64
  <2>3. /\ config'.authority = config.authority
        /\ config'.total_minted = config.total_minted
        /\ config'.total_burned = config.total_burned + tokens[tx.account].amount
    BY <2>2 DEF ConfigType
  <2>. QED  BY <1>0, <1>4, <2>1, <2>2, <2>3 DEF Tallies, Unstarted
<1>8. CASE EnablesAcl(tx) \/ SetsUp(tx) \/ Freezes(tx) \/ Thaws(tx) \/ GrantsRole(tx)
           \/ SetsMinter(tx) \/ Allowlists(tx) \/ PostsReserves(tx) \/ Blacklists(tx) \/ Unblacklists(tx)
  <2>1. tx.do \notin {"mintTokens", "burnTokens"}
    BY <1>8 DEF EnablesAcl, SetsUp, Freezes, Thaws, GrantsRole, SetsMinter, Allowlists,
                PostsReserves, Blacklists, Unblacklists
  <2>2. ASSUME EnablesAcl(tx) \/ SetsUp(tx) \/ GrantsRole(tx) \/ SetsMinter(tx) \/ PostsReserves(tx)
        PROVE  UNCHANGED config
    BY <2>2 DEF EnablesAcl, enableTokenAcl, EnableTokenAcl, SetsUp, setupMinting,
                GrantsRole, updateRoles, UpdateRoles, SetsMinter, updateMinter, UpdateMinter,
                PostsReserves, attestReserves, AttestReserves
  <2>3. ASSUME Freezes(tx) \/ Thaws(tx) \/ Allowlists(tx) \/ Blacklists(tx) \/ Unblacklists(tx)
        PROVE  UNCHANGED config
    BY <2>3 DEF Freezes, freezeAccount, FreezeAccount, Thaws, thawAccount, ThawAccount,
                Allowlists, addToAllowlist, AddToAllowlist, removeFromAllowlist, RemoveFromAllowlist,
                Blacklists, addToBlacklist, AddToBlacklist,
                Unblacklists, removeFromBlacklist, RemoveFromBlacklist
  <2>4. UNCHANGED config
    BY <1>8, <2>2, <2>3
  <2>. QED  BY <1>4, <2>1, <2>4, SameConfig
<1>. QED  BY <1>1, <1>2, <1>3, <1>5, <1>6, <1>7, <1>8 DEF Execute

-----------------------------------------------------------------------------
(* Steps of the program.                                                   *)

\* The attestor service moves the chain by its own posts only.
LEMMA ServiceSteps ==
  ASSUME TypeOK, ServiceInv, AttestorNext
  PROVE  [AnyNext]_vars /\ UNCHANGED config
<1>. USE AttestorAssumption, TypeParts
<1>1. ASSUME NEW r \in Reports, PostLands(r)
      PROVE  [AnyNext]_vars /\ UNCHANGED config
  <2>1. UNCHANGED vars \/ AttestReserves(AttestorKey, r.reserves, r.as_of)
    BY <1>1 DEF PostLands
  <2>2. AttestReserves(AttestorKey, r.reserves, r.as_of) => AnyOperator(AttestorKey)
    BY DEF AnyOperator
  <2>3. AttestReserves(AttestorKey, r.reserves, r.as_of) \/ UNCHANGED vars => UNCHANGED config
    BY DEF AttestReserves, vars
  <2>. QED  BY <2>1, <2>2, <2>3 DEF AnyNext
<1>2. ASSUME UNCHANGED vars
      PROVE  [AnyNext]_vars /\ UNCHANGED config
  BY <1>2 DEF vars
<1>. QED
  BY <1>1, <1>2 DEF AttestorNext, Publish, PostExpires, readReport, fetchAttestation, Decide, Send,
                    confirm, TickFails

\* Holders, the gate and the clock leave the config alone.
LEMMA ExternalSteps == ExternalNext => [AnyNext]_vars /\ UNCHANGED config
<1>1. ExternalNext => [AnyNext]_vars
  BY NextIsAny DEF Next
<1>2. ExternalNext => UNCHANGED config
  BY DEF ExternalNext, CreateAccount, GateThaw, GateFreeze, HolderBurn, Approve, Revoke, Transfer, Tick
<1>. QED  BY <1>1, <1>2

\* Every step moves the chain by one instruction, or by setupMinting, or not.
LEMMA ChainSteps ==
  ASSUME TypeOK, ServiceInv, OperatorInv, [IssuanceNext]_all_vars
  PROVE  [AnyNext]_vars \/ SetUp
<1>1. CASE AttestorNext
  BY <1>1, ServiceSteps
<1>2. CASE CliNext
  <2>1. ASSUME NEW tx \in stray, StrayLands(tx) \/ StrayLost(tx)
        PROVE  UNCHANGED vars \/ \E x \in Transactions : Execute(x)
    BY <2>1 DEF StrayLands, StrayLost, OperatorInv
  <2>2. Lands => \E x \in Transactions : Execute(x)
    <3>1. ASSUME Lands PROVE cli.tx \in Transactions /\ Execute(cli.tx)
      BY <3>1 DEF Lands, OperatorInv
    <3>. QED  BY <3>1
  <2>3. (\E command \in Commands : Run(command)) \/ Throws \/ NextTx \/ Done \/ Interrupted => UNCHANGED vars
    BY DEF Run, Throws, NextTx, Done, Interrupted
  <2>4. UNCHANGED vars \/ \E x \in Transactions : Execute(x)
    BY <1>2, <2>1, <2>2, <2>3, Zenon DEF CliNext
  <2>. QED  BY <2>4, TransactionsAreSteps
<1>3. CASE ExternalNext
  BY <1>3, ExternalSteps
<1>4. ASSUME NEW k \in Keys, NEW x \in Attestors, NEW s \in Stalenesses, setReserveAttestor(k, x, s)
      PROVE  AnyNext
  BY <1>4, SssConstants DEF setReserveAttestor, AnyNext, AnyAuthority
<1>5. CASE UNCHANGED all_vars
  BY <1>5 DEF all_vars
<1>. QED  BY <1>1, <1>2, <1>3, <1>4, <1>5 DEF IssuanceNext

-----------------------------------------------------------------------------
(* Steps of the service and of the operator.                               *)

\* A tick between reports is well formed.
LEMMA AsleepType == Asleep \in Ticks
<1>. DEFINE r == CHOOSE x \in Reports : TRUE
<1>1. r \in Reports
  BY AttestorAssumption
<1>2. NoReserve \in ReserveType
  BY SssConstants DEF NoReserve, ReserveType, U64
<1>. HIDE DEF r
<1>3. [phase |-> "asleep", report |-> r, seen |-> NoReserve] \in Ticks
  BY <1>1, <1>2 DEF Ticks, Phases
<1>. QED  BY <1>3 DEF Asleep, r

\* The service's own state.
LEMMA ServiceStep ==
  ASSUME TypeOK, ServiceInv, [IssuanceNext]_all_vars
  PROVE  ServiceInv'
<1>. USE AttestorAssumption, AsleepType, TypeParts DEF ServiceInv
<1>0. NoReserve \in ReserveType
  BY SssConstants DEF NoReserve, ReserveType, U64
<1>1. CASE AttestorNext
  <2>1. ASSUME NEW r \in Reports, Publish(r) \/ PostLands(r) \/ PostExpires(r)
        PROVE  ServiceInv'
    BY <2>1 DEF Publish, PostLands, PostExpires
  <2>2. CASE readReport
    <3>1. tick' = [tick EXCEPT !.phase = "fetching", !.report = report]
      BY <2>2 DEF readReport
    <3>2. tick' \in Ticks
      BY <3>1 DEF Ticks, Phases
    <3>. QED  BY <2>2, <3>2 DEF readReport
  <2>3. CASE fetchAttestation
    <3>1. tick' = [tick EXCEPT !.phase = "deciding", !.seen = reserve]
      BY <2>3 DEF fetchAttestation
    <3>2. tick' \in Ticks
      BY <3>1 DEF Ticks, Phases
    <3>. QED  BY <2>3, <3>2 DEF fetchAttestation
  <2>4. CASE Decide
    <3>1. tick' = [tick EXCEPT !.phase = "sending", !.seen = NoReserve] \/ tick' = Asleep
      BY <2>4 DEF Decide
    <3>2. tick' \in Ticks
      BY <1>0, <3>1 DEF Ticks, Phases
    <3>. QED  BY <2>4, <3>2 DEF Decide
  <2>5. CASE Send
    <3>1. tick' = [tick EXCEPT !.phase = "confirming"] \/ tick' = Asleep
      BY <2>5 DEF Send
    <3>2. tick' \in Ticks
      BY <3>1 DEF Ticks, Phases
    <3>3. tick.report \in Reports
      BY DEF Ticks
    <3>4. posts' = posts \/ posts' = posts \cup {tick.report}
      BY <2>5 DEF Send
    <3>5. posts' \subseteq Reports
      BY <3>3, <3>4
    <3>6. UNCHANGED <<report, published, faults>>
      BY <2>5 DEF Send
    <3>. QED  BY <3>2, <3>5, <3>6
  <2>6. CASE confirm \/ TickFails
    BY <2>6 DEF confirm, TickFails
  <2>. QED  BY <1>1, <2>1, <2>2, <2>3, <2>4, <2>5, <2>6 DEF AttestorNext
<1>2. CASE UNCHANGED attestor_vars
  BY <1>2 DEF attestor_vars
<1>. QED  BY <1>1, <1>2 DEF IssuanceNext, CliNext, all_vars

\* A command's transactions.
LEMMA CommandTxs ==
  ASSUME NEW command \in Commands
  PROVE  /\ Len(command.txs) \in Nat \ {0}
         /\ DOMAIN command.txs = 1 .. Len(command.txs)
         /\ \A i \in DOMAIN command.txs :
              /\ command.txs[i] \in Transactions
              /\ command.txs[i].do \in {"mintTokens", "burnTokens"} =>
                   Len(command.txs) = 1 /\ command.name \in Audited
<1>. DEFINE s == command.txs
<1>1. s \in Seq(Transactions) /\ s # <<>>
  BY CliAssumption
<1>2. \A i \in DOMAIN s : s[i].do \in {"mintTokens", "burnTokens"} => Len(s) = 1 /\ command.name \in Audited
  BY CliAssumption
<1>. HIDE DEF s
<1>3. Len(s) \in Nat /\ DOMAIN s = 1 .. Len(s) /\ Len(s) # 0 /\ \A i \in DOMAIN s : s[i] \in Transactions
  BY <1>1
<1>. QED  BY <1>2, <1>3 DEF s

\* The date a transaction gets leaves it one of its kind.
LEMMA DatedType ==
  ASSUME TypeOK, NEW tx \in Transactions
  PROVE  Dated(tx) \in Transactions /\ Dated(tx).do = tx.do
<1>1. now \in Nat
  BY TypeParts
<1>2. CASE tx.do \in {"setupMinting", "attestReserves"} /\ ~tx.dated
  <2>1. Dated(tx) = [tx EXCEPT !.as_of = now]
    BY <1>2 DEF Dated
  <2>2. CASE tx \in [do: {"setupMinting"}, by: Keys, amount: U64, attestor: Keys,
                     staleness: Nat \ {0}, dated: BOOLEAN, as_of: Nat]
    <3>1. /\ Dated(tx) \in [do: {"setupMinting"}, by: Keys, amount: U64, attestor: Keys,
                            staleness: Nat \ {0}, dated: BOOLEAN, as_of: Nat]
          /\ Dated(tx).do = tx.do
      BY <1>1, <2>1, <2>2
    <3>. QED  BY <3>1 DEF Transactions
  <2>3. CASE tx \in [do: {"attestReserves"}, by: Keys, amount: U64, dated: BOOLEAN, as_of: Nat]
    <3>1. /\ Dated(tx) \in [do: {"attestReserves"}, by: Keys, amount: U64, dated: BOOLEAN, as_of: Nat]
          /\ Dated(tx).do = tx.do
      BY <1>1, <2>1, <2>3
    <3>. QED  BY <3>1 DEF Transactions
  <2>. QED  BY <1>2, <2>2, <2>3 DEF Transactions
<1>3. CASE ~(tx.do \in {"setupMinting", "attestReserves"} /\ ~tx.dated)
  BY <1>3 DEF Dated
<1>. QED  BY <1>2, <1>3

\* The command's next transaction under way.
LEMMA SendingType ==
  ASSUME TypeOK, NEW command \in Commands, NEW step \in DOMAIN command.txs, Sending(command, step)
  PROVE  /\ cli' \in CliType /\ cli'.phase = "sent"
         /\ cli'.command = command /\ cli'.step = step
         /\ cli'.tx \in Transactions /\ cli'.tx.do = command.txs[step].do
<1>. DEFINE tx == Dated(command.txs[step])
<1>1. tx \in Transactions /\ tx.do = command.txs[step].do /\ step \in Nat
  BY CommandTxs, DatedType
<1>2. cli' = [phase |-> "sent", command |-> command, step |-> step, tx |-> tx]
  BY DEF Sending
<1>. HIDE DEF tx
<1>. QED  BY <1>1, <1>2 DEF CliType

\* The prompt is well formed.
LEMMA PromptType == AtPrompt \in CliType /\ AtPrompt.phase = "prompt"
BY DEF AtPrompt, CliType

\* The operator's own state.
LEMMA OperatorStep ==
  ASSUME TypeOK, OperatorInv, [IssuanceNext]_all_vars
  PROVE  OperatorInv'
<1>. USE PromptType, CliAssumption DEF OperatorInv
<1>1. ASSUME cli' = AtPrompt, script' = script, stray' \subseteq Transactions,
             interrupts' \in 0 .. MaxInterrupts, audit' \in [minted: Nat, burned: Nat]
      PROVE  OperatorInv'
  BY <1>1
<1>2. ASSUME NEW command \in Commands, NEW step \in DOMAIN command.txs, Sending(command, step),
             UNCHANGED <<script, stray, interrupts, audit>>
      PROVE  OperatorInv'
  BY <1>2, SendingType
<1>3. ASSUME NEW command \in Commands, Run(command)
      PROVE  OperatorInv'
  <2>1. 1 \in DOMAIN command.txs
    BY CommandTxs
  <2>. QED  BY <1>2, <1>3, <2>1 DEF Run
<1>4. CASE NextTx
  <2>1. cli.command \in Commands /\ cli.step \in DOMAIN cli.command.txs
    BY <1>4 DEF NextTx
  <2>2. cli.step + 1 \in DOMAIN cli.command.txs
    BY <1>4, <2>1, CommandTxs DEF NextTx
  <2>. QED  BY <1>2, <1>4, <2>1, <2>2 DEF NextTx
<1>5. CASE Lands
  <2>1. cli' = [cli EXCEPT !.phase = "landed"] /\ cli.phase = "sent"
    BY <1>5 DEF Lands
  <2>2. /\ cli' \in CliType /\ cli'.command = cli.command /\ cli'.step = cli.step /\ cli'.tx = cli.tx
    BY <2>1 DEF CliType
  <2>. QED  BY <1>5, <2>1, <2>2 DEF Lands
<1>6. CASE Throws
  BY <1>1, <1>6 DEF Throws
<1>7. CASE Done
  <2>1. cli.tx \in Transactions
    BY <1>7 DEF Done
  <2>2. audit' = audit \/ AuditLine(cli.tx)
    BY <1>7 DEF Done
  <2>3. audit' \in [minted: Nat, burned: Nat]
    BY <2>1, <2>2, CountsAreNumbers DEF AuditLine
  <2>. QED  BY <1>1, <1>7, <2>3 DEF Done
<1>8. CASE Interrupted
  BY <1>1, <1>8 DEF Interrupted
<1>9. ASSUME NEW tx \in stray, StrayLands(tx) \/ StrayLost(tx)
      PROVE  OperatorInv'
  BY <1>9 DEF StrayLands, StrayLost
<1>10. CASE UNCHANGED cli_vars
  BY <1>10 DEF cli_vars
<1>. QED
  BY <1>3, <1>4, <1>5, <1>6, <1>7, <1>8, <1>9, <1>10 DEF IssuanceNext, CliNext, all_vars

-----------------------------------------------------------------------------
(* The ledger.                                                             *)

\* A step away from "landed" that adds to the log what it had not written.
LEMMA LedgerStands ==
  ASSUME TypeOK, TypeOK', OperatorInv, Ledger, Tallies(0, 0), cli'.phase # "landed", stray' = stray,
         interrupts' = interrupts,
         audit'.minted = audit.minted + Unlogged(Minted(cli.tx)),
         audit'.burned = audit.burned + Unlogged(Burned(cli.tx))
  PROVE  Ledger'
<1>1. Unlogged(Minted(cli.tx))' = 0 /\ Unlogged(Burned(cli.tx))' = 0
  BY DEF Unlogged
<1>. DEFINE m == Unlogged(Minted(cli.tx))
            b == Unlogged(Burned(cli.tx))
<1>2. m \in Nat /\ b \in Nat /\ audit.minted \in Nat /\ audit.burned \in Nat
  BY CountsAreNumbers DEF Unlogged, OperatorInv
<1>3. /\ audit.minted + m <= config.total_minted /\ audit.burned + b <= config.total_burned
      /\ interrupts = 0 => stray = {} /\ audit.minted + m = config.total_minted
      /\ audit'.minted = audit.minted + m /\ audit'.burned = audit.burned + b
  BY DEF Ledger
<1>. HIDE DEF m, b
<1>4. /\ config.total_minted \in Nat /\ config.total_burned \in Nat
      /\ config'.total_minted \in Nat /\ config'.total_burned \in Nat
  BY TypeParts, TypePartsNext, SssConstants DEF ConfigType, U64
<1>5. config'.total_minted = config.total_minted /\ config'.total_burned >= config.total_burned
  BY <1>4 DEF Tallies
<1>6. /\ audit'.minted + 0 <= config'.total_minted /\ audit'.burned + 0 <= config'.total_burned
      /\ interrupts' = 0 => stray' = {} /\ audit'.minted + 0 = config'.total_minted
  BY <1>2, <1>3, <1>4, <1>5
<1>. QED  BY <1>1, <1>6 DEF Ledger

\* The log against the counters.
LEMMA LedgerStep ==
  ASSUME Inv, TypeOK', ServiceInv, OperatorInv, Ledger, Unstarted, [IssuanceNext]_all_vars
  PROVE  Ledger' /\ Unstarted'
<1>. USE DEF Inv
<1>a. /\ audit.minted \in Nat /\ audit.burned \in Nat
      /\ config.total_minted \in Nat /\ config.total_burned \in Nat
      /\ config'.total_minted \in Nat /\ config'.total_burned \in Nat
  BY TypeParts, TypePartsNext, SssConstants DEF OperatorInv, ConfigType, U64
<1>b. cli.phase = "landed" => Minted(cli.tx) \in Nat /\ Burned(cli.tx) \in Nat
  BY CountsAreNumbers DEF OperatorInv
<1>1. ASSUME UNCHANGED <<cli, stray, interrupts, audit>>, Tallies(0, 0)
      PROVE  Ledger' /\ Unstarted'
  <2>1. /\ Unlogged(Minted(cli.tx))' = Unlogged(Minted(cli.tx))
        /\ Unlogged(Burned(cli.tx))' = Unlogged(Burned(cli.tx))
    BY <1>1 DEF Unlogged, Minted, Burned
  <2>2. Unlogged(Minted(cli.tx)) \in Nat /\ Unlogged(Burned(cli.tx)) \in Nat
    BY <1>b DEF Unlogged
  <2>3. /\ config'.total_minted = config.total_minted /\ config'.total_burned >= config.total_burned
        /\ Unstarted'
    BY <1>a, <1>1 DEF Tallies
  <2>. QED  BY <1>a, <1>1, <2>1, <2>2, <2>3 DEF Ledger
<1>2. ASSUME cli.phase # "landed", cli'.phase # "landed", UNCHANGED <<vars, stray, interrupts, audit>>
      PROVE  Ledger' /\ Unstarted'
  <2>1. Unlogged(Minted(cli.tx)) = 0 /\ Unlogged(Burned(cli.tx)) = 0
    BY <1>2 DEF Unlogged
  <2>2. Tallies(0, 0)
    BY <1>2, SameConfig DEF vars
  <2>3. audit'.minted = audit.minted + 0 /\ audit'.burned = audit.burned + 0
    BY <1>a, <1>2
  <2>. QED  BY <1>2, <2>1, <2>2, <2>3, LedgerStands DEF Tallies
<1>3. ASSUME NEW command \in Commands, Run(command)
      PROVE  Ledger' /\ Unstarted'
  <2>1. cli.phase # "landed" /\ cli'.phase # "landed" /\ UNCHANGED <<vars, stray, interrupts, audit>>
    BY <1>3 DEF Run, Sending
  <2>. QED  BY <1>2, <2>1
<1>4. CASE Throws
  <2>1. cli.phase # "landed" /\ cli'.phase # "landed" /\ UNCHANGED <<vars, stray, interrupts, audit>>
    BY <1>4, PromptType DEF Throws
  <2>. QED  BY <1>2, <2>1
<1>5. ASSUME cli.phase = "landed"
      PROVE  /\ cli.tx.do \in {"mintTokens", "burnTokens"} =>
                  Len(cli.command.txs) = 1 /\ cli.command.name \in Audited
             /\ cli.step \in 1 .. Len(cli.command.txs) /\ Len(cli.command.txs) \in Nat
  BY <1>5, CommandTxs DEF OperatorInv
<1>6. CASE NextTx
  <2>1. cli.phase = "landed" /\ cli'.phase # "landed" /\ UNCHANGED <<vars, stray, interrupts, audit>>
        /\ cli.step < Len(cli.command.txs)
    BY <1>6 DEF NextTx, Sending
  <2>2. cli.tx.do \notin {"mintTokens", "burnTokens"}
    <3>. DEFINE n == Len(cli.command.txs)
    <3>1. cli.step \in 1 .. n /\ n \in Nat /\ cli.step < n
      BY <1>5, <2>1
    <3>. HIDE DEF n
    <3>2. n # 1
      BY <3>1
    <3>. QED  BY <1>5, <2>1, <3>2, Zenon DEF n
  <2>3. Unlogged(Minted(cli.tx)) = 0 /\ Unlogged(Burned(cli.tx)) = 0
    BY <2>2 DEF Unlogged, Minted, Burned
  <2>4. Tallies(0, 0)
    BY <2>1, SameConfig DEF vars
  <2>5. audit'.minted = audit.minted + 0 /\ audit'.burned = audit.burned + 0
    BY <1>a, <2>1
  <2>. QED  BY <2>1, <2>3, <2>4, <2>5, LedgerStands DEF Tallies
<1>7. CASE Done
  <2>1. cli.phase = "landed" /\ cli'.phase # "landed" /\ UNCHANGED <<vars, stray, interrupts>>
    BY <1>7, PromptType DEF Done
  <2>2. Unlogged(Minted(cli.tx)) = Minted(cli.tx) /\ Unlogged(Burned(cli.tx)) = Burned(cli.tx)
    BY <2>1 DEF Unlogged
  <2>3. Tallies(0, 0)
    BY <2>1, SameConfig DEF vars
  <2>4. audit'.minted = audit.minted + Minted(cli.tx) /\ audit'.burned = audit.burned + Burned(cli.tx)
    <3>1. CASE cli.command.name \in Audited
      BY <1>7, <3>1 DEF Done, AuditLine
    <3>2. CASE cli.command.name \notin Audited
      <4>1. Minted(cli.tx) = 0 /\ Burned(cli.tx) = 0 /\ audit' = audit
        BY <1>5, <1>7, <2>1, <3>2 DEF Done, Minted, Burned
      <4>. QED  BY <1>a, <4>1
    <3>. QED  BY <3>1, <3>2
  <2>. QED  BY <2>1, <2>2, <2>3, <2>4, LedgerStands DEF Tallies
<1>8. CASE Lands
  <2>1. cli.phase = "sent" /\ Execute(cli.tx) /\ cli' = [cli EXCEPT !.phase = "landed"]
        /\ UNCHANGED <<stray, interrupts, audit>>
    BY <1>8 DEF Lands
  <2>2. cli'.phase = "landed" /\ cli'.tx = cli.tx /\ cli.tx \in Transactions
    BY <2>1 DEF OperatorInv, CliType
  <2>3. Tallies(Minted(cli.tx), Burned(cli.tx))
    BY <2>1, <2>2, Tally
  <2>4. Minted(cli.tx) \in Nat /\ Burned(cli.tx) \in Nat
    BY <2>2, CountsAreNumbers
  <2>5. Unlogged(Minted(cli.tx)) = 0 /\ Unlogged(Burned(cli.tx)) = 0
    BY <2>1 DEF Unlogged
  <2>6. /\ Unlogged(Minted(cli.tx))' = Minted(cli.tx)
        /\ Unlogged(Burned(cli.tx))' = Burned(cli.tx)
    BY <2>2 DEF Unlogged, Minted, Burned
  <2>. DEFINE m == Minted(cli.tx)
              b == Burned(cli.tx)
  <2>7. /\ m \in Nat /\ b \in Nat
        /\ config'.total_minted = config.total_minted + m
        /\ config'.total_burned >= config.total_burned + b
        /\ Unstarted'
    BY <2>3, <2>4 DEF Tallies
  <2>8. /\ audit.minted + 0 <= config.total_minted /\ audit.burned + 0 <= config.total_burned
        /\ interrupts = 0 => stray = {} /\ audit.minted + 0 = config.total_minted
    BY <2>5 DEF Ledger
  <2>. HIDE DEF m, b
  <2>9. /\ audit.minted + m <= config'.total_minted /\ audit.burned + b <= config'.total_burned
        /\ interrupts = 0 => stray = {} /\ audit.minted + m = config'.total_minted
    BY <1>a, <2>7, <2>8
  <2>. QED  BY <2>1, <2>6, <2>7, <2>9 DEF Ledger, m, b
<1>9. ASSUME cli'.phase # "landed" \/ cli' = cli, audit' = audit, interrupts' # 0,
             config'.total_minted >= config.total_minted, config'.total_burned >= config.total_burned
      PROVE  Ledger'
  <2>1. /\ Unlogged(Minted(cli.tx))' \in {0, Unlogged(Minted(cli.tx))}
        /\ Unlogged(Burned(cli.tx))' \in {0, Unlogged(Burned(cli.tx))}
    BY <1>9 DEF Unlogged, Minted, Burned
  <2>2. Unlogged(Minted(cli.tx)) \in Nat /\ Unlogged(Burned(cli.tx)) \in Nat
    BY <1>b DEF Unlogged
  <2>. DEFINE m == Unlogged(Minted(cli.tx))
              b == Unlogged(Burned(cli.tx))
              n == Unlogged(Minted(cli.tx))'
              c == Unlogged(Burned(cli.tx))'
  <2>3. /\ audit.minted + m <= config.total_minted /\ audit.burned + b <= config.total_burned
        /\ m \in Nat /\ b \in Nat /\ n \in {0, m} /\ c \in {0, b}
    BY <2>1, <2>2 DEF Ledger
  <2>. HIDE DEF m, b, n, c
  <2>4. audit.minted + n <= config'.total_minted /\ audit.burned + c <= config'.total_burned
    BY <1>a, <1>9, <2>3
  <2>. QED  BY <1>9, <2>4 DEF Ledger, n, c
<1>10. CASE Interrupted
  <2>1. cli'.phase # "landed" /\ audit' = audit /\ interrupts' # 0 /\ UNCHANGED vars
    BY <1>10, PromptType DEF Interrupted, OperatorInv
  <2>2. UNCHANGED config
    BY <2>1 DEF vars
  <2>. QED  BY <1>a, <1>9, <2>1, <2>2, SameConfig DEF Tallies
<1>11. ASSUME NEW tx \in stray, StrayLands(tx) \/ StrayLost(tx)
       PROVE  Ledger' /\ Unstarted'
  <2>1. cli' = cli /\ audit' = audit /\ interrupts' = interrupts
    BY <1>11 DEF StrayLands, StrayLost
  <2>2. interrupts # 0
    BY DEF Ledger
  <2>3. CASE Execute(tx)
    <3>1. Tallies(Minted(tx), Burned(tx)) /\ Minted(tx) \in Nat /\ Burned(tx) \in Nat
      BY <2>3, Tally, CountsAreNumbers DEF OperatorInv
    <3>2. /\ config'.total_minted >= config.total_minted /\ config'.total_burned >= config.total_burned
          /\ Unstarted'
      BY <1>a, <3>1 DEF Tallies
    <3>. QED  BY <1>9, <2>1, <2>2, <3>2
  <2>4. CASE UNCHANGED vars
    <3>1. UNCHANGED config
      BY <2>4 DEF vars
    <3>. QED  BY <1>a, <1>9, <2>1, <2>2, <3>1, SameConfig DEF Tallies
  <2>. QED  BY <1>11, <2>3, <2>4 DEF StrayLands, StrayLost
<1>12. ASSUME UNCHANGED <<cli_vars, config>>
       PROVE  Ledger' /\ Unstarted'
  BY <1>1, <1>12, SameConfig DEF cli_vars
<1>13. AttestorNext /\ UNCHANGED cli_vars => Ledger' /\ Unstarted'
  BY <1>12, ServiceSteps
<1>14. ExternalNext /\ UNCHANGED cli_vars => Ledger' /\ Unstarted'
  BY <1>12, ExternalSteps
<1>15. ASSUME NEW k \in Keys, NEW x \in Attestors, NEW s \in Stalenesses,
              setReserveAttestor(k, x, s), UNCHANGED cli_vars
       PROVE  Ledger' /\ Unstarted'
  BY <1>12, <1>15 DEF setReserveAttestor, SetReserveAttestor
<1>16. CASE UNCHANGED all_vars
  BY <1>12, <1>16 DEF all_vars, vars
<1>17. CASE CliNext
  BY <1>3, <1>4, <1>6, <1>7, <1>8, <1>10, <1>11, <1>17 DEF CliNext
<1>. QED  BY <1>13, <1>14, <1>15, <1>16, <1>17 DEF IssuanceNext

-----------------------------------------------------------------------------
(* The theorems.                                                           *)

\* The first state.
LEMMA IssuanceStarts == IssuanceInit => IssuanceInv
<1>. SUFFICES ASSUME IssuanceInit PROVE IssuanceInv
  OBVIOUS
<1>1. Inv
  BY InitInv DEF IssuanceInit
<1>2. tick \in Ticks
  <2>1. tick = Asleep \/ tick = [Asleep EXCEPT !.phase = "absent"]
    BY DEF IssuanceInit, AttestorInit
  <2>. QED  BY <2>1, AsleepType DEF Ticks, Phases
<1>3. ServiceInv
  BY <1>2, AttestorAssumption DEF IssuanceInit, AttestorInit, ServiceInv
<1>4. OperatorInv
  BY PromptType, CliAssumption DEF IssuanceInit, CliInit, OperatorInv
<1>5. config.total_minted = 0 /\ config.total_burned = 0
  BY DEF IssuanceInit, Init
<1>6. /\ Unlogged(Minted(cli.tx)) = 0 /\ Unlogged(Burned(cli.tx)) = 0
      /\ stray = {} /\ audit.minted = 0 /\ audit.burned = 0
  BY PromptType DEF IssuanceInit, CliInit, Unlogged
<1>7. Ledger /\ Unstarted
  BY <1>5, <1>6 DEF Ledger, Unstarted
<1>. QED  BY <1>1, <1>3, <1>4, <1>7 DEF IssuanceInv

\* The invariant is inductive.
LEMMA IssuanceSteps == IssuanceInv /\ [IssuanceNext]_all_vars => IssuanceInv'
<1>. SUFFICES ASSUME IssuanceInv, [IssuanceNext]_all_vars PROVE IssuanceInv'
  OBVIOUS
<1>. USE DEF IssuanceInv
<1>1. TypeOK
  BY DEF Inv
<1>2. Inv'
  BY <1>1, ChainSteps, InvStep, SetUpKeeps
<1>3. TypeOK'
  BY <1>2 DEF Inv
<1>. QED  BY <1>1, <1>2, <1>3, ServiceStep, OperatorStep, LedgerStep

\* It holds in every reachable state.
THEOREM IssuanceInvariance == IssuanceSpec => []IssuanceInv
BY IssuanceStarts, IssuanceSteps, PTL DEF IssuanceSpec

\* The service's and the operator's types.
THEOREM IssuanceTypeCorrect == IssuanceSpec => []IssuanceTypeOK
<1>1. IssuanceInv => IssuanceTypeOK
  BY DEF IssuanceInv, ServiceInv, OperatorInv, IssuanceTypeOK, AttestorTypeOK, Ticks, CliType
<1>. QED  BY <1>1, IssuanceInvariance, PTL

\* The audit log never claims more than happened; and claims all of it while
\* no command was cut off.
THEOREM AuditStaysTrue == IssuanceSpec => []AuditIsTrue
<1>1. ASSUME IssuanceInv PROVE AuditIsTrue
  <2>. USE <1>1 DEF IssuanceInv
  <2>1. /\ audit.minted \in Nat /\ audit.burned \in Nat
        /\ config.total_minted \in Nat /\ config.total_burned \in Nat
    BY TypeParts, SssConstants DEF Inv, OperatorInv, ConfigType, U64
  <2>2. Unlogged(Minted(cli.tx)) \in Nat /\ Unlogged(Burned(cli.tx)) \in Nat
    BY CountsAreNumbers DEF Unlogged, OperatorInv
  <2>3. cli.phase = "prompt" => Unlogged(Minted(cli.tx)) = 0
    BY DEF Unlogged
  <2>. DEFINE m == Unlogged(Minted(cli.tx))
              b == Unlogged(Burned(cli.tx))
  <2>4. /\ m \in Nat /\ b \in Nat
        /\ cli.phase = "prompt" => m = 0
        /\ audit.minted + m <= config.total_minted /\ audit.burned + b <= config.total_burned
        /\ interrupts = 0 => audit.minted + m = config.total_minted
    BY <2>2, <2>3 DEF Ledger
  <2>. HIDE DEF m, b
  <2>. QED  BY <2>1, <2>4 DEF AuditIsTrue
<1>. QED  BY <1>1, IssuanceInvariance, PTL

\* New supply is covered by fresh, signed reserves, setupMinting and commands
\* cut off or sent again included.
THEOREM IssuedIsBacked == IssuanceSpec => MintsAreBacked
<1>1. ASSUME IssuanceInv, [IssuanceNext]_all_vars, mint'.supply > mint.supply,
             UsesTokenAcl \/ reserve.attestor # Nobody
      PROVE  /\ signed_by = reserve.attestor /\ signed_by # Nobody
             /\ mint'.supply <= reserve.reserves
             /\ now - reserve.as_of <= reserve.max_staleness
  <2>. USE <1>1 DEF IssuanceInv
  <2>1. TypeOK /\ mint.supply \in Nat
    BY TypeParts, SssConstants DEF Inv, MintType, U64
  <2>2. ~SetUp
    <3>1. SetUp => mint' = mint
      BY SetUpKeeps
    <3>. QED  BY <2>1, <3>1
  <2>3. [AnyNext]_vars
    BY <2>1, <2>2, ChainSteps
  <2>. QED  BY <2>3, MintIsBacked
<1>2. IssuanceInv /\ [IssuanceNext]_all_vars =>
        [mint'.supply > mint.supply /\ (UsesTokenAcl \/ reserve.attestor # Nobody) =>
           /\ signed_by = reserve.attestor /\ signed_by # Nobody
           /\ mint'.supply <= reserve.reserves
           /\ now - reserve.as_of <= reserve.max_staleness]_vars
  BY <1>1
<1>. QED  BY <1>2, IssuanceInvariance, PTL DEF IssuanceSpec, MintsAreBacked
=============================================================================
