------------------------------ MODULE SssToken ------------------------------
(***************************************************************************)
(* The sss-token program for one mint: roles, minter quotas, the reserve   *)
(* check, pause, the blacklist and allowlist registry, freeze routing and  *)
(* seizure, with the Token-2022 accounts they move.                        *)
(*                                                                         *)
(* External: Token-2022, the Token ACL gate (reduced to what GatePromise   *)
(* says of a policy with the blacklist check or with none), the holders    *)
(* and the clock.  One account per PDA; a role record that is missing and  *)
(* one that is inactive are the same to every instruction.                 *)
(***************************************************************************)
EXTENDS Integers, FiniteSets

CONSTANTS
  Keys,           \* signers and wallets
  Nobody,         \* no key
  Accounts,       \* token accounts of the mint
  OwnerOf,        \* their owners
  Atas,           \* the associated ones
  InitArgs,       \* arguments tried on initialize
  RoleGrants,     \* (holder, role) pairs tried on update_roles
  Limits, Periods,\* tried on update_minter
  NewMasters,     \* keys tried on transfer_authority
  Delegations,    \* (account, key) pairs holders may approve
  Attestors, Stalenesses, Postings,  \* tried on set_reserve_attestor, attest_reserves
  Amounts,        \* tried on mint, burn and transfers
  U64Max,         \* stands for 2^64 - 1
  Day,            \* one quota day, in ticks
  MaxTime         \* bound on the cluster clock

Modes == {"Hook", "Acl", "Both"}
Roles == {"MasterAuthority", "Minter", "Burner", "Pauser", "Blacklister", "Seizer"}

InitArgType ==
  [mode: Modes, hook: BOOLEAN, delegate: BOOLEAN, frozen: BOOLEAN, allowlist: BOOLEAN]

ASSUME SssConstants ==
  /\ Nobody \notin Keys
  /\ OwnerOf \in [Accounts -> Keys]
  /\ Atas \subseteq Accounts
  /\ InitArgs \subseteq InitArgType
  /\ RoleGrants \subseteq Keys \X Roles
  /\ NewMasters \subseteq Keys
  /\ Delegations \subseteq Accounts \X Keys
  /\ Attestors \subseteq Keys
  /\ U64Max \in Nat /\ MaxTime \in Nat /\ Day \in Nat \ {0}
  /\ Limits \subseteq 0 .. U64Max /\ Postings \subseteq 0 .. U64Max
  /\ Amounts \subseteq 1 .. U64Max
  /\ Stalenesses \subseteq Nat \ {0}
  /\ Periods \subseteq {"Daily", "Weekly", "Monthly", "Lifetime"}

VARIABLES
  config,      \* StablecoinConfig; authority is Nobody before initialize
  roles,       \* the active role records of each key
  quota,       \* MinterQuota of each key
  reserve,     \* ReserveAttestation; attestor is Nobody before the first set_reserve_attestor
  paused,      \* PauseState.paused
  mint,        \* the Token-2022 mint: supply, paused (Pausable), freeze_authority
  gate,        \* the policy enable_token_acl installed: "none", "open", "blacklist"
  blacklist,   \* wallets with an active BlacklistEntry
  allowlist,   \* wallets with an active AllowlistEntry
  tokens,      \* token accounts: state, amount and the delegate their owner approved
  now,         \* Clock::unix_timestamp
  signed_by,   \* history: who signed reserve.reserves
  last_mint    \* history: when each minter last minted or had its quota set

vars == <<config, roles, quota, reserve, paused, mint, gate, blacklist, allowlist, tokens, now,
          signed_by, last_mint>>

U64 == 0 .. U64Max

NoReserve == [attestor |-> Nobody, reserves |-> 0, as_of |-> 0, max_staleness |-> 0]

Init ==
  /\ config = [authority |-> Nobody, mode |-> "Hook", hook |-> FALSE, delegate |-> FALSE,
               frozen |-> FALSE, allowlist |-> FALSE, paused |-> FALSE,
               total_minted |-> 0, total_burned |-> 0]
  /\ roles = [k \in Keys |-> {}]
  /\ quota = [k \in Keys |-> [exists |-> FALSE, limit |-> 0, used |-> 0, period |-> "Lifetime"]]
  /\ reserve = NoReserve
  /\ paused = FALSE
  /\ mint = [supply |-> 0, paused |-> FALSE, freeze_authority |-> "config"]
  /\ gate = "none"
  /\ blacklist = {} /\ allowlist = {}
  /\ tokens = [a \in Accounts |-> [state |-> "none", amount |-> 0, delegate |-> Nobody]]
  /\ now \in 0 .. MaxTime
  /\ signed_by = Nobody
  /\ last_mint = [k \in Keys |-> 0]

-----------------------------------------------------------------------------
(* Helpers: constraints and checks shared by the instructions.             *)

UsesTokenAcl      == config.mode \in {"Acl", "Both"}
ComplianceEnabled == config.hook \/ UsesTokenAcl
IsMaster(k)       == "MasterAuthority" \in roles[k]

\* validate_compliance_mode and the hook program check of initialize.
ValidMode(args) == args.mode # "Hook" => args.frozen /\ (args.hook <=> args.mode = "Both")

\* The Token-2022 supply after this mint must be covered by fresh reserves.
CheckReserveAttestation(amount) ==
  IF reserve.attestor = Nobody THEN ~UsesTokenAcl
  ELSE /\ now - reserve.as_of <= reserve.max_staleness
       /\ mint.supply + amount <= reserve.reserves

WithinQuota(q, amount) == q.limit > 0 => q.used + amount <= q.limit

ValidateFreezeAuthority(k) == roles[k] \cap {"MasterAuthority", "Blacklister"} # {}
ValidatePauser(k)          == roles[k] \cap {"MasterAuthority", "Pauser"} # {}

\* Mutant: the destination's entry is not looked at.
HookIgnoresDestination(authority, dest) == config.hook => ~paused /\ authority \notin blacklist

\* What the transfer hook asks of a transfer (transfer-hook/src/execute.rs): the
\* source's entry is that of account 3, the key that signs, which is the owner
\* or a delegate, and the destination's that of its owner.
HookAllows(authority, dest) ==
  config.hook => ~paused /\ authority \notin blacklist /\ OwnerOf[dest] \notin blacklist

Thawed(a) == tokens[a].state = "thawed"
SetState(a, s) == tokens' = [tokens EXCEPT ![a].state = s]

-----------------------------------------------------------------------------
(* initialize and roles.rs.                                                *)

Initialize(k, args) ==
  /\ config.authority = Nobody
  /\ ValidMode(args)
  /\ config' = [authority |-> k, mode |-> args.mode, hook |-> args.hook,
                delegate |-> args.delegate, frozen |-> args.frozen,
                allowlist |-> args.allowlist, paused |-> FALSE,
                total_minted |-> 0, total_burned |-> 0]
  /\ roles' = [roles EXCEPT ![k] = {"MasterAuthority"}]
  /\ UNCHANGED <<quota, reserve, paused, mint, gate, blacklist, allowlist, tokens, now,
                 signed_by, last_mint>>

UpdateMinter(k, minter, limit, period) ==
  /\ IsMaster(k)
  /\ roles' = [roles EXCEPT ![minter] = @ \cup {"Minter"}]
  /\ quota' = [quota EXCEPT ![minter] =
                 [exists |-> TRUE, limit |-> limit, used |-> 0, period |-> period]]
  /\ last_mint' = [last_mint EXCEPT ![minter] = now]
  /\ UNCHANGED <<config, reserve, paused, mint, gate, blacklist, allowlist, tokens, now, signed_by>>

UpdateRoles(k, holder, role, active) ==
  /\ IsMaster(k)
  /\ role # "MasterAuthority"
  /\ roles' = [roles EXCEPT ![holder] = IF active THEN @ \cup {role} ELSE @ \ {role}]
  /\ UNCHANGED <<config, quota, reserve, paused, mint, gate, blacklist, allowlist, tokens, now,
                 signed_by, last_mint>>

\* Mutant: the old master's record stays active.
TransferKeepingOldMaster(k, new_authority) ==
  /\ IsMaster(k)
  /\ ~IsMaster(new_authority)
  /\ roles' = [roles EXCEPT ![new_authority] = @ \cup {"MasterAuthority"}]
  /\ config' = [config EXCEPT !.authority = new_authority]
  /\ UNCHANGED <<quota, reserve, paused, mint, gate, blacklist, allowlist, tokens, now,
                 signed_by, last_mint>>

\* The new holder's record must be inactive: the signer itself is refused.
TransferAuthority(k, new_authority) ==
  /\ IsMaster(k)
  /\ ~IsMaster(new_authority)
  /\ roles' = [roles EXCEPT ![k] = @ \ {"MasterAuthority"},
                            ![new_authority] = @ \cup {"MasterAuthority"}]
  /\ config' = [config EXCEPT !.authority = new_authority]
  /\ UNCHANGED <<quota, reserve, paused, mint, gate, blacklist, allowlist, tokens, now,
                 signed_by, last_mint>>

-----------------------------------------------------------------------------
(* reserves.rs, mint.rs, burn.rs.                                          *)

\* Mutant: the posted numbers survive a change of attestor.
SetAttestorKeepingReserves(k, attestor, max_staleness) ==
  /\ IsMaster(k)
  /\ reserve' = [reserve EXCEPT !.attestor = attestor, !.max_staleness = max_staleness]
  /\ UNCHANGED <<config, roles, quota, paused, mint, gate, blacklist, allowlist, tokens, now,
                 signed_by, last_mint>>

\* A new account or a different attestor clears the posted reserves.
SetReserveAttestor(k, attestor, max_staleness) ==
  /\ IsMaster(k)
  /\ reserve' = IF reserve.attestor = attestor
                  THEN [reserve EXCEPT !.max_staleness = max_staleness]
                  ELSE [attestor |-> attestor, reserves |-> 0, as_of |-> 0,
                        max_staleness |-> max_staleness]
  /\ UNCHANGED <<config, roles, quota, paused, mint, gate, blacklist, allowlist, tokens, now,
                 signed_by, last_mint>>

AttestReserves(k, reserves, as_of) ==
  /\ reserve.attestor = k
  /\ reserve.as_of <= as_of /\ as_of <= now
  /\ reserve' = [reserve EXCEPT !.reserves = reserves, !.as_of = as_of]
  /\ signed_by' = k
  /\ UNCHANGED <<config, roles, quota, paused, mint, gate, blacklist, allowlist, tokens, now,
                 last_mint>>

\* Mutant: a mint is not counted.
CountNothing(amount) == UNCHANGED config

CountMinted(amount) == config' = [config EXCEPT !.total_minted = @ + amount]

\* A missing account is created if it is the recipient's ATA; on a mint that
\* freezes new accounts mint_to then refuses it.
MintTokens(k, a, amount) ==
  /\ "Minter" \in roles[k] /\ quota[k].exists
  /\ ~paused
  /\ WithinQuota(quota[k], amount)
  /\ CheckReserveAttestation(amount)
  /\ Thawed(a) \/ (tokens[a].state = "none" /\ a \in Atas /\ ~config.frozen)
  /\ ~mint.paused
  /\ {tokens[a].amount + amount, mint.supply + amount, quota[k].used + amount,
      config.total_minted + amount} \subseteq U64
  /\ tokens' = [tokens EXCEPT ![a].state = "thawed", ![a].amount = @ + amount]
  /\ mint' = [mint EXCEPT !.supply = @ + amount]
  /\ quota' = [quota EXCEPT ![k].used = @ + amount]
  /\ CountMinted(amount)
  /\ last_mint' = [last_mint EXCEPT ![k] = now]
  /\ UNCHANGED <<roles, reserve, paused, gate, blacklist, allowlist, now, signed_by>>

\* Token-2022's burn: the owner's own, with or without the program.
Debit(a, amount) ==
  /\ Thawed(a) /\ ~mint.paused
  /\ amount <= tokens[a].amount /\ amount <= mint.supply
  /\ tokens' = [tokens EXCEPT ![a].amount = @ - amount]
  /\ mint' = [mint EXCEPT !.supply = @ - amount]

BurnTokens(k, a, amount) ==
  /\ "Burner" \in roles[k]
  /\ a \in Atas /\ OwnerOf[a] = k
  /\ ~paused
  /\ Debit(a, amount)
  /\ config.total_burned + amount \in U64
  /\ config' = [config EXCEPT !.total_burned = @ + amount]
  /\ UNCHANGED <<roles, quota, reserve, paused, gate, blacklist, allowlist, now,
                 signed_by, last_mint>>

-----------------------------------------------------------------------------
(* pause.rs.                                                               *)

\* Mutant: the Pausable extension is not told.
SetPausedWithoutPausable(k, value) ==
  /\ ValidatePauser(k)
  /\ paused = ~value
  /\ paused' = value
  /\ config' = [config EXCEPT !.paused = value]
  /\ UNCHANGED <<roles, quota, reserve, mint, gate, blacklist, allowlist, tokens, now,
                 signed_by, last_mint>>

\* Mutant: unpause leaves the config's copy of the flag.
SetPausedInConfigOnce(k, value) ==
  /\ ValidatePauser(k)
  /\ paused = ~value
  /\ UsesTokenAcl => mint.paused = ~value
  /\ mint' = IF UsesTokenAcl THEN [mint EXCEPT !.paused = value] ELSE mint
  /\ paused' = value
  /\ config' = [config EXCEPT !.paused = TRUE]
  /\ UNCHANGED <<roles, quota, reserve, gate, blacklist, allowlist, tokens, now,
                 signed_by, last_mint>>

\* The Pausable extension follows in the Token ACL modes only.
SetPaused(k, value) ==
  /\ ValidatePauser(k)
  /\ paused = ~value
  /\ UsesTokenAcl => mint.paused = ~value
  /\ mint' = IF UsesTokenAcl THEN [mint EXCEPT !.paused = value] ELSE mint
  /\ paused' = value
  /\ config' = [config EXCEPT !.paused = value]
  /\ UNCHANGED <<roles, quota, reserve, gate, blacklist, allowlist, tokens, now,
                 signed_by, last_mint>>

Pause(k)   == SetPaused(k, TRUE)
Unpause(k) == SetPaused(k, FALSE)

-----------------------------------------------------------------------------
(* freeze.rs, freeze_route.rs, compliance.rs, allowlist.rs.                *)

\* Both routes (Token-2022 directly, or Token ACL's permissioned freeze)
\* refuse an account that is already in the state asked for.
FreezeAccount(k, a) ==
  /\ ValidateFreezeAuthority(k)
  /\ Thawed(a)
  /\ SetState(a, "frozen")
  /\ UNCHANGED <<config, roles, quota, reserve, paused, mint, gate, blacklist, allowlist, now,
                 signed_by, last_mint>>

ThawAccount(k, a) ==
  /\ ValidateFreezeAuthority(k)
  /\ tokens[a].state = "frozen"
  /\ SetState(a, "thawed")
  /\ UNCHANGED <<config, roles, quota, reserve, paused, mint, gate, blacklist, allowlist, now,
                 signed_by, last_mint>>

\* Blacklists the owner of `a` and freezes that account, no other one.
AddToBlacklist(k, a) ==
  /\ "Blacklister" \in roles[k]
  /\ ComplianceEnabled
  /\ tokens[a].state # "none"
  /\ OwnerOf[a] \notin blacklist
  /\ blacklist' = blacklist \cup {OwnerOf[a]}
  /\ SetState(a, "frozen")
  /\ UNCHANGED <<config, roles, quota, reserve, paused, mint, gate, allowlist, now,
                 signed_by, last_mint>>

RemoveFromBlacklist(k, w) ==
  /\ "Blacklister" \in roles[k]
  /\ ComplianceEnabled
  /\ w \in blacklist
  /\ blacklist' = blacklist \ {w}
  /\ UNCHANGED <<config, roles, quota, reserve, paused, mint, gate, allowlist, tokens, now,
                 signed_by, last_mint>>

AddToAllowlist(k, w) ==
  /\ config.allowlist
  /\ IsMaster(k)
  /\ w \notin allowlist
  /\ allowlist' = allowlist \cup {w}
  /\ UNCHANGED <<config, roles, quota, reserve, paused, mint, gate, blacklist, tokens, now,
                 signed_by, last_mint>>

RemoveFromAllowlist(k, w) ==
  /\ config.allowlist
  /\ IsMaster(k)
  /\ w \in allowlist
  /\ allowlist' = allowlist \ {w}
  /\ UNCHANGED <<config, roles, quota, reserve, paused, mint, gate, blacklist, tokens, now,
                 signed_by, last_mint>>

-----------------------------------------------------------------------------
(* seize.rs and enable_token_acl.rs.                                       *)

\* Mutant: any frozen account may be seized from.
SeizeAnyFrozen(k, a) ==
  /\ ComplianceEnabled /\ config.delegate
  /\ "Seizer" \in roles[k]
  /\ tokens[a].state = "frozen" /\ tokens[a].amount > 0

SeizeChecks(k, a) ==
  /\ ComplianceEnabled /\ config.delegate
  /\ "Seizer" \in roles[k]
  /\ OwnerOf[a] \in blacklist
  /\ tokens[a].state = "frozen" /\ tokens[a].amount > 0

\* The source is thawed and a paused mint resumed for the transfer alone, so
\* neither shows outside the instruction.  The permanent delegate, the config
\* PDA, signs; Token-2022 returns from a self-transfer before the hook.
SeizeTransfer(a, t) ==
  \/ t = a
  \/ /\ Thawed(t) /\ HookAllows(Nobody, t)
     /\ tokens[t].amount + tokens[a].amount \in U64

\* Mutant: total_burned is not checked for overflow.
SeizeUnchecked(k, a, t) ==
  /\ SeizeChecks(k, a)
  /\ SeizeTransfer(a, t)
  /\ tokens' = IF t = a THEN tokens
               ELSE [tokens EXCEPT ![a].amount = 0, ![t].amount = @ + tokens[a].amount]
  /\ config' = [config EXCEPT !.total_burned = @ + tokens[a].amount]
  /\ UNCHANGED <<roles, quota, reserve, paused, mint, gate, blacklist, allowlist, now,
                 signed_by, last_mint>>

Seize(k, a, t) ==
  /\ SeizeChecks(k, a)
  /\ SeizeTransfer(a, t)
  /\ config.total_burned + tokens[a].amount \in U64
  /\ tokens' = IF t = a THEN tokens
               ELSE [tokens EXCEPT ![a].amount = 0, ![t].amount = @ + tokens[a].amount]
  /\ config' = [config EXCEPT !.total_burned = @ + tokens[a].amount]
  /\ UNCHANGED <<roles, quota, reserve, paused, mint, gate, blacklist, allowlist, now,
                 signed_by, last_mint>>

\* create_config refuses a mint whose freeze authority is no longer the
\* config PDA's to give.
EnableTokenAcl(k, check_blacklist) ==
  /\ IsMaster(k)
  /\ UsesTokenAcl
  /\ mint.freeze_authority = "config"
  /\ mint' = [mint EXCEPT !.freeze_authority = "token_acl"]
  /\ gate' = IF check_blacklist THEN "blacklist" ELSE "open"
  /\ UNCHANGED <<config, roles, quota, reserve, paused, blacklist, allowlist, tokens, now,
                 signed_by, last_mint>>

-----------------------------------------------------------------------------
(* External: holders, anyone at the gate, the clock.                       *)

CreateAccount(a) ==
  /\ config.authority # Nobody
  /\ tokens[a].state = "none"
  /\ SetState(a, IF config.frozen THEN "frozen" ELSE "thawed")
  /\ UNCHANGED <<config, roles, quota, reserve, paused, mint, gate, blacklist, allowlist, now,
                 signed_by, last_mint>>

\* A holder approves a delegate, for more than any balance, or takes it back.
Approve(a, d) ==
  /\ Thawed(a)
  /\ tokens' = [tokens EXCEPT ![a].delegate = d]
  /\ UNCHANGED <<config, roles, quota, reserve, paused, mint, gate, blacklist, allowlist, now,
                 signed_by, last_mint>>

Revoke(a) ==
  /\ Thawed(a)
  /\ tokens' = [tokens EXCEPT ![a].delegate = Nobody]
  /\ UNCHANGED <<config, roles, quota, reserve, paused, mint, gate, blacklist, allowlist, now,
                 signed_by, last_mint>>

Transfer(signer, a, b, amount) ==
  /\ a # b
  /\ signer \in {OwnerOf[a], tokens[a].delegate}
  /\ Thawed(a) /\ Thawed(b) /\ ~mint.paused
  /\ amount <= tokens[a].amount
  /\ HookAllows(signer, b)
  /\ tokens[b].amount + amount \in U64
  /\ tokens' = [tokens EXCEPT ![a].amount = @ - amount, ![b].amount = @ + amount]
  /\ UNCHANGED <<config, roles, quota, reserve, paused, mint, gate, blacklist, allowlist, now,
                 signed_by, last_mint>>

HolderBurn(a, amount) ==
  /\ Debit(a, amount)
  /\ UNCHANGED <<config, roles, quota, reserve, paused, gate, blacklist, allowlist, now,
                 signed_by, last_mint>>

Flagged(w) == gate = "blacklist" /\ w \in blacklist

\* ATAs have ImmutableOwner, which the gate's thaw needs.
GateThaw(a) ==
  /\ gate # "none" /\ a \in Atas
  /\ tokens[a].state = "frozen" /\ ~Flagged(OwnerOf[a])
  /\ SetState(a, "thawed")
  /\ UNCHANGED <<config, roles, quota, reserve, paused, mint, gate, blacklist, allowlist, now,
                 signed_by, last_mint>>

GateFreeze(a) ==
  /\ Thawed(a) /\ Flagged(OwnerOf[a])
  /\ SetState(a, "frozen")
  /\ UNCHANGED <<config, roles, quota, reserve, paused, mint, gate, blacklist, allowlist, now,
                 signed_by, last_mint>>

Tick ==
  /\ now < MaxTime
  /\ now' = now + 1
  /\ UNCHANGED <<config, roles, quota, reserve, paused, mint, gate, blacklist, allowlist, tokens,
                 signed_by, last_mint>>

-----------------------------------------------------------------------------
AuthorityNext(k) ==
  \/ \E args \in InitArgs : Initialize(k, args)
  \/ \E minter \in Keys, limit \in Limits, period \in Periods : UpdateMinter(k, minter, limit, period)
  \/ \E grant \in RoleGrants, active \in BOOLEAN : UpdateRoles(k, grant[1], grant[2], active)
  \/ \E new_authority \in NewMasters : TransferAuthority(k, new_authority)
  \/ \E attestor \in Attestors, s \in Stalenesses : SetReserveAttestor(k, attestor, s)
  \/ \E w \in Keys : AddToAllowlist(k, w) \/ RemoveFromAllowlist(k, w)
  \/ \E check_blacklist \in BOOLEAN : EnableTokenAcl(k, check_blacklist)

OperatorNext(k) ==
  \/ \E reserves \in Postings, as_of \in 0 .. MaxTime : AttestReserves(k, reserves, as_of)
  \/ \E a \in Accounts, amount \in Amounts : MintTokens(k, a, amount) \/ BurnTokens(k, a, amount)
  \/ Pause(k) \/ Unpause(k)
  \/ \E a \in Accounts : FreezeAccount(k, a) \/ ThawAccount(k, a) \/ AddToBlacklist(k, a)
  \/ \E w \in Keys : RemoveFromBlacklist(k, w)
  \/ \E a, t \in Accounts : Seize(k, a, t)

ExternalNext ==
  \/ \E a \in Accounts : CreateAccount(a) \/ GateThaw(a) \/ GateFreeze(a)
  \/ \E a \in Accounts, amount \in Amounts : HolderBurn(a, amount)
  \/ \E pair \in Delegations : Approve(pair[1], pair[2]) \/ Revoke(pair[1])
  \/ \E signer \in Keys, a, b \in Accounts, amount \in Amounts : Transfer(signer, a, b, amount)
  \/ Tick

Next == (\E k \in Keys : AuthorityNext(k) \/ OperatorNext(k)) \/ ExternalNext

Spec == Init /\ [][Next]_vars

-----------------------------------------------------------------------------
(* Properties.                                                             *)

TypeOK ==
  /\ config \in [authority: Keys \cup {Nobody}, mode: Modes, hook: BOOLEAN, delegate: BOOLEAN,
                 frozen: BOOLEAN, allowlist: BOOLEAN, paused: BOOLEAN,
                 total_minted: U64, total_burned: U64]
  /\ roles \in [Keys -> SUBSET Roles]
  /\ quota \in [Keys -> [exists: BOOLEAN, limit: U64, used: U64,
                         period: {"Daily", "Weekly", "Monthly", "Lifetime"}]]
  /\ reserve \in [attestor: Keys \cup {Nobody}, reserves: U64, as_of: 0 .. MaxTime,
                  max_staleness: Nat]
  /\ paused \in BOOLEAN
  /\ mint \in [supply: U64, paused: BOOLEAN, freeze_authority: {"config", "token_acl"}]
  /\ gate \in {"none", "open", "blacklist"}
  /\ blacklist \subseteq Keys /\ allowlist \subseteq Keys
  /\ tokens \in [Accounts -> [state: {"none", "frozen", "thawed"}, amount: U64,
                          delegate: Keys \cup {Nobody}]]
  /\ now \in 0 .. MaxTime
  /\ signed_by \in Keys \cup {Nobody}
  /\ last_mint \in [Keys -> 0 .. MaxTime]

\* Exactly one key holds MasterAuthority, and it is the one the config (and
\* the gate policy enable_token_acl writes) names: the role can be handed on
\* but neither doubled nor lost (roles.rs transfer_authority, update_roles).
OneMaster ==
  config.authority # Nobody => \A k \in Keys : IsMaster(k) <=> k = config.authority

\* The three pause flags never disagree between instructions, seize's
\* resume-and-pause included (pause.rs "also update config for quick reads",
\* seize.rs "nothing else sees the mint unpaused").
PauseInStep ==
  /\ config.paused = paused
  /\ mint.paused = (paused /\ UsesTokenAcl)

\* The supply never exceeds what the program counted as minted: only its own
\* mint creates tokens, whichever way they leave.  That is all the counters say
\* of it: seize counts as burned tokens that still exist, and a holder's own
\* burn is not counted, so total_minted - total_burned bounds it neither way
\* (seize.rs "seizure counted as removal from circulating supply").
SupplyWithinMinted == mint.supply <= config.total_minted

\* A frozen account's balance changes only by the seizure of all of it from a
\* blacklisted owner, after which it is frozen still (seize.rs).
FrozenMovesOnlyBySeizure ==
  [][\A a \in Accounts :
       tokens[a].state = "frozen" /\ tokens'[a].amount # tokens[a].amount =>
         /\ OwnerOf[a] \in blacklist
         /\ tokens'[a].state = "frozen" /\ tokens'[a].amount = 0
         /\ mint'.supply = mint.supply]_vars

\* New supply of a mint that has, or needs, a reserve attestation is covered
\* by reserves that the present attestor signed and measured within the
\* staleness window (mint.rs check_reserve_attestation; reserves.rs "numbers
\* signed by the previous attestor are not carried over").
MintsAreBacked ==
  [][mint'.supply > mint.supply /\ (UsesTokenAcl \/ reserve.attestor # Nobody) =>
       /\ signed_by = reserve.attestor /\ signed_by # Nobody
       /\ mint'.supply <= reserve.reserves
       /\ now - reserve.as_of <= reserve.max_staleness]_vars

\* While a Token ACL mode mint is paused no balance moves except by seizure,
\* and the supply stands (pause.rs: "pauses all token operations").
PausedMintIsStill ==
  [][paused /\ UsesTokenAcl =>
       /\ mint'.supply = mint.supply
       /\ \A a \in Accounts :
            tokens'[a].amount < tokens[a].amount =>
              tokens[a].state = "frozen" /\ OwnerOf[a] \in blacklist]_vars

\* With the hook, a blacklisted wallet is given nothing by a transfer and signs
\* none itself: a balance of his, frozen or not, rises only by a mint and falls
\* only by a burn, a seizure, or a transfer that a delegate he approved signed,
\* one who is not blacklisted himself (transfer-hook execute.rs derives the
\* source's entry from the signing authority, not from the account's owner).
HookHoldsBlacklisted ==
  [][\A a \in Accounts :
       config.hook /\ OwnerOf[a] \in blacklist =>
         /\ tokens'[a].amount > tokens[a].amount => mint'.supply > mint.supply
         /\ tokens'[a].amount < tokens[a].amount =>
              \/ mint'.supply < mint.supply
              \/ tokens[a].state = "frozen"
              \/ tokens[a].delegate \notin blacklist \cup {Nobody}]_vars

\* A minter who has not minted for a whole day has its Daily quota back
\* (state/minter_quota.rs: "Quota resets every 24 hours").
DailyQuotaResets ==
  \A k \in Keys :
    LET q == quota[k]
    IN  q.exists /\ q.period = "Daily" /\ now - last_mint[k] >= Day =>
          \A amount \in 1 .. q.limit : WithinQuota(q, amount)
=============================================================================
