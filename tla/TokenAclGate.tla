---------------------------- MODULE TokenAclGate ----------------------------
(***************************************************************************)
(* One mint under Token ACL whose gating program is ThawGate: the policy   *)
(* account and its two extra-metas lists (init_policy, update_policy,      *)
(* setup_extra_metas), the accounts the gate reads, and the token accounts *)
(* that anyone may thaw or freeze through the gate.                        *)
(*                                                                         *)
(* Token ACL, Token-2022 and the Solana Attestation Service are external:  *)
(* modelled from how the gate uses them.                                   *)
(***************************************************************************)
EXTENDS KeeperPolicy

CONSTANTS
  Wallets,        \* owners of token accounts
  Pdas,           \* the owners that are off curve: pools and vaults
  Accounts,       \* token accounts of the mint
  Issuers,        \* programs that may hold the registry
  SasConfigs,     \* SAS credential + schema pairs
  Keys,           \* signers
  FreezeAuthority,\* MintConfig.freeze_authority
  Levels,         \* KYC levels an attestation may carry
  MaxTime,        \* bound on the cluster clock
  PolicyArgs      \* arguments tried on init_policy and update_policy

ASSUME GateConstants ==
  /\ Pdas \subseteq Wallets
  /\ NoKey \notin Issuers \cup SasConfigs \cup Keys
  /\ FreezeAuthority \in Keys
  /\ Levels \subseteq Nat
  /\ MaxTime \in Nat
  /\ PolicyArgs \subseteq [authority: Keys \cup {NoKey},
                           issuer_program: Issuers \cup {NoKey},
                           check_blacklist: BOOLEAN,
                           allowlist_mode: AllowlistModes,
                           require_sas: BOOLEAN,
                           sas: SasConfigs \cup {NoKey},
                           min_kyc_level: Levels \cup {0}]

VARIABLES
  policy,     \* the GatePolicy account; version 0 while it does not exist
  metas,      \* the thaw and the freeze extra-metas list
  enabled,    \* MintConfig: permissionless thaw / freeze enabled
  world,      \* registry entries and attestations
  tokens,     \* the mint's token accounts
  now,        \* Clock::unix_timestamp
  by          \* history: who last froze or thawed each account

vars == <<policy, metas, enabled, world, tokens, now, by>>

Policies ==
  [version: {0, 1},
   authority: Keys \cup {NoKey},
   issuer_program: Issuers \cup {NoKey},
   check_blacklist: BOOLEAN,
   allowlist_mode: AllowlistModes,
   require_sas: BOOLEAN,
   sas: SasConfigs \cup {NoKey},
   min_kyc_level: Levels \cup {0}]

Times        == 0..MaxTime
Attestations == [exists: BOOLEAN, expiry: Nat, level: Levels \cup {NoData}]

TokenAccounts ==
  [state: {"none", "frozen", "initialized"}, owner: Wallets, immutable_owner: BOOLEAN]

NoPolicy ==
  [version |-> 0, authority |-> NoKey, issuer_program |-> NoKey, check_blacklist |-> FALSE,
   allowlist_mode |-> "Off", require_sas |-> FALSE, sas |-> NoKey, min_kyc_level |-> 0]

Init ==
  /\ policy = NoPolicy
  /\ metas = [thaw |-> <<>>, freeze |-> <<>>]
  /\ enabled = [thaw |-> FALSE, freeze |-> FALSE]
  /\ world = [blacklist |-> [i \in Issuers |-> [w \in Wallets |-> "absent"]],
              allowlist |-> [i \in Issuers |-> [w \in Wallets |-> "absent"]],
              attestation |-> [c \in SasConfigs |-> [w \in Wallets |-> NoAttestation]]]
  /\ \E owners \in [Accounts -> Wallets] :
       tokens = [a \in Accounts |->
                   [state |-> "none", owner |-> owners[a], immutable_owner |-> FALSE]]
  /\ now = 0
  /\ by = [a \in Accounts |-> "none"]

-----------------------------------------------------------------------------
(* The gate's own instructions.                                            *)

\* GatePolicy::apply's checks.
ValidArgs(args) ==
  /\ args.check_blacklist \/ args.allowlist_mode # "Off" => args.issuer_program # NoKey
  /\ args.require_sas => args.sas # NoKey
  /\ args.allowlist_mode = "BypassForPdas" => args.require_sas

\* Mutant: the policy is stamped with a version its readers do not know.
ApplyNextVersion(args) ==
  [version |-> 2, authority |-> args.authority, issuer_program |-> args.issuer_program,
   check_blacklist |-> args.check_blacklist, allowlist_mode |-> args.allowlist_mode,
   require_sas |-> args.require_sas, sas |-> args.sas, min_kyc_level |-> args.min_kyc_level]

Apply(args) ==
  [version |-> 1, authority |-> args.authority, issuer_program |-> args.issuer_program,
   check_blacklist |-> args.check_blacklist, allowlist_mode |-> args.allowlist_mode,
   require_sas |-> args.require_sas, sas |-> args.sas, min_kyc_level |-> args.min_kyc_level]

\* Mutant: the freeze list is left as it was.
WriteThawList(p) == metas' = [metas EXCEPT !.thaw = ExtraMetas(p)]

WriteBoth(p) == metas' = [thaw |-> ExtraMetas(p), freeze |-> ExtraMetas(p)]

InitPolicy(signer, args) ==
  /\ policy.version = 0
  /\ signer = FreezeAuthority
  /\ ValidArgs(args)
  /\ policy' = Apply(args)
  /\ WriteBoth(policy')
  /\ UNCHANGED <<enabled, world, tokens, now, by>>

UpdatePolicy(signer, args) ==
  /\ policy.version # 0
  /\ signer = policy.authority
  /\ ValidArgs(args)
  /\ policy' = Apply(args)
  /\ WriteBoth(policy')
  /\ UNCHANGED <<enabled, world, tokens, now, by>>

SetupExtraMetas(signer) ==
  /\ policy.version # 0
  /\ signer = policy.authority
  /\ WriteBoth(policy)
  /\ UNCHANGED <<policy, enabled, world, tokens, now, by>>

\* can_thaw_permissionless / can_freeze_permissionless for a token account;
\* without_extras: the caller left the extra-metas account out.
CanGate(op, a, without_extras) ==
  LET list == IF op = "Thaw" THEN metas.thaw ELSE metas.freeze
  IN  Decide(op, policy, IF without_extras THEN <<>> ELSE list, world, tokens[a].owner,
             tokens[a].owner \in Pdas, tokens[a].immutable_owner, now)

-----------------------------------------------------------------------------
(* Token ACL (external).                                                   *)

ThawPermissionless(a, without_extras) ==
  /\ enabled.thaw
  /\ tokens[a].state = "frozen"
  /\ CanGate("Thaw", a, without_extras).allow
  /\ tokens' = [tokens EXCEPT ![a].state = "initialized"]
  /\ by' = [by EXCEPT ![a] = "gate"]
  /\ UNCHANGED <<policy, metas, enabled, world, now>>

FreezePermissionless(a, without_extras) ==
  /\ enabled.freeze
  /\ tokens[a].state = "initialized"
  /\ CanGate("Freeze", a, without_extras).allow
  /\ tokens' = [tokens EXCEPT ![a].state = "frozen"]
  /\ by' = [by EXCEPT ![a] = "gate"]
  /\ UNCHANGED <<policy, metas, enabled, world, now>>

\* freeze and thaw by the freeze authority: the gate is not called.
Permissioned(a, state) ==
  /\ tokens[a].state \notin {"none", state}
  /\ tokens' = [tokens EXCEPT ![a].state = state]
  /\ by' = [by EXCEPT ![a] = "issuer"]
  /\ UNCHANGED <<policy, metas, enabled, world, now>>

TogglePermissionless(thaw, freeze) ==
  /\ enabled' = [thaw |-> thaw, freeze |-> freeze]
  /\ UNCHANGED <<policy, metas, world, tokens, now, by>>

-----------------------------------------------------------------------------
(* Token-2022, the issuer's registry, SAS and the clock (external).        *)

\* The mint's DefaultAccountState is Frozen.  Init already picked the owner.
CreateAccount(a, immutable_owner) ==
  /\ tokens[a].state = "none"
  /\ tokens' = [tokens EXCEPT ![a] = [state |-> "frozen", owner |-> tokens[a].owner,
                                      immutable_owner |-> immutable_owner]]
  /\ UNCHANGED <<policy, metas, enabled, world, now, by>>

\* SetAuthority(AccountOwner): refused on a frozen account and by ImmutableOwner.
SetOwner(a, owner) ==
  /\ tokens[a].state = "initialized"
  /\ ~tokens[a].immutable_owner
  /\ tokens' = [tokens EXCEPT ![a].owner = owner]
  /\ UNCHANGED <<policy, metas, enabled, world, now, by>>

SetRegistry(list, i, w, cell) ==
  /\ list \in {"blacklist", "allowlist"}
  /\ world' = [world EXCEPT ![list][i][w] = cell]
  /\ UNCHANGED <<policy, metas, enabled, tokens, now, by>>

\* SAS refuses an expiry in the past; 0 never expires.
CreateAttestation(c, w, expiry, level) ==
  /\ ~world.attestation[c][w].exists
  /\ expiry = 0 \/ expiry >= now
  /\ world' = [world EXCEPT !.attestation[c][w] =
                 [exists |-> TRUE, expiry |-> expiry, level |-> level]]
  /\ UNCHANGED <<policy, metas, enabled, tokens, now, by>>

CloseAttestation(c, w) ==
  /\ world.attestation[c][w].exists
  /\ world' = [world EXCEPT !.attestation[c][w] = NoAttestation]
  /\ UNCHANGED <<policy, metas, enabled, tokens, now, by>>

Tick ==
  /\ now < MaxTime
  /\ now' = now + 1
  /\ UNCHANGED <<policy, metas, enabled, world, tokens, by>>

-----------------------------------------------------------------------------
GateNext ==
  \/ \E k \in Keys :
       \/ \E args \in PolicyArgs : InitPolicy(k, args) \/ UpdatePolicy(k, args)
       \/ SetupExtraMetas(k)
  \/ \E a \in Accounts, without_extras \in BOOLEAN :
       \/ ThawPermissionless(a, without_extras)
       \/ FreezePermissionless(a, without_extras)

IssuerNext ==
  \/ \E a \in Accounts, s \in {"frozen", "initialized"} : Permissioned(a, s)
  \/ \E thaw, freeze \in BOOLEAN : TogglePermissionless(thaw, freeze)
  \/ \E i \in Issuers, w \in Wallets, cell \in Cells :
       \/ SetRegistry("blacklist", i, w, cell)
       \/ SetRegistry("allowlist", i, w, cell)

HolderNext ==
  \/ \E a \in Accounts, immutable_owner \in BOOLEAN : CreateAccount(a, immutable_owner)
  \/ \E a \in Accounts, w \in Wallets : SetOwner(a, w)
  \/ \E c \in SasConfigs, w \in Wallets :
       \/ \E expiry \in Times, level \in Levels \cup {NoData} :
            CreateAttestation(c, w, expiry, level)
       \/ CloseAttestation(c, w)
  \/ Tick

Next == GateNext \/ IssuerNext \/ HolderNext

Spec == Init /\ [][Next]_vars

-----------------------------------------------------------------------------
(* Reference definitions: the policy in its own words, with no index, list *)
(* or decision order.                                                      *)

CredentialLive(p, w) ==
  LET att == world.attestation[p.sas][w]
  IN  /\ att.exists
      /\ att.expiry = 0 \/ now <= att.expiry
      /\ p.min_kyc_level > 0 => att.level >= p.min_kyc_level

StandsInForCredential(p, w) ==
  /\ p.allowlist_mode = "BypassForPdas"
  /\ w \in Pdas
  /\ world.allowlist[p.issuer_program][w] = "active"

Complies(p, w) ==
  /\ p.check_blacklist => world.blacklist[p.issuer_program][w] # "active"
  /\ p.allowlist_mode = "AllowOnly" => world.allowlist[p.issuer_program][w] = "active"
  /\ p.require_sas => StandsInForCredential(p, w) \/ CredentialLive(p, w)

\* The accounts the policy consults hold what they should.
Readable(p, w) ==
  /\ p.check_blacklist => world.blacklist[p.issuer_program][w] # "foreign"
  /\ p.allowlist_mode # "Off" => world.allowlist[p.issuer_program][w] # "foreign"
  /\ p.require_sas /\ ~StandsInForCredential(p, w) =>
       LET att == world.attestation[p.sas][w]
       IN  ~(/\ att.exists
             /\ att.expiry = 0 \/ now <= att.expiry
             /\ p.min_kyc_level > 0 /\ att.level = NoData)

Verdict(a) ==
  LET w == tokens[a].owner
  IN  IF policy.version = 0 THEN "unreadable"
      ELSE IF ~Readable(policy, w) THEN "unreadable"
      ELSE IF Complies(policy, w) THEN "clear" ELSE "flagged"

\* The same, in GatePromise's variables.
Promise == INSTANCE GatePromise WITH
  status  <- [a \in Accounts |-> tokens[a].state],
  verdict <- [a \in Accounts |-> Verdict(a)],
  by      <- by

-----------------------------------------------------------------------------
(* Properties.                                                             *)

\* Every variable keeps its type (the policy account, the clock, the token
\* accounts and the registry cells the gate's readers can meet).
TypeOK ==
  /\ policy \in Policies
  /\ DOMAIN metas = {"thaw", "freeze"}
  /\ enabled \in [thaw: BOOLEAN, freeze: BOOLEAN]
  /\ world \in [blacklist: [Issuers -> [Wallets -> Cells]],
                allowlist: [Issuers -> [Wallets -> Cells]],
                attestation: [SasConfigs -> [Wallets -> Attestations]]]
  /\ tokens \in [Accounts -> TokenAccounts]
  /\ now \in Times
  /\ by \in [Accounts -> {"none", "gate", "issuer"}]

\* The lists Token ACL resolves are the ones the stored policy reads by index
\* (update_policy.rs: "the lists always match the stored policy").
ListsMatchPolicy ==
  policy.version # 0 =>
    /\ ValidArgs(policy)
    /\ metas = [thaw |-> ExtraMetas(policy), freeze |-> ExtraMetas(policy)]

\* decide() and its account plumbing compute exactly the written policy: with
\* the extra accounts supplied, a thaw passes iff the account has
\* ImmutableOwner and its owner is readable and complies, a freeze iff its
\* owner is readable and does not comply.  So no state lets anyone do both,
\* and a readable holder who stops complying can always be frozen.
GateDecidesPolicy ==
  \A a \in Accounts :
    policy.version # 0 =>
      /\ CanGate("Thaw", a, FALSE).allow <=> tokens[a].immutable_owner /\ Verdict(a) = "clear"
      /\ CanGate("Freeze", a, FALSE).allow <=> Verdict(a) = "flagged"

\* What the keeper would read of an account's owner, all accounts fetched.
KeeperReads(a) ==
  LET w == tokens[a].owner
  IN  [blacklist   |-> IF policy.check_blacklist
                         THEN EntryRead(world.blacklist[policy.issuer_program][w])
                         ELSE NoEntryRead,
       allowlist   |-> IF policy.allowlist_mode # "Off"
                         THEN EntryRead(world.allowlist[policy.issuer_program][w])
                         ELSE NoEntryRead,
       attestation |-> IF policy.require_sas
                         THEN AttestationRead(world.attestation[policy.sas][w])
                         ELSE NoAttestationRead,
       off_curve   |-> w \in Pdas]

\* The keeper's mirror of the rule agrees with the gate on every owner, down
\* to the reason code: it never wastes a transaction on a compliant holder and
\* never overlooks one the gate would let it freeze (keeper/src/policy.ts).
KeeperAgreesWithGate ==
  \A a \in Accounts :
    policy.version # 0 =>
      LET gate    == CanGate("Freeze", a, FALSE)
          reads   == KeeperReads(a)
          reason  == FreezeReason(policy, reads, now)
          verdict == OwnerVerdict(policy, reads, TRUE, now)
      IN  /\ gate.allow <=> reason # NoReason
          /\ gate.allow => reason = gate.code /\ verdict = <<"freezable", gate.code>>
          /\ verdict[1] = "compliant" <=> gate.code = "Compliant"
          /\ tokens[a].immutable_owner /\ verdict[1] = "compliant" =>
               verdict[2] = CanGate("Thaw", a, FALSE).code

\* An account that the gate thawed for its owner is never handed to another
\* wallet while it stays thawed (gate.rs has_immutable_owner: "a KYC'd owner
\* could thaw the account and then hand it to someone else").
GateThawedKeepsOwner ==
  [][\A a \in Accounts :
       tokens[a].state = "initialized" /\ by[a] = "gate" =>
         tokens'[a].owner = tokens[a].owner]_vars

\* Every step of the gated mint is a step of the promise: permissionless
\* thaws only of clear owners, permissionless freezes only of flagged ones.
KeepsPromise == Promise!Spec
=============================================================================
