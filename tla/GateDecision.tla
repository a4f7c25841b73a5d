---------------------------- MODULE GateDecision ----------------------------
(***************************************************************************)
(* What the ThawGate program decides on a permissionless thaw or freeze,   *)
(* as operators: the extra accounts Token ACL resolves for it (metas.rs),  *)
(* the readers of those accounts (registry.rs, sas.rs), the handler that   *)
(* puts the facts together (instructions/gate.rs) and the decision table   *)
(* (decision.rs).                                                          *)
(*                                                                         *)
(* Data is reduced to what a decision can tell apart.  An issuer registry  *)
(* account is a cell "absent", "inactive", "active" or "foreign" (data     *)
(* that is not this issuer's entry for this mint and wallet).  A SAS       *)
(* attestation account is a record: exists, expiry, and level, the first   *)
(* byte of its schema data (NoData when there is none).  A credential and  *)
(* its schema, always used together, are one key.                          *)
(***************************************************************************)
EXTENDS Integers, Sequences

CONSTANT NoKey          \* Pubkey::default()

Cells          == {"absent", "inactive", "active", "foreign"}
AllowlistModes == {"Off", "AllowOnly", "BypassForPdas"}
Ops            == {"Thaw", "Freeze"}
NoData         == -1

-----------------------------------------------------------------------------
(* metas.rs: where each extra account sits in the gate instruction.        *)

EXTRA_METAS_INDEX == 5
POLICY_INDEX      == 6
SAS_GROUP_LEN     == 4
None              == 0  \* an Option<usize> without a value; no extra sits at index 0

Layout(p) ==
  LET Width(on, n) == IF on THEN n ELSE 0
      allowlist_on == p.allowlist_mode # "Off"
      registry_on  == p.check_blacklist \/ allowlist_on
      issuer       == POLICY_INDEX + 1
      blacklist    == issuer + Width(registry_on, 1)
      allowlist    == blacklist + Width(p.check_blacklist, 1)
      sas          == allowlist + Width(allowlist_on, 1)
  IN  [issuer      |-> IF registry_on THEN issuer ELSE None,
       blacklist   |-> IF p.check_blacklist THEN blacklist ELSE None,
       allowlist   |-> IF allowlist_on THEN allowlist ELSE None,
       sas         |-> IF p.require_sas THEN sas ELSE None,
       attestation |-> IF p.require_sas THEN sas + 3 ELSE None,
       len         |-> sas + Width(p.require_sas, SAS_GROUP_LEN)]

\* A meta is a fixed key, or a PDA derived from the accounts before it: `at`
\* is the instruction index of the program the PDA belongs to.
Meta(kind, key, at) == [kind |-> kind, key |-> key, at |-> at]

RegistryMetas(p) ==
  LET layout == Layout(p)
  IN  IF layout.issuer = None THEN <<>>
      ELSE <<Meta("program", p.issuer_program, None)>>
           \o (IF layout.blacklist = None THEN <<>>
                 ELSE <<Meta("blacklist", NoKey, layout.issuer)>>)
           \o (IF layout.allowlist = None THEN <<>>
                 ELSE <<Meta("allowlist", NoKey, layout.issuer)>>)

SasMetas(p) ==
  LET layout == Layout(p)
  IN  IF layout.sas = None THEN <<>>
      ELSE <<Meta("sas_program", NoKey, None),
             Meta("credential", p.sas, None),
             Meta("schema", p.sas, None),
             Meta("attestation", NoKey, layout.sas)>>

ExtraMetas(p) == <<Meta("policy", NoKey, None)>> \o RegistryMetas(p) \o SasMetas(p)

-----------------------------------------------------------------------------
(* Token ACL's resolution of a list (external): the account behind the     *)
(* meta at an instruction index, for one owner.  `world` holds the         *)
(* accounts: world.blacklist and world.allowlist by issuer program and     *)
(* wallet, world.attestation by credential and wallet.                     *)

MetaAt(metas, index) == metas[index - EXTRA_METAS_INDEX]

NoAttestation == [exists |-> FALSE, expiry |-> 0, level |-> NoData]

ResolveEntry(metas, index, world, owner) ==
  LET m == MetaAt(metas, index)
      program == MetaAt(metas, m.at).key
  IN  CASE m.kind = "blacklist" -> [kind |-> "blacklist", program |-> program,
                                    cell |-> world.blacklist[program][owner]]
        [] m.kind = "allowlist" -> [kind |-> "allowlist", program |-> program,
                                    cell |-> world.allowlist[program][owner]]
        [] OTHER -> [kind |-> m.kind, program |-> NoKey, cell |-> "foreign"]

ResolveAttestation(metas, index, world, owner) ==
  LET m == MetaAt(metas, index)
      credential == MetaAt(metas, m.at + 1).key
  IN  IF m.kind = "attestation"
        THEN [credential |-> credential, account |-> world.attestation[credential][owner]]
        ELSE [credential |-> NoKey, account |-> [NoAttestation EXCEPT !.exists = TRUE]]

-----------------------------------------------------------------------------
(* registry.rs and sas.rs: what the accounts say.                          *)

\* Empty data is "no entry" before anything else is checked; then the owner
\* program, the discriminator, the mint and the wallet must match.
ReadEntry(account, kind, issuer) ==
  IF account.cell = "absent" THEN "None"
  ELSE IF account.kind # kind \/ account.program # issuer \/ account.cell = "foreign"
    THEN "Bad"
  ELSE IF account.cell = "active" THEN "Active" ELSE "Inactive"

\* Mutant: an attestation ends at its expiry instead of after it.
ExpiresEarly(account, now) == account.expiry # 0 /\ account.expiry <= now

IsExpired(account, now) == account.expiry # 0 /\ account.expiry < now

ReadAttestation(account, p, now) ==
  LET a == account.account
  IN  IF ~a.exists THEN "Missing"
      ELSE IF account.credential # p.sas THEN "Bad"
      ELSE IF IsExpired(a, now) THEN "Expired"
      ELSE IF p.min_kyc_level > 0 /\ a.level = NoData THEN "Bad"
      ELSE IF p.min_kyc_level > 0 /\ a.level < p.min_kyc_level THEN "LevelTooLow"
      ELSE "Valid"

-----------------------------------------------------------------------------
(* decision.rs: the decision table over the facts the handler read.        *)

NoFlag == "NoFlag"

\* Mutant: an allowlist entry that was deactivated still counts.
FlagUnlessEverListed(facts) ==
  IF facts.blacklist = "Active" THEN "Blacklisted"
  ELSE IF facts.allowlist_mode = "AllowOnly" /\ facts.allowlist = "None" THEN "NotAllowlisted"
  ELSE CASE facts.sas = "Missing"     -> "NoCredential"
         [] facts.sas = "Expired"     -> "CredentialExpired"
         [] facts.sas = "LevelTooLow" -> "KycLevelTooLow"
         [] OTHER                     -> NoFlag

\* The first policy that flags the owner: blacklist, allowlist, credential.
Flag(facts) ==
  IF facts.blacklist = "Active" THEN "Blacklisted"
  ELSE IF facts.allowlist_mode = "AllowOnly" /\ facts.allowlist # "Active"
    THEN "NotAllowlisted"
  ELSE CASE facts.sas = "Missing"     -> "NoCredential"
         [] facts.sas = "Expired"     -> "CredentialExpired"
         [] facts.sas = "LevelTooLow" -> "KycLevelTooLow"
         [] OTHER                     -> NoFlag

AdmittedBy(facts) ==
  IF facts.sas = "Bypassed" THEN "PdaAllowlisted"
  ELSE IF facts.sas # "NotRequired" THEN "Kyc"
  ELSE IF facts.allowlist = "Active" THEN "Allowlisted" ELSE "Clean"

Allow(code) == [allow |-> TRUE, code |-> code]
Deny(code)  == [allow |-> FALSE, code |-> code]

\* Mutant: a thaw does not ask for ImmutableOwner.
EvaluateAnyOwner(op, facts) ==
  LET flag == Flag(facts)
  IN  IF op = "Thaw" THEN IF flag # NoFlag THEN Deny(flag) ELSE Allow(AdmittedBy(facts))
      ELSE IF flag # NoFlag THEN Allow(flag) ELSE Deny("Compliant")

Evaluate(op, facts) ==
  LET flag == Flag(facts)
  IN  IF op = "Thaw"
        THEN IF ~facts.immutable_owner THEN Deny("NoImmutableOwner")
             ELSE IF flag # NoFlag THEN Deny(flag)
             ELSE Allow(AdmittedBy(facts))
        ELSE IF flag # NoFlag THEN Allow(flag) ELSE Deny("Compliant")

-----------------------------------------------------------------------------
(* instructions/gate.rs: decide.  `metas` is the list Token ACL resolved,  *)
(* empty when the caller left the extra-metas account out; `p` is the      *)
(* policy account, version 0 while it does not exist.                      *)

Decide(op, p, metas, world, owner, off_curve, immutable_owner, now) ==
  IF Len(metas) < POLICY_INDEX - EXTRA_METAS_INDEX THEN Deny("MissingAccounts")
  ELSE IF p.version = 0 THEN Deny("BadPolicy")
  ELSE
  LET layout == Layout(p)
  IN  IF EXTRA_METAS_INDEX + 1 + Len(metas) < layout.len THEN Deny("MissingAccounts")
  ELSE
  LET Read(kind, index) ==
        IF index = None THEN "NotConsulted"
        ELSE ReadEntry(ResolveEntry(metas, index, world, owner), kind, p.issuer_program)
      blacklist == Read("blacklist", layout.blacklist)
      allowlist == Read("allowlist", layout.allowlist)
      sas == IF layout.attestation = None THEN "NotRequired"
             ELSE IF p.allowlist_mode = "BypassForPdas" /\ allowlist = "Active" /\ off_curve
               THEN "Bypassed"
             ELSE ReadAttestation(ResolveAttestation(metas, layout.attestation, world, owner), p, now)
  IN  IF blacklist = "Bad" \/ allowlist = "Bad" THEN Deny("BadRegistryEntry")
      ELSE IF sas = "Bad" THEN Deny("BadCredential")
      ELSE Evaluate(op, [immutable_owner |-> op = "Thaw" => immutable_owner,
                         blacklist |-> blacklist, allowlist |-> allowlist,
                         allowlist_mode |-> p.allowlist_mode, sas |-> sas])
=============================================================================
