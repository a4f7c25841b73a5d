---------------------------- MODULE KeeperPolicy ----------------------------
(***************************************************************************)
(* The keeper's own copy of the gate's freeze rule (services/keeper/src/   *)
(* policy.ts) and its account readers (accounts.ts).  The keeper picks     *)
(* freeze candidates with it; the gate decides again on chain.             *)
(*                                                                         *)
(* A read carries `defined`: FALSE when the keeper has not read the account,*)
(* or has no address for it.                                               *)
(***************************************************************************)
EXTENDS GateDecision

\* reads.blacklist / reads.allowlist: [defined, cell].
EntryRead(cell) == [defined |-> TRUE, cell |-> cell]
NoEntryRead     == [defined |-> FALSE, cell |-> "absent"]

\* reads.attestation: [defined, account].
AttestationRead(account) == [defined |-> TRUE, account |-> account]
NoAttestationRead        == [defined |-> FALSE, account |-> NoAttestation]

\* Mutant: expiry 0 is taken for a date.
CredentialStateExpiryZero(account, min_kyc_level, now) ==
  IF ~account.exists THEN "missing"
  ELSE IF account.expiry < now THEN "expired"
  ELSE IF min_kyc_level > 0 /\ account.level = NoData THEN "bad"
  ELSE IF min_kyc_level > 0 /\ account.level < min_kyc_level THEN "levelTooLow"
  ELSE "valid"

\* credentialState
CredentialState(account, min_kyc_level, now) ==
  IF ~account.exists THEN "missing"
  ELSE IF account.expiry # 0 /\ account.expiry < now THEN "expired"
  ELSE IF min_kyc_level > 0 /\ account.level = NoData THEN "bad"
  ELSE IF min_kyc_level > 0 /\ account.level < min_kyc_level THEN "levelTooLow"
  ELSE "valid"

NoReason == "NoReason"

\* freezeReason: the gate's reason to allow a freeze now, or NoReason.
FreezeReason(p, reads, now) ==
  LET blacklist == IF p.check_blacklist THEN reads.blacklist ELSE EntryRead("absent")
      allowlist == IF p.allowlist_mode # "Off" THEN reads.allowlist ELSE EntryRead("absent")
      bypassed  == /\ p.allowlist_mode = "BypassForPdas"
                   /\ allowlist.cell = "active"
                   /\ reads.off_curve
      credential == IF ~p.require_sas THEN "notRequired"
                    ELSE IF bypassed THEN "bypassed"
                    ELSE CredentialState(reads.attestation.account, p.min_kyc_level, now)
  IN  IF ~blacklist.defined \/ ~allowlist.defined THEN NoReason
      ELSE IF blacklist.cell = "foreign" \/ allowlist.cell = "foreign" THEN NoReason
      ELSE IF p.require_sas /\ ~bypassed /\ ~reads.attestation.defined THEN NoReason
      ELSE IF credential = "bad" THEN NoReason
      ELSE IF blacklist.cell = "active" THEN "Blacklisted"
      ELSE IF p.allowlist_mode = "AllowOnly" /\ allowlist.cell # "active" THEN "NotAllowlisted"
      ELSE CASE credential = "missing"     -> "NoCredential"
             [] credential = "expired"     -> "CredentialExpired"
             [] credential = "levelTooLow" -> "KycLevelTooLow"
             [] OTHER                      -> NoReason

\* ownerVerdict: what GET /mints/:mint says of an owner; clock_known is FALSE
\* until a sweep has read the cluster clock.
OwnerVerdict(p, reads, clock_known, now) ==
  LET blacklist == IF p.check_blacklist THEN reads.blacklist ELSE EntryRead("absent")
      allowlist == IF p.allowlist_mode # "Off" THEN reads.allowlist ELSE EntryRead("absent")
      reason    == FreezeReason(p, reads, now)
      unread    == \/ ~blacklist.defined \/ ~allowlist.defined
                   \/ blacklist.cell = "foreign" \/ allowlist.cell = "foreign"
  IN  IF ~clock_known THEN <<"unknown">>
      ELSE IF reason # NoReason THEN <<"freezable", reason>>
      ELSE IF unread THEN <<"unknown">>
      ELSE IF p.require_sas
        THEN IF p.allowlist_mode = "BypassForPdas" /\ allowlist.cell = "active" /\ reads.off_curve
               THEN <<"compliant", "PdaAllowlisted">>
             ELSE IF \/ ~reads.attestation.defined
                     \/ CredentialState(reads.attestation.account, p.min_kyc_level, now) # "valid"
               THEN <<"unknown">>
             ELSE <<"compliant", "Kyc">>
      ELSE IF allowlist.cell = "active" THEN <<"compliant", "Allowlisted">>
      ELSE <<"compliant", "Clean">>
=============================================================================
