--------------------------- MODULE MCTokenAclGate ---------------------------
(* TokenAclGate on a small mint: a wallet and a pool (off curve), one token *)
(* account, two issuer programs the registry may move between, one SAS      *)
(* credential.                                                              *)
EXTENDS TokenAclGate, FiniteSets

CONSTANTS holder, pool, sss, fork, kyc, admin, stranger, MaxRecords

Args(authority, issuer, blacklist, mode, require_sas, sas, level) ==
  [authority |-> authority, issuer_program |-> issuer, check_blacklist |-> blacklist,
   allowlist_mode |-> mode, require_sas |-> require_sas, sas |-> sas, min_kyc_level |-> level]

\* One argument record per shape of the extra-metas list, and the arguments
\* GatePolicy::apply must refuse.
MCPolicyArgs ==
  {Args(admin, NoKey, FALSE, "Off", FALSE, NoKey, 0),
   Args(admin, sss, TRUE, "Off", FALSE, NoKey, 0),
   Args(admin, fork, TRUE, "AllowOnly", FALSE, NoKey, 0),
   Args(admin, sss, TRUE, "BypassForPdas", TRUE, kyc, 2),
   Args(admin, sss, FALSE, "AllowOnly", TRUE, kyc, 1),
   Args(stranger, NoKey, FALSE, "Off", TRUE, kyc, 2),
   Args(NoKey, sss, TRUE, "Off", TRUE, kyc, 2),
   Args(admin, NoKey, TRUE, "Off", FALSE, NoKey, 0),
   Args(admin, NoKey, FALSE, "AllowOnly", FALSE, NoKey, 0),
   Args(admin, sss, FALSE, "BypassForPdas", FALSE, kyc, 1),
   Args(admin, NoKey, FALSE, "Off", TRUE, NoKey, 0)}

\* At most MaxRecords registry entries and attestations at a time, of one
\* wallet, which expire never or at 1; permissionless thaw and freeze are
\* enabled together, and for good once an account exists.
Small ==
  LET entries(list) == {x \in Issuers \X Wallets : world[list][x[1]][x[2]] # "absent"}
      attested      == {x \in SasConfigs \X Wallets : world.attestation[x[1]][x[2]].exists}
      all           == <<entries("blacklist"), entries("allowlist"), attested>>
  IN  /\ Cardinality(all[1]) + Cardinality(all[2]) + Cardinality(all[3]) <= MaxRecords
      /\ Cardinality({x[2] : x \in all[1] \cup all[2] \cup all[3]}) <= 1
      /\ \A c \in SasConfigs, w \in Wallets : world.attestation[c][w].expiry <= 1
      /\ enabled.thaw = enabled.freeze
      /\ (\E a \in Accounts : tokens[a].state # "none") => enabled.thaw

\* A decision reads its owner's records only.
OwnersRecords ==
  \A w \in Wallets :
    (\A a \in Accounts : tokens[a].owner # w) =>
      /\ \A i \in Issuers : world.blacklist[i][w] = "absent" /\ world.allowlist[i][w] = "absent"
      /\ \A c \in SasConfigs : ~world.attestation[c][w].exists

\* The registry a policy leaves behind, or the one it moves to, is empty; the
\* policy is written at time 1 or later, so that an expiry of 1 is met at its
\* second and after it.
OneRegistry ==
  /\ Cardinality({i \in Issuers : \E w \in Wallets :
       world.blacklist[i][w] # "absent" \/ world.allowlist[i][w] # "absent"}) <= 1
  /\ policy.version # 0 => now >= 1
=============================================================================
