------------------------ MODULE TokenAclGate_proofs ------------------------
(* Theorems about the gated mint, for any number of wallets, accounts,      *)
(* issuers and policies.                                                    *)
EXTENDS TokenAclGate, GateDecision_proofs

\* Evaluating the arguments of init_policy and update_policy gives a policy.
LEMMA ApplyType ==
  ASSUME NEW args \in PolicyArgs, GateConstants
  PROVE  Apply(args) \in Policies
<1>1. args \in [authority: Keys \cup {NoKey}, issuer_program: Issuers \cup {NoKey},
                check_blacklist: BOOLEAN, allowlist_mode: AllowlistModes,
                require_sas: BOOLEAN, sas: SasConfigs \cup {NoKey},
                min_kyc_level: Levels \cup {0}]
  BY DEF GateConstants
<1> QED BY <1>1 DEF Apply, Policies

\* Every step of the mint, and the variables no handler of it touches, keep
\* their types.
THEOREM TypeCorrect == Spec => []TypeOK
<1>1. Init => TypeOK
  <2> SUFFICES ASSUME Init PROVE TypeOK
    OBVIOUS
  <2> USE GateConstants
  <2>1. policy \in Policies
    BY DEF Init, NoPolicy, Policies, AllowlistModes
  <2>2. world \in [blacklist: [Issuers -> [Wallets -> Cells]],
                   allowlist: [Issuers -> [Wallets -> Cells]],
                   attestation: [SasConfigs -> [Wallets -> Attestations]]]
    <3>1. NoAttestation \in Attestations
      BY DEF NoAttestation, Attestations, Times, NoData
    <3> QED BY <3>1 DEF Init, Cells
  <2>3. tokens \in [Accounts -> TokenAccounts]
    BY DEF Init, TokenAccounts
  <2>4. now \in Times
    BY DEF Init, Times
  <2> QED BY <2>1, <2>2, <2>3, <2>4 DEF Init, TypeOK
<1>2. TypeOK /\ [Next]_vars => TypeOK'
  <2> SUFFICES ASSUME TypeOK, [Next]_vars PROVE TypeOK'
    OBVIOUS
  <2> USE GateConstants
  <2>1. ASSUME NEW k \in Keys, NEW args \in PolicyArgs, InitPolicy(k, args) PROVE TypeOK'
    BY <2>1, ApplyType DEF InitPolicy, WriteBoth, TypeOK
  <2>2. ASSUME NEW k \in Keys, NEW args \in PolicyArgs, UpdatePolicy(k, args) PROVE TypeOK'
    BY <2>2, ApplyType DEF UpdatePolicy, WriteBoth, TypeOK
  <2>3. ASSUME NEW k \in Keys, SetupExtraMetas(k) PROVE TypeOK'
    BY <2>3 DEF SetupExtraMetas, WriteBoth, TypeOK
  <2>4. ASSUME NEW a \in Accounts, NEW without_extras \in BOOLEAN,
               ThawPermissionless(a, without_extras)
        PROVE  TypeOK'
    BY <2>4 DEF ThawPermissionless, TypeOK, TokenAccounts
  <2>5. ASSUME NEW a \in Accounts, NEW without_extras \in BOOLEAN,
               FreezePermissionless(a, without_extras)
        PROVE  TypeOK'
    BY <2>5 DEF FreezePermissionless, TypeOK, TokenAccounts
  <2>6. ASSUME NEW a \in Accounts, NEW s \in {"frozen", "initialized"}, Permissioned(a, s)
        PROVE  TypeOK'
    BY <2>6 DEF Permissioned, TypeOK, TokenAccounts
  <2>7. ASSUME NEW thaw \in BOOLEAN, NEW freeze \in BOOLEAN, TogglePermissionless(thaw, freeze)
        PROVE  TypeOK'
    BY <2>7 DEF TogglePermissionless, TypeOK
  <2>8. ASSUME NEW i \in Issuers, NEW w \in Wallets, NEW cell \in Cells,
               NEW list \in {"blacklist", "allowlist"}, SetRegistry(list, i, w, cell)
        PROVE  TypeOK'
    <3>1. world' \in [blacklist: [Issuers -> [Wallets -> Cells]],
                      allowlist: [Issuers -> [Wallets -> Cells]],
                      attestation: [SasConfigs -> [Wallets -> Attestations]]]
      <4>1. CASE list = "blacklist"
        BY <2>8, <4>1 DEF SetRegistry, TypeOK
      <4>2. CASE list = "allowlist"
        BY <2>8, <4>2 DEF SetRegistry, TypeOK
      <4> QED BY <4>1, <4>2
    <3> QED BY <2>8, <3>1 DEF SetRegistry, TypeOK
  <2>9. ASSUME NEW a \in Accounts, NEW immutable_owner \in BOOLEAN,
               CreateAccount(a, immutable_owner)
        PROVE  TypeOK'
    BY <2>9 DEF CreateAccount, TypeOK, TokenAccounts
  <2>10. ASSUME NEW a \in Accounts, NEW w \in Wallets, SetOwner(a, w) PROVE TypeOK'
    BY <2>10 DEF SetOwner, TypeOK, TokenAccounts
  <2>11. ASSUME NEW c \in SasConfigs, NEW w \in Wallets, NEW expiry \in Times,
                NEW level \in Levels \cup {NoData}, CreateAttestation(c, w, expiry, level)
         PROVE  TypeOK'
    <3>1. [exists |-> TRUE, expiry |-> expiry, level |-> level] \in Attestations
      BY DEF Attestations, Times
    <3>2. world' \in [blacklist: [Issuers -> [Wallets -> Cells]],
                      allowlist: [Issuers -> [Wallets -> Cells]],
                      attestation: [SasConfigs -> [Wallets -> Attestations]]]
      BY <2>11, <3>1 DEF CreateAttestation, TypeOK
    <3> QED BY <2>11, <3>2 DEF CreateAttestation, TypeOK
  <2>12. ASSUME NEW c \in SasConfigs, NEW w \in Wallets, CloseAttestation(c, w) PROVE TypeOK'
    <3>1. NoAttestation \in Attestations
      BY DEF NoAttestation, Attestations, Times, NoData
    <3>2. world' \in [blacklist: [Issuers -> [Wallets -> Cells]],
                      allowlist: [Issuers -> [Wallets -> Cells]],
                      attestation: [SasConfigs -> [Wallets -> Attestations]]]
      BY <2>12, <3>1 DEF CloseAttestation, TypeOK
    <3> QED BY <2>12, <3>2 DEF CloseAttestation, TypeOK
  <2>13. CASE Tick
    BY <2>13 DEF Tick, TypeOK, Times
  <2>14. CASE UNCHANGED vars
    BY <2>14 DEF vars, TypeOK
  <2> QED BY <2>1, <2>2, <2>3, <2>4, <2>5, <2>6, <2>7, <2>8, <2>9, <2>10, <2>11, <2>12,
             <2>13, <2>14 DEF Next, GateNext, IssuerNext, HolderNext
<1> QED BY <1>1, <1>2, PTL DEF Spec

\* update_policy and init_policy rewrite both lists together with the policy,
\* and nothing else writes either.
THEOREM ListsAlwaysMatch == Spec => []ListsMatchPolicy
<1>1. Init => ListsMatchPolicy
  BY DEF Init, NoPolicy, ListsMatchPolicy
<1>2. ListsMatchPolicy /\ [Next]_vars => ListsMatchPolicy'
  <2> SUFFICES ASSUME ListsMatchPolicy, [Next]_vars PROVE ListsMatchPolicy'
    OBVIOUS
  <2>1. ASSUME NEW k \in Keys, NEW args \in PolicyArgs, InitPolicy(k, args) \/ UpdatePolicy(k, args)
        PROVE  ListsMatchPolicy'
    <3>1. policy' = Apply(args) /\ ValidArgs(args) /\ WriteBoth(policy')
      BY <2>1 DEF InitPolicy, UpdatePolicy
    <3>2. ValidArgs(policy')
      BY <3>1 DEF Apply, ValidArgs
    <3> QED BY <3>1, <3>2 DEF ListsMatchPolicy, WriteBoth
  <2>2. ASSUME NEW k \in Keys, SetupExtraMetas(k) PROVE ListsMatchPolicy'
    BY <2>2 DEF SetupExtraMetas, WriteBoth, ListsMatchPolicy
  <2>3. CASE UNCHANGED <<policy, metas>>
    BY <2>3 DEF ListsMatchPolicy
  <2>4. ASSUME NEW a \in Accounts, NEW without_extras \in BOOLEAN,
               ThawPermissionless(a, without_extras) \/ FreezePermissionless(a, without_extras)
        PROVE  UNCHANGED <<policy, metas>>
    BY <2>4 DEF ThawPermissionless, FreezePermissionless
  <2>5. ASSUME IssuerNext PROVE UNCHANGED <<policy, metas>>
    BY <2>5 DEF IssuerNext, Permissioned, TogglePermissionless, SetRegistry
  <2>6. ASSUME HolderNext PROVE UNCHANGED <<policy, metas>>
    BY <2>6 DEF HolderNext, CreateAccount, SetOwner, CreateAttestation, CloseAttestation, Tick
  <2> QED BY <2>1, <2>2, <2>3, <2>4, <2>5, <2>6 DEF Next, GateNext, vars
<1> QED BY <1>1, <1>2, PTL DEF Spec

-----------------------------------------------------------------------------
(* The decision.                                                           *)

\* The stored policy is one the lemmas on lists speak of.
LEMMA PolicyShape ==
  ASSUME TypeOK
  PROVE  IsPolicy(policy) /\ policy.version \in {0, 1}
BY DEF TypeOK, Policies, IsPolicy

\* What the handler reads about a wallet, in place of the accounts it reads it
\* from.
BlacklistFact(w) ==
  IF ~policy.check_blacklist THEN "NotConsulted"
  ELSE LET cell == world.blacklist[policy.issuer_program][w]
       IN  IF cell = "absent" THEN "None" ELSE IF cell = "foreign" THEN "Bad"
           ELSE IF cell = "active" THEN "Active" ELSE "Inactive"

AllowlistFact(w) ==
  IF policy.allowlist_mode = "Off" THEN "NotConsulted"
  ELSE LET cell == world.allowlist[policy.issuer_program][w]
       IN  IF cell = "absent" THEN "None" ELSE IF cell = "foreign" THEN "Bad"
           ELSE IF cell = "active" THEN "Active" ELSE "Inactive"

SasFact(w) ==
  IF ~policy.require_sas THEN "NotRequired"
  ELSE IF StandsInForCredential(policy, w) THEN "Bypassed"
  ELSE ReadAttestation([credential |-> policy.sas,
                        account |-> world.attestation[policy.sas][w]], policy, now)

Decided(op, w, immutable_owner) ==
  IF BlacklistFact(w) = "Bad" \/ AllowlistFact(w) = "Bad" THEN Deny("BadRegistryEntry")
  ELSE IF SasFact(w) = "Bad" THEN Deny("BadCredential")
  ELSE Evaluate(op, [immutable_owner |-> op = "Thaw" => immutable_owner,
                     blacklist |-> BlacklistFact(w), allowlist |-> AllowlistFact(w),
                     allowlist_mode |-> policy.allowlist_mode, sas |-> SasFact(w)])

\* The index plumbing drops out: with the lists write_both wrote, decide()
\* reads the accounts the policy names, for any owner and either kind of
\* token account.
LEMMA DecideReadsPolicy ==
  ASSUME TypeOK, NEW op \in Ops, NEW w \in Wallets, NEW immutable_owner \in BOOLEAN,
         policy.version # 0
  PROVE  Decide(op, policy, ExtraMetas(policy), world, w, w \in Pdas, immutable_owner, now)
           = Decided(op, w, immutable_owner)
<1> DEFINE list == ExtraMetas(policy)
           layout == Layout(policy)
<1>1. IsPolicy(policy)
  BY PolicyShape
<1>4. layout.blacklist # None <=> policy.check_blacklist
  BY <1>1, LayoutValues DEF None, IsPolicy
<1>5. layout.allowlist # None <=> policy.allowlist_mode # "Off"
  BY <1>1, LayoutValues DEF None, IsPolicy
<1>6. /\ layout.sas # None <=> policy.require_sas
      /\ layout.attestation # None <=> policy.require_sas
  BY <1>1, LayoutValues DEF None, IsPolicy, Registry
<1>7. layout.issuer # None <=> Registry(policy)
  BY <1>1, LayoutValues DEF None, IsPolicy, Registry
<1>8. policy.check_blacklist =>
        ReadEntry(ResolveEntry(list, layout.blacklist, world, w), "blacklist", policy.issuer_program)
          = BlacklistFact(w)
  <2> SUFFICES ASSUME policy.check_blacklist
               PROVE  ReadEntry(ResolveEntry(list, layout.blacklist, world, w), "blacklist",
                                policy.issuer_program) = BlacklistFact(w)
    OBVIOUS
  <2>1. MetaAt(list, layout.blacklist) = Meta("blacklist", NoKey, layout.issuer)
    BY <1>1, <1>4, ListMatchesLayout
  <2>2. MetaAt(list, layout.issuer) = Meta("program", policy.issuer_program, None)
    BY <1>1, <1>7, ListMatchesLayout DEF Registry
  <2>3. ResolveEntry(list, layout.blacklist, world, w)
          = [kind |-> "blacklist", program |-> policy.issuer_program,
             cell |-> world.blacklist[policy.issuer_program][w]]
    BY <2>1, <2>2 DEF ResolveEntry, Meta
  <2> QED BY <2>3 DEF ReadEntry, BlacklistFact
<1>9. policy.allowlist_mode # "Off" =>
        ReadEntry(ResolveEntry(list, layout.allowlist, world, w), "allowlist", policy.issuer_program)
          = AllowlistFact(w)
  <2> SUFFICES ASSUME policy.allowlist_mode # "Off"
               PROVE  ReadEntry(ResolveEntry(list, layout.allowlist, world, w), "allowlist",
                                policy.issuer_program) = AllowlistFact(w)
    OBVIOUS
  <2>1. MetaAt(list, layout.allowlist) = Meta("allowlist", NoKey, layout.issuer)
    BY <1>1, <1>5, ListMatchesLayout
  <2>2. MetaAt(list, layout.issuer) = Meta("program", policy.issuer_program, None)
    BY <1>1, <1>7, ListMatchesLayout DEF Registry
  <2>3. ResolveEntry(list, layout.allowlist, world, w)
          = [kind |-> "allowlist", program |-> policy.issuer_program,
             cell |-> world.allowlist[policy.issuer_program][w]]
    BY <2>1, <2>2 DEF ResolveEntry, Meta
  <2> QED BY <2>3 DEF ReadEntry, AllowlistFact
<1>10. policy.require_sas =>
         ResolveAttestation(list, layout.attestation, world, w)
           = [credential |-> policy.sas, account |-> world.attestation[policy.sas][w]]
  <2> SUFFICES ASSUME policy.require_sas
               PROVE  ResolveAttestation(list, layout.attestation, world, w)
                        = [credential |-> policy.sas, account |-> world.attestation[policy.sas][w]]
    OBVIOUS
  <2>1. /\ MetaAt(list, layout.sas + 1) = Meta("credential", policy.sas, None)
        /\ MetaAt(list, layout.attestation) = Meta("attestation", NoKey, layout.sas)
    BY <1>1, <1>6, ListMatchesLayout
  <2> QED BY <2>1 DEF ResolveAttestation, Meta
<1>11. policy.allowlist_mode # "Off" =>
         (AllowlistFact(w) = "Active" <=> world.allowlist[policy.issuer_program][w] = "active")
  BY DEF AllowlistFact
<1>12. /\ ~(Len(list) < POLICY_INDEX - EXTRA_METAS_INDEX)
       /\ ~(EXTRA_METAS_INDEX + 1 + Len(list) < layout.len)
  <2>1. /\ EXTRA_METAS_INDEX + 1 + Len(list) = layout.len
        /\ Len(list) >= POLICY_INDEX - EXTRA_METAS_INDEX
    BY <1>1, ListMatchesLayout
  <2>2. layout.len \in Nat
    BY <1>1, LayoutValues
  <2>3. Len(list) \in Nat
    BY <1>1, ListMatchesLayout
  <2> QED BY <2>1, <2>2, <2>3 DEF POLICY_INDEX, EXTRA_METAS_INDEX
<1> DEFINE blacklist == IF layout.blacklist = None THEN "NotConsulted"
                        ELSE ReadEntry(ResolveEntry(list, layout.blacklist, world, w),
                                       "blacklist", policy.issuer_program)
           allowlist == IF layout.allowlist = None THEN "NotConsulted"
                        ELSE ReadEntry(ResolveEntry(list, layout.allowlist, world, w),
                                       "allowlist", policy.issuer_program)
           sas == IF layout.attestation = None THEN "NotRequired"
                  ELSE IF /\ policy.allowlist_mode = "BypassForPdas"
                          /\ allowlist = "Active"
                          /\ w \in Pdas
                  THEN "Bypassed"
                  ELSE ReadAttestation(ResolveAttestation(list, layout.attestation, world, w),
                                       policy, now)
<1>14. blacklist = BlacklistFact(w) /\ allowlist = AllowlistFact(w)
  BY <1>4, <1>5, <1>8, <1>9 DEF BlacklistFact, AllowlistFact
<1>15. sas = SasFact(w)
  BY <1>6, <1>10, <1>11, <1>14 DEF SasFact, StandsInForCredential
<1>16. Decide(op, policy, list, world, w, w \in Pdas, immutable_owner, now)
         = IF blacklist = "Bad" \/ allowlist = "Bad" THEN Deny("BadRegistryEntry")
           ELSE IF sas = "Bad" THEN Deny("BadCredential")
           ELSE Evaluate(op, [immutable_owner |-> op = "Thaw" => immutable_owner,
                              blacklist |-> blacklist, allowlist |-> allowlist,
                              allowlist_mode |-> policy.allowlist_mode, sas |-> sas])
  BY <1>12 DEF Decide
<1> HIDE DEF blacklist, allowlist, sas, list, layout
<1>17. Decide(op, policy, list, world, w, w \in Pdas, immutable_owner, now)
         = Decided(op, w, immutable_owner)
  BY <1>14, <1>15, <1>16 DEF Decided
<1> QED BY <1>17 DEF list

\* What the gate says of an account, with the extra accounts supplied.
LEMMA CanGateIsDecided ==
  ASSUME TypeOK, ListsMatchPolicy, policy.version # 0, NEW op \in Ops, NEW a \in Accounts
  PROVE  CanGate(op, a, FALSE) = Decided(op, tokens[a].owner, tokens[a].immutable_owner)
<1>1. tokens[a].owner \in Wallets /\ tokens[a].immutable_owner \in BOOLEAN
  BY DEF TypeOK, TokenAccounts
<1>2. CanGate(op, a, FALSE)
        = Decide(op, policy, ExtraMetas(policy), world, tokens[a].owner,
                 tokens[a].owner \in Pdas, tokens[a].immutable_owner, now)
  BY DEF ListsMatchPolicy, CanGate, Ops
<1> QED BY <1>1, <1>2, DecideReadsPolicy

\* The constants that take part in arithmetic are numbers.
LEMMA GateNumbers == Levels \subseteq Nat /\ MaxTime \in Nat
BY GateConstants DEF GateConstants

\* The types of the cells a typed policy leads to.
LEMMA ReadTypes ==
  ASSUME TypeOK, ValidArgs(policy), NEW w \in Wallets
  PROVE  /\ policy.check_blacklist => world.blacklist[policy.issuer_program][w] \in Cells
         /\ policy.allowlist_mode # "Off" => world.allowlist[policy.issuer_program][w] \in Cells
         /\ policy.require_sas => world.attestation[policy.sas][w] \in Attestations
         /\ policy.min_kyc_level \in Nat
         /\ now \in Nat
<1>1. /\ policy.check_blacklist \/ policy.allowlist_mode # "Off" => policy.issuer_program \in Issuers
      /\ policy.require_sas => policy.sas \in SasConfigs
  BY DEF TypeOK, Policies, ValidArgs
<1>2. /\ policy.check_blacklist => world.blacklist[policy.issuer_program][w] \in Cells
      /\ policy.allowlist_mode # "Off" => world.allowlist[policy.issuer_program][w] \in Cells
      /\ policy.require_sas => world.attestation[policy.sas][w] \in Attestations
  BY <1>1 DEF TypeOK
<1>3. policy.min_kyc_level \in Nat
  <2>1. policy.min_kyc_level \in Levels \cup {0}
    BY DEF TypeOK, Policies
  <2>2. CASE policy.min_kyc_level \in Levels
    BY <2>2, GateNumbers
  <2>3. CASE policy.min_kyc_level = 0
    BY <2>3
  <2> QED BY <2>1, <2>2, <2>3
<1>4. now \in Nat
  BY GateConstants DEF TypeOK, Times, GateConstants
<1> QED BY <1>2, <1>3, <1>4

\* The credential the handler reads is live exactly when the policy says so.
LEMMA SasFactMeaning ==
  ASSUME TypeOK, ValidArgs(policy), NEW w \in Wallets, policy.require_sas,
         ~StandsInForCredential(policy, w)
  PROVE  LET att == world.attestation[policy.sas][w]
         IN  /\ SasFact(w) \in {"Missing", "Bad", "Expired", "LevelTooLow", "Valid"}
             /\ SasFact(w) = "Valid" => CredentialLive(policy, w)
             /\ CredentialLive(policy, w) => SasFact(w) = "Valid"
             /\ SasFact(w) = "Bad" <=> /\ att.exists
                                       /\ att.expiry = 0 \/ now <= att.expiry
                                       /\ policy.min_kyc_level > 0 /\ att.level = NoData
<1> DEFINE att == world.attestation[policy.sas][w]
<1>1. /\ att.exists \in BOOLEAN
      /\ att.expiry \in Nat
      /\ att.level \in Int
      /\ att.level = NoData \/ att.level \in Nat
      /\ policy.min_kyc_level \in Nat
      /\ now \in Nat
  <2>1. att \in Attestations /\ policy.min_kyc_level \in Nat /\ now \in Nat
    BY ReadTypes
  <2> HIDE DEF att
  <2>2. att.exists \in BOOLEAN /\ att.expiry \in Nat /\ att.level \in Levels \cup {NoData}
    BY <2>1 DEF Attestations
  <2>3. CASE att.level \in Levels
    <3>1. att.level \in Nat
      BY <2>3, GateNumbers
    <3> QED BY <2>1, <2>2, <3>1
  <2>4. CASE att.level = NoData
    BY <2>1, <2>2, <2>4 DEF NoData
  <2> QED BY <2>2, <2>3, <2>4
<1>2. SasFact(w) = IF ~att.exists THEN "Missing"
                   ELSE IF att.expiry # 0 /\ att.expiry < now THEN "Expired"
                   ELSE IF policy.min_kyc_level > 0 /\ att.level = NoData THEN "Bad"
                   ELSE IF policy.min_kyc_level > 0 /\ att.level < policy.min_kyc_level
                     THEN "LevelTooLow"
                   ELSE "Valid"
  BY DEF SasFact, ReadAttestation, IsExpired
<1>3. CredentialLive(policy, w) <=> /\ att.exists
                                    /\ att.expiry = 0 \/ now <= att.expiry
                                    /\ policy.min_kyc_level > 0 => att.level >= policy.min_kyc_level
  BY DEF CredentialLive
<1> HIDE DEF att
<1>4. /\ SasFact(w) \in {"Missing", "Bad", "Expired", "LevelTooLow", "Valid"}
      /\ SasFact(w) = "Valid" => CredentialLive(policy, w)
      /\ CredentialLive(policy, w) => SasFact(w) = "Valid"
      /\ SasFact(w) = "Bad" <=> /\ att.exists
                                /\ att.expiry = 0 \/ now <= att.expiry
                                /\ policy.min_kyc_level > 0 /\ att.level = NoData
  BY <1>1, <1>2, <1>3 DEF NoData
<1> QED BY <1>4 DEF att

\* The decision table against the policy's own words.
LEMMA DecidedMeaning ==
  ASSUME TypeOK, ValidArgs(policy), NEW w \in Wallets, NEW immutable_owner \in BOOLEAN
  PROVE  /\ Decided("Thaw", w, immutable_owner).allow
              <=> immutable_owner /\ Readable(policy, w) /\ Complies(policy, w)
         /\ Decided("Freeze", w, immutable_owner).allow
              <=> Readable(policy, w) /\ ~Complies(policy, w)
<1> DEFINE facts(op) == [immutable_owner |-> op = "Thaw" => immutable_owner,
                         blacklist |-> BlacklistFact(w), allowlist |-> AllowlistFact(w),
                         allowlist_mode |-> policy.allowlist_mode, sas |-> SasFact(w)]
           flagged == \/ BlacklistFact(w) = "Active"
                      \/ policy.allowlist_mode = "AllowOnly" /\ AllowlistFact(w) # "Active"
                      \/ SasFact(w) \in {"Missing", "Expired", "LevelTooLow"}
           bad == \/ BlacklistFact(w) = "Bad" \/ AllowlistFact(w) = "Bad"
                  \/ SasFact(w) = "Bad"
<1>1. \A op : Flag(facts(op)) = NoFlag <=> ~flagged
  BY DEF Flag, NoFlag
<1>2. Evaluate("Thaw", facts("Thaw")).allow <=> immutable_owner /\ ~flagged
  BY <1>1 DEF Evaluate, Allow, Deny
<1>3. Evaluate("Freeze", facts("Freeze")).allow <=> flagged
  BY <1>1 DEF Evaluate, Allow, Deny
<1>4. \A op : Decided(op, w, immutable_owner)
                = IF BlacklistFact(w) = "Bad" \/ AllowlistFact(w) = "Bad"
                    THEN Deny("BadRegistryEntry")
                  ELSE IF SasFact(w) = "Bad" THEN Deny("BadCredential")
                  ELSE Evaluate(op, facts(op))
  BY DEF Decided
<1>5. /\ Decided("Thaw", w, immutable_owner).allow <=> ~bad /\ immutable_owner /\ ~flagged
      /\ Decided("Freeze", w, immutable_owner).allow <=> ~bad /\ flagged
  <2> HIDE DEF facts, flagged
  <2> QED BY <1>2, <1>3, <1>4 DEF Deny
<1>6. bad <=> ~Readable(policy, w)
  <2>1. BlacklistFact(w) = "Bad"
          <=> policy.check_blacklist /\ world.blacklist[policy.issuer_program][w] = "foreign"
    BY DEF BlacklistFact
  <2>2. AllowlistFact(w) = "Bad"
          <=> policy.allowlist_mode # "Off" /\ world.allowlist[policy.issuer_program][w] = "foreign"
    BY DEF AllowlistFact
  <2>3. SasFact(w) = "Bad" <=>
          /\ policy.require_sas /\ ~StandsInForCredential(policy, w)
          /\ LET att == world.attestation[policy.sas][w]
             IN  /\ att.exists
                 /\ att.expiry = 0 \/ now <= att.expiry
                 /\ policy.min_kyc_level > 0 /\ att.level = NoData
    <3>1. CASE policy.require_sas /\ ~StandsInForCredential(policy, w)
      BY <3>1, SasFactMeaning
    <3>2. CASE ~(policy.require_sas /\ ~StandsInForCredential(policy, w))
      BY <3>2 DEF SasFact
    <3> QED BY <3>1, <3>2
  <2> QED BY <2>1, <2>2, <2>3 DEF Readable
<1>7. ~bad => (flagged <=> ~Complies(policy, w))
  <2>1. BlacklistFact(w) = "Active"
          <=> policy.check_blacklist /\ world.blacklist[policy.issuer_program][w] = "active"
    BY DEF BlacklistFact
  <2>2. policy.allowlist_mode = "AllowOnly" =>
          (AllowlistFact(w) = "Active" <=> world.allowlist[policy.issuer_program][w] = "active")
    BY DEF AllowlistFact
  <2>3. SasFact(w) # "Bad" =>
          (SasFact(w) \in {"Missing", "Expired", "LevelTooLow"}
             <=> /\ policy.require_sas
                 /\ ~StandsInForCredential(policy, w) /\ ~CredentialLive(policy, w))
    <3>1. CASE policy.require_sas /\ ~StandsInForCredential(policy, w)
      BY <3>1, SasFactMeaning
    <3>2. CASE ~(policy.require_sas /\ ~StandsInForCredential(policy, w))
      BY <3>2 DEF SasFact
    <3> QED BY <3>1, <3>2
  <2> QED BY <2>1, <2>2, <2>3 DEF Complies
<1> HIDE DEF bad, flagged
<1> QED BY <1>5, <1>6, <1>7

\* The gate decides its policy, in every reachable state and for every
\* account.
THEOREM GateAlwaysDecidesPolicy == Spec => []GateDecidesPolicy
<1>1. TypeOK /\ ListsMatchPolicy => GateDecidesPolicy
  <2> SUFFICES ASSUME TypeOK, ListsMatchPolicy, policy.version # 0, NEW a \in Accounts
               PROVE  /\ CanGate("Thaw", a, FALSE).allow
                            <=> tokens[a].immutable_owner /\ Verdict(a) = "clear"
                      /\ CanGate("Freeze", a, FALSE).allow <=> Verdict(a) = "flagged"
    BY DEF GateDecidesPolicy
  <2>1. tokens[a].owner \in Wallets /\ tokens[a].immutable_owner \in BOOLEAN
    BY DEF TypeOK, TokenAccounts
  <2>2. ValidArgs(policy)
    BY DEF ListsMatchPolicy
  <2>3. /\ CanGate("Thaw", a, FALSE) = Decided("Thaw", tokens[a].owner, tokens[a].immutable_owner)
        /\ CanGate("Freeze", a, FALSE) = Decided("Freeze", tokens[a].owner, tokens[a].immutable_owner)
    BY CanGateIsDecided DEF Ops
  <2> QED BY <2>1, <2>2, <2>3, DecidedMeaning DEF Verdict
<1> QED BY <1>1, TypeCorrect, ListsAlwaysMatch, PTL

-----------------------------------------------------------------------------
(* Ownership and the promise.                                              *)

\* Whatever list the caller's account resolves to, the gate thaws no account
\* without ImmutableOwner.
LEMMA ThawNeedsImmutableOwner ==
  ASSUME NEW a \in Accounts, NEW without_extras \in BOOLEAN,
         tokens[a].immutable_owner \in BOOLEAN, CanGate("Thaw", a, without_extras).allow
  PROVE  tokens[a].immutable_owner
<1> DEFINE facts(bl, al, sas) ==
             [immutable_owner |-> "Thaw" = "Thaw" => tokens[a].immutable_owner,
              blacklist |-> bl, allowlist |-> al,
              allowlist_mode |-> policy.allowlist_mode, sas |-> sas]
           decision(list) == Decide("Thaw", policy, list, world, tokens[a].owner,
                                    tokens[a].owner \in Pdas, tokens[a].immutable_owner, now)
<1>1. ASSUME NEW list
      PROVE  \/ \E code : decision(list) = Deny(code)
             \/ \E bl, al, sas : decision(list) = Evaluate("Thaw", facts(bl, al, sas))
  BY DEF Decide
<1>2. ASSUME NEW bl, NEW al, NEW sas, Evaluate("Thaw", facts(bl, al, sas)).allow
      PROVE  tokens[a].immutable_owner
  BY <1>2 DEF Evaluate, Deny
<1>3. \A code : ~Deny(code).allow
  BY DEF Deny
<1>4. \E list : CanGate("Thaw", a, without_extras) = decision(list)
  BY DEF CanGate
<1> HIDE DEF facts, decision
<1> QED BY <1>1, <1>2, <1>3, <1>4

\* The strengthening: a thaw by the gate left an account nobody can reassign.
GateThawedIsImmutable ==
  \A a \in Accounts :
    tokens[a].state = "initialized" /\ by[a] = "gate" => tokens[a].immutable_owner

\* The strengthening behind GateThawedOwnerStays: what the gate thawed has
\* ImmutableOwner.
LEMMA GateThawedStaysImmutable == Spec => []GateThawedIsImmutable
<1>1. Init => GateThawedIsImmutable
  BY DEF Init, GateThawedIsImmutable
<1>2. TypeOK /\ GateThawedIsImmutable /\ [Next]_vars => GateThawedIsImmutable'
  <2> SUFFICES ASSUME TypeOK, GateThawedIsImmutable, [Next]_vars PROVE GateThawedIsImmutable'
    OBVIOUS
  <2>1. CASE UNCHANGED <<tokens, by>>
    BY <2>1 DEF GateThawedIsImmutable
  <2>2. ASSUME NEW a \in Accounts, NEW without_extras \in BOOLEAN,
               ThawPermissionless(a, without_extras)
        PROVE  GateThawedIsImmutable'
    <3>1. tokens[a].immutable_owner
      BY <2>2, ThawNeedsImmutableOwner DEF ThawPermissionless, TypeOK, TokenAccounts
    <3> QED BY <2>2, <3>1 DEF ThawPermissionless, GateThawedIsImmutable, TypeOK, TokenAccounts
  <2>3. ASSUME NEW a \in Accounts, NEW without_extras \in BOOLEAN,
               FreezePermissionless(a, without_extras)
        PROVE  GateThawedIsImmutable'
    BY <2>3 DEF FreezePermissionless, GateThawedIsImmutable, TypeOK, TokenAccounts
  <2>4. ASSUME NEW a \in Accounts, NEW s \in {"frozen", "initialized"}, Permissioned(a, s)
        PROVE  GateThawedIsImmutable'
    BY <2>4 DEF Permissioned, GateThawedIsImmutable, TypeOK, TokenAccounts
  <2>5. ASSUME NEW a \in Accounts, NEW immutable_owner \in BOOLEAN,
               CreateAccount(a, immutable_owner)
        PROVE  GateThawedIsImmutable'
    BY <2>5 DEF CreateAccount, GateThawedIsImmutable, TypeOK, TokenAccounts
  <2>6. ASSUME NEW a \in Accounts, NEW w \in Wallets, SetOwner(a, w)
        PROVE  GateThawedIsImmutable'
    BY <2>6 DEF SetOwner, GateThawedIsImmutable, TypeOK, TokenAccounts
  <2> QED BY <2>1, <2>2, <2>3, <2>4, <2>5, <2>6
          DEF Next, GateNext, IssuerNext, HolderNext, InitPolicy, UpdatePolicy, SetupExtraMetas,
              TogglePermissionless, SetRegistry, CreateAttestation, CloseAttestation, Tick, vars
<1> QED BY <1>1, <1>2, TypeCorrect, PTL DEF Spec

\* The owner of an account changes in SetOwner alone, which such an account
\* refuses.
THEOREM GateThawedOwnerStays == Spec => GateThawedKeepsOwner
<1> DEFINE Keeps == \A a \in Accounts :
                      tokens[a].state = "initialized" /\ by[a] = "gate" =>
                        tokens'[a].owner = tokens[a].owner
<1>1. TypeOK /\ GateThawedIsImmutable /\ [Next]_vars => [Keeps]_vars
  <2> SUFFICES ASSUME TypeOK, GateThawedIsImmutable, Next PROVE Keeps
    OBVIOUS
  <2>1. CASE tokens' = tokens
    BY <2>1
  <2>2. ASSUME NEW a \in Accounts, NEW w \in Wallets, SetOwner(a, w) PROVE Keeps
    BY <2>2 DEF SetOwner, GateThawedIsImmutable, TypeOK
  <2>3. ASSUME NEW a \in Accounts, NEW without_extras \in BOOLEAN,
               ThawPermissionless(a, without_extras) \/ FreezePermissionless(a, without_extras)
        PROVE  Keeps
    BY <2>3 DEF ThawPermissionless, FreezePermissionless, TypeOK, TokenAccounts
  <2>4. ASSUME NEW a \in Accounts, NEW s \in {"frozen", "initialized"}, Permissioned(a, s)
        PROVE  Keeps
    BY <2>4 DEF Permissioned, TypeOK, TokenAccounts
  <2>5. ASSUME NEW a \in Accounts, NEW immutable_owner \in BOOLEAN,
               CreateAccount(a, immutable_owner)
        PROVE  Keeps
    BY <2>5 DEF CreateAccount, TypeOK, TokenAccounts
  <2> QED BY <2>1, <2>2, <2>3, <2>4, <2>5
          DEF Next, GateNext, IssuerNext, HolderNext, InitPolicy, UpdatePolicy, SetupExtraMetas,
              TogglePermissionless, SetRegistry, CreateAttestation, CloseAttestation, Tick
<1> QED BY <1>1, TypeCorrect, GateThawedStaysImmutable, PTL DEF Spec, GateThawedKeepsOwner

\* A permissionless thaw or freeze that passes is the policy's verdict, with or
\* without the extra accounts.
LEMMA PermissionlessIsDecided ==
  ASSUME TypeOK, ListsMatchPolicy, GateDecidesPolicy, NEW op \in Ops, NEW a \in Accounts,
         NEW without_extras \in BOOLEAN, CanGate(op, a, without_extras).allow
  PROVE  Verdict(a) = IF op = "Thaw" THEN "clear" ELSE "flagged"
<1>1. ~without_extras
  BY DEF CanGate, Decide, Deny, POLICY_INDEX, EXTRA_METAS_INDEX
<1>2. policy.version # 0
  <2> SUFFICES ASSUME policy.version = 0 PROVE FALSE
    OBVIOUS
  <2> QED BY DEF CanGate, Decide, Deny
<1> QED BY <1>1, <1>2 DEF GateDecidesPolicy, Ops

\* A verdict looks at the policy, the world, the clock and the owner only.
LEMMA VerdictFrame ==
  ASSUME NEW b \in Accounts, UNCHANGED <<policy, world, now>>,
         tokens'[b].owner = tokens[b].owner
  PROVE  Verdict(b)' = Verdict(b)
<1>1. \A w : CredentialLive(policy, w)' <=> CredentialLive(policy, w)
  BY DEF CredentialLive
<1>2. \A w : StandsInForCredential(policy, w)' <=> StandsInForCredential(policy, w)
  BY DEF StandsInForCredential
<1>3. \A w : Complies(policy, w)' <=> Complies(policy, w)
  BY <1>1, <1>2 DEF Complies
<1>4. \A w : Readable(policy, w)' <=> Readable(policy, w)
  BY <1>2 DEF Readable
<1> QED BY <1>3, <1>4 DEF Verdict

\* A freeze or a thaw moves one status and no owner.
LEMMA SetState ==
  ASSUME TypeOK, NEW a \in Accounts, NEW s, tokens' = [tokens EXCEPT ![a].state = s]
  PROVE  /\ \A b \in Accounts : tokens'[b].owner = tokens[b].owner
         /\ [b \in Accounts |-> tokens[b].state]'
              = [[b \in Accounts |-> tokens[b].state] EXCEPT ![a] = s]
<1>1. \A b \in Accounts : tokens'[b].owner = tokens[b].owner
  BY DEF TypeOK, TokenAccounts
<1>2. \A b \in Accounts : tokens'[b].state = IF b = a THEN s ELSE tokens[b].state
  BY DEF TypeOK, TokenAccounts
<1>3. [b \in Accounts |-> tokens'[b].state]
        = [[b \in Accounts |-> tokens[b].state] EXCEPT ![a] = s]
  BY <1>2
<1> QED BY <1>1, <1>3

\* Every step of the gated mint is a step of the promise.
THEOREM GateKeepsPromise == Spec => KeepsPromise
<1>1. \A a \in Accounts : Verdict(a) \in Promise!Verdicts
  BY DEF Verdict, Promise!Verdicts
<1>2. \A a \in Accounts : Verdict(a)' \in Promise!Verdicts
  BY DEF Verdict, Promise!Verdicts
<1>3. Init => Promise!Init
  BY <1>1 DEF Init, Promise!Init
<1>4. TypeOK /\ ListsMatchPolicy /\ GateDecidesPolicy /\ [Next]_vars => [Promise!Next]_(Promise!vars)
  <2> SUFFICES ASSUME TypeOK, ListsMatchPolicy, GateDecidesPolicy, Next
               PROVE  Promise!Next \/ UNCHANGED Promise!vars
    <3>1. UNCHANGED vars => UNCHANGED Promise!vars
      BY DEF vars, Promise!vars, Verdict, Readable, Complies, CredentialLive, StandsInForCredential
    <3> QED BY <3>1
  <2> DEFINE status == [b \in Accounts |-> tokens[b].state]
  <2>1. CASE by' = by /\ status' = status
    BY <1>2, <2>1 DEF Promise!Next, Promise!WorldMoves
  <2>2. ASSUME NEW a \in Accounts, NEW without_extras \in BOOLEAN,
               ThawPermissionless(a, without_extras)
        PROVE  Promise!GateThaw(a)
    <3>1. Verdict(a) = "clear"
      BY <2>2, PermissionlessIsDecided DEF ThawPermissionless, Ops
    <3>2. \A b \in Accounts : tokens'[b].owner = tokens[b].owner
      BY <2>2, SetState DEF ThawPermissionless
    <3>3. \A b \in Accounts : Verdict(b)' = Verdict(b)
      BY <2>2, <3>2, VerdictFrame DEF ThawPermissionless
    <3>4. status' = [status EXCEPT ![a] = "initialized"]
      BY <2>2, SetState DEF ThawPermissionless
    <3> QED BY <2>2, <3>1, <3>3, <3>4 DEF Promise!GateThaw, ThawPermissionless
  <2>3. ASSUME NEW a \in Accounts, NEW without_extras \in BOOLEAN,
               FreezePermissionless(a, without_extras)
        PROVE  Promise!GateFreeze(a)
    <3>1. Verdict(a) = "flagged"
      BY <2>3, PermissionlessIsDecided DEF FreezePermissionless, Ops
    <3>2. \A b \in Accounts : tokens'[b].owner = tokens[b].owner
      BY <2>3, SetState DEF FreezePermissionless
    <3>3. \A b \in Accounts : Verdict(b)' = Verdict(b)
      BY <2>3, <3>2, VerdictFrame DEF FreezePermissionless
    <3>4. status' = [status EXCEPT ![a] = "frozen"]
      BY <2>3, SetState DEF FreezePermissionless
    <3> QED BY <2>3, <3>1, <3>3, <3>4 DEF Promise!GateFreeze, FreezePermissionless
  <2>4. ASSUME NEW a \in Accounts, NEW s \in {"frozen", "initialized"}, Permissioned(a, s)
        PROVE  Promise!IssuerSets(a, s)
    <3>2. \A b \in Accounts : tokens'[b].owner = tokens[b].owner
      BY <2>4, SetState DEF Permissioned
    <3>3. \A b \in Accounts : Verdict(b)' = Verdict(b)
      BY <2>4, <3>2, VerdictFrame DEF Permissioned
    <3>4. status' = [status EXCEPT ![a] = s]
      BY <2>4, SetState DEF Permissioned
    <3> QED BY <2>4, <3>3, <3>4 DEF Promise!IssuerSets, Permissioned
  <2>5. ASSUME NEW a \in Accounts, NEW immutable_owner \in BOOLEAN,
               CreateAccount(a, immutable_owner)
        PROVE  Promise!Open(a)
    <3>1. status' = [status EXCEPT ![a] = "frozen"]
      BY <2>5 DEF CreateAccount, TypeOK, TokenAccounts
    <3> QED BY <1>2, <2>5, <3>1 DEF Promise!Open, CreateAccount
  <2>6. ASSUME NEW a \in Accounts, NEW w \in Wallets, SetOwner(a, w)
        PROVE  by' = by /\ status' = status
    BY <2>6 DEF SetOwner, TypeOK, TokenAccounts
  <2> QED BY <2>1, <2>2, <2>3, <2>4, <2>5, <2>6
          DEF Next, GateNext, IssuerNext, HolderNext, InitPolicy, UpdatePolicy, SetupExtraMetas,
              TogglePermissionless, SetRegistry, CreateAttestation, CloseAttestation, Tick,
              Promise!Next
<1> QED BY <1>3, <1>4, TypeCorrect, ListsAlwaysMatch, GateAlwaysDecidesPolicy, PTL
        DEF Spec, KeepsPromise, Promise!Spec

-----------------------------------------------------------------------------
(* The keeper's mirror.                                                    *)

\* What freezeReason and ownerVerdict compute, in the handler's facts.
ReasonOf(bl, al, sas) ==
  IF bl = "Bad" \/ al = "Bad" \/ sas = "Bad" THEN NoReason
  ELSE IF bl = "Active" THEN "Blacklisted"
  ELSE IF policy.allowlist_mode = "AllowOnly" /\ al # "Active" THEN "NotAllowlisted"
  ELSE IF sas = "Missing" THEN "NoCredential"
  ELSE IF sas = "Expired" THEN "CredentialExpired"
  ELSE IF sas = "LevelTooLow" THEN "KycLevelTooLow"
  ELSE NoReason

\* The keeper's rule as a function of the facts the gate reads.
LEMMA KeeperComputesReason ==
  ASSUME TypeOK, ListsMatchPolicy, policy.version # 0, NEW a \in Accounts
  PROVE  LET w == tokens[a].owner
         IN  FreezeReason(policy, KeeperReads(a), now)
               = ReasonOf(BlacklistFact(w), AllowlistFact(w), SasFact(w))
<1> DEFINE w == tokens[a].owner
           reads == KeeperReads(a)
           bl == IF policy.check_blacklist THEN reads.blacklist ELSE EntryRead("absent")
           al == IF policy.allowlist_mode # "Off" THEN reads.allowlist ELSE EntryRead("absent")
           bypassed == /\ policy.allowlist_mode = "BypassForPdas"
                       /\ al.cell = "active"
                       /\ reads.off_curve
           credential == IF ~policy.require_sas THEN "notRequired"
                         ELSE IF bypassed THEN "bypassed"
                         ELSE CredentialState(reads.attestation.account, policy.min_kyc_level, now)
<1>0. ValidArgs(policy) /\ w \in Wallets
  BY DEF ListsMatchPolicy, TypeOK, TokenAccounts
<1>1. /\ bl.defined /\ al.defined
      /\ bl.cell = "foreign" <=> BlacklistFact(w) = "Bad"
      /\ bl.cell = "active" <=> BlacklistFact(w) = "Active"
      /\ al.cell = "foreign" <=> AllowlistFact(w) = "Bad"
      /\ al.cell = "active" <=> AllowlistFact(w) = "Active"
  BY DEF KeeperReads, EntryRead, BlacklistFact, AllowlistFact
<1>2. bypassed <=> StandsInForCredential(policy, w)
  BY DEF KeeperReads, EntryRead, StandsInForCredential
<1>3. policy.require_sas => /\ reads.attestation.defined
                            /\ reads.attestation.account = world.attestation[policy.sas][w]
  BY DEF KeeperReads, AttestationRead
<1>4. /\ credential = "bad" <=> SasFact(w) = "Bad"
      /\ credential = "missing" <=> SasFact(w) = "Missing"
      /\ credential = "expired" <=> SasFact(w) = "Expired"
      /\ credential = "levelTooLow" <=> SasFact(w) = "LevelTooLow"
      /\ credential = "valid" <=> SasFact(w) = "Valid"
  BY <1>2, <1>3 DEF SasFact, CredentialState, ReadAttestation, IsExpired
<1>5. FreezeReason(policy, reads, now)
        = IF ~bl.defined \/ ~al.defined THEN NoReason
          ELSE IF bl.cell = "foreign" \/ al.cell = "foreign" THEN NoReason
          ELSE IF policy.require_sas /\ ~bypassed /\ ~reads.attestation.defined THEN NoReason
          ELSE IF credential = "bad" THEN NoReason
          ELSE IF bl.cell = "active" THEN "Blacklisted"
          ELSE IF policy.allowlist_mode = "AllowOnly" /\ al.cell # "active" THEN "NotAllowlisted"
          ELSE CASE credential = "missing"     -> "NoCredential"
                 [] credential = "expired"     -> "CredentialExpired"
                 [] credential = "levelTooLow" -> "KycLevelTooLow"
                 [] OTHER                      -> NoReason
  BY DEF FreezeReason
<1> HIDE DEF bl, al, bypassed, credential, reads, w
<1>6. FreezeReason(policy, reads, now)
        = ReasonOf(BlacklistFact(w), AllowlistFact(w), SasFact(w))
  BY <1>1, <1>3, <1>4, <1>5 DEF ReasonOf
<1> QED BY <1>6 DEF reads, w

\* When the keeper calls an owner compliant, and by which admission.
LEMMA KeeperComputesVerdict ==
  ASSUME TypeOK, ListsMatchPolicy, policy.version # 0, NEW a \in Accounts
  PROVE  LET w == tokens[a].owner
             bl == BlacklistFact(w)
             al == AllowlistFact(w)
             sas == SasFact(w)
             reason == ReasonOf(bl, al, sas)
         IN  OwnerVerdict(policy, KeeperReads(a), TRUE, now)
               = IF reason # NoReason THEN <<"freezable", reason>>
                 ELSE IF bl = "Bad" \/ al = "Bad" \/ sas = "Bad" THEN <<"unknown">>
                 ELSE <<"compliant", AdmittedBy([sas |-> sas, allowlist |-> al])>>
<1> DEFINE w == tokens[a].owner
           reads == KeeperReads(a)
           bl == IF policy.check_blacklist THEN reads.blacklist ELSE EntryRead("absent")
           al == IF policy.allowlist_mode # "Off" THEN reads.allowlist ELSE EntryRead("absent")
           bypassed == /\ policy.allowlist_mode = "BypassForPdas"
                       /\ al.cell = "active"
                       /\ reads.off_curve
           state == CredentialState(reads.attestation.account, policy.min_kyc_level, now)
           reason == ReasonOf(BlacklistFact(w), AllowlistFact(w), SasFact(w))
<1>1. /\ bl.defined /\ al.defined
      /\ bl.cell = "foreign" <=> BlacklistFact(w) = "Bad"
      /\ al.cell = "foreign" <=> AllowlistFact(w) = "Bad"
      /\ al.cell = "active" <=> AllowlistFact(w) = "Active"
  BY DEF KeeperReads, EntryRead, BlacklistFact, AllowlistFact
<1>2. bypassed <=> StandsInForCredential(policy, w)
  BY DEF KeeperReads, EntryRead, StandsInForCredential
<1>3. policy.require_sas => /\ reads.attestation.defined
                            /\ reads.attestation.account = world.attestation[policy.sas][w]
  BY DEF KeeperReads, AttestationRead
<1>4. /\ ~policy.require_sas => SasFact(w) = "NotRequired"
      /\ policy.require_sas /\ bypassed => SasFact(w) = "Bypassed"
      /\ policy.require_sas /\ ~bypassed =>
           /\ SasFact(w) \in {"Missing", "Bad", "Expired", "LevelTooLow", "Valid"}
           /\ state = "valid" <=> SasFact(w) = "Valid"
  BY <1>2, <1>3 DEF SasFact, CredentialState, ReadAttestation, IsExpired
<1>5. FreezeReason(policy, reads, now) = reason
  BY KeeperComputesReason
<1>6. OwnerVerdict(policy, reads, TRUE, now)
        = IF FreezeReason(policy, reads, now) # NoReason
            THEN <<"freezable", FreezeReason(policy, reads, now)>>
          ELSE IF \/ ~bl.defined \/ ~al.defined \/ bl.cell = "foreign" \/ al.cell = "foreign"
            THEN <<"unknown">>
          ELSE IF policy.require_sas
            THEN IF bypassed THEN <<"compliant", "PdaAllowlisted">>
                 ELSE IF ~reads.attestation.defined \/ state # "valid" THEN <<"unknown">>
                 ELSE <<"compliant", "Kyc">>
          ELSE IF al.cell = "active" THEN <<"compliant", "Allowlisted">>
          ELSE <<"compliant", "Clean">>
  BY DEF OwnerVerdict
<1> HIDE DEF bl, al, bypassed, state, reads
<1>7. ASSUME reason = NoReason, BlacklistFact(w) # "Bad", AllowlistFact(w) # "Bad"
      PROVE  SasFact(w) \in {"Bad", "Valid", "NotRequired", "Bypassed"}
  BY <1>4, <1>7 DEF ReasonOf, NoReason
<1> HIDE DEF w
<1>8. OwnerVerdict(policy, reads, TRUE, now)
        = IF reason # NoReason THEN <<"freezable", reason>>
          ELSE IF BlacklistFact(w) = "Bad" \/ AllowlistFact(w) = "Bad" \/ SasFact(w) = "Bad"
            THEN <<"unknown">>
          ELSE <<"compliant", AdmittedBy([sas |-> SasFact(w), allowlist |-> AllowlistFact(w)])>>
  <2> HIDE DEF reason
  <2> QED BY <1>1, <1>3, <1>4, <1>5, <1>6, <1>7 DEF AdmittedBy
<1> QED BY <1>8 DEF reads, w

\* The keeper agrees with the gate in every reachable state, down to the
\* reason and the admission code.
THEOREM KeeperAlwaysAgrees == Spec => []KeeperAgreesWithGate
<1>1. TypeOK /\ ListsMatchPolicy => KeeperAgreesWithGate
  <2> SUFFICES ASSUME TypeOK, ListsMatchPolicy, policy.version # 0, NEW a \in Accounts
               PROVE  LET gate    == CanGate("Freeze", a, FALSE)
                          reads   == KeeperReads(a)
                          reason  == FreezeReason(policy, reads, now)
                          verdict == OwnerVerdict(policy, reads, TRUE, now)
                      IN  /\ gate.allow <=> reason # NoReason
                          /\ gate.allow => reason = gate.code /\ verdict = <<"freezable", gate.code>>
                          /\ verdict[1] = "compliant" <=> gate.code = "Compliant"
                          /\ tokens[a].immutable_owner /\ verdict[1] = "compliant" =>
                               verdict[2] = CanGate("Thaw", a, FALSE).code
    BY DEF KeeperAgreesWithGate
  <2> DEFINE w == tokens[a].owner
             io == tokens[a].immutable_owner
             bl == BlacklistFact(w)
             al == AllowlistFact(w)
             sas == SasFact(w)
             gate == CanGate("Freeze", a, FALSE)
             thaw == CanGate("Thaw", a, FALSE)
             reason == FreezeReason(policy, KeeperReads(a), now)
             verdict == OwnerVerdict(policy, KeeperReads(a), TRUE, now)
             bad == bl = "Bad" \/ al = "Bad" \/ sas = "Bad"
             flag == Flag([immutable_owner |-> TRUE, blacklist |-> bl, allowlist |-> al,
                           allowlist_mode |-> policy.allowlist_mode, sas |-> sas])
             admitted == AdmittedBy([sas |-> sas, allowlist |-> al])
  <2>1. ~bad => gate = IF flag # NoFlag THEN Allow(flag) ELSE Deny("Compliant")
    BY CanGateIsDecided DEF Ops, Decided, Evaluate, Flag
  <2>2. bad => gate \in {Deny("BadRegistryEntry"), Deny("BadCredential")}
    BY CanGateIsDecided DEF Ops, Decided
  <2>3. ~bad /\ io /\ flag = NoFlag => thaw = Allow(admitted)
    BY CanGateIsDecided DEF Ops, Decided, Evaluate, Flag, AdmittedBy
  <2>4. reason = ReasonOf(bl, al, sas)
    BY KeeperComputesReason
  <2>5. /\ bad => reason = NoReason
        /\ ~bad => (reason = NoReason <=> flag = NoFlag)
        /\ ~bad /\ flag # NoFlag => reason = flag
        /\ flag # "Compliant"
    BY <2>4 DEF ReasonOf, Flag, NoFlag, NoReason
  <2>6. verdict = IF reason # NoReason THEN <<"freezable", reason>>
                  ELSE IF bad THEN <<"unknown">> ELSE <<"compliant", admitted>>
    BY <2>4, KeeperComputesVerdict
  <2> HIDE DEF gate, thaw, reason, verdict, bad, flag, admitted, io
  <2>7. /\ gate.allow <=> reason # NoReason
        /\ gate.allow => reason = gate.code /\ verdict = <<"freezable", gate.code>>
        /\ verdict[1] = "compliant" <=> gate.code = "Compliant"
        /\ io /\ verdict[1] = "compliant" => verdict[2] = thaw.code
    BY <2>1, <2>2, <2>3, <2>5, <2>6 DEF Allow, Deny
  <2> QED BY <2>7 DEF gate, thaw, reason, verdict, io
<1> QED BY <1>1, TypeCorrect, ListsAlwaysMatch, PTL
=============================================================================
