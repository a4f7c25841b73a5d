------------------------ MODULE GateDecision_proofs ------------------------
(* The extra-metas list and the indices decide() reads it by agree: lemmas  *)
(* about the operators of GateDecision, for every policy.                   *)
EXTENDS GateDecision, TLAPS

\* The policies decide() can be given, as far as these operators look at them.
IsPolicy(p) ==
  /\ p.check_blacklist \in BOOLEAN
  /\ p.allowlist_mode \in AllowlistModes
  /\ p.require_sas \in BOOLEAN

Registry(p) == p.check_blacklist \/ p.allowlist_mode # "Off"

\* Three sequences end to end: the length, and where the last two start.
LEMMA ThreeParts ==
  ASSUME NEW S, NEW h \in Seq(S), NEW r \in Seq(S), NEW s \in Seq(S)
  PROVE  /\ Len(h \o r \o s) = Len(h) + Len(r) + Len(s)
         /\ \A i \in 1 .. Len(r) : (h \o r \o s)[i + Len(h)] = r[i]
         /\ \A i \in 1 .. Len(s) : (h \o r \o s)[i + Len(h) + Len(r)] = s[i]
<1>1. /\ h \o r \in Seq(S)
      /\ Len(h \o r) = Len(h) + Len(r)
      /\ Len(h) \in Nat /\ Len(r) \in Nat /\ Len(s) \in Nat
  OBVIOUS
<1>2. Len(h \o r \o s) = Len(h) + Len(r) + Len(s)
  BY <1>1
<1>3. ASSUME NEW i \in 1 .. Len(r)
      PROVE  (h \o r \o s)[i + Len(h)] = r[i]
  <2>1. (h \o r)[i + Len(h)] = r[i]
    BY <1>1, i + Len(h) \in 1 .. Len(h) + Len(r), i + Len(h) > Len(h)
  <2>2. (h \o r \o s)[i + Len(h)] = (h \o r)[i + Len(h)]
    BY <1>1, i + Len(h) \in 1 .. Len(h \o r)
  <2> QED BY <2>1, <2>2
<1>4. ASSUME NEW i \in 1 .. Len(s)
      PROVE  (h \o r \o s)[i + Len(h) + Len(r)] = s[i]
  <2> DEFINE q == h \o r
  <2>1. q \in Seq(S) /\ Len(q) = Len(h) + Len(r)
    BY <1>1
  <2> HIDE DEF q
  <2>2. (q \o s)[i + Len(q)] = s[i]
    BY <2>1, i + Len(q) \in 1 .. Len(q) + Len(s)
  <2>3. (q \o s)[i + Len(h) + Len(r)] = s[i]
    BY <1>1, <2>1, <2>2
  <2> QED BY <2>3 DEF q
<1> QED BY <1>2, <1>3, <1>4

\* Layout(p) as numbers: an account that the policy does not consult has no
\* index, and the others follow each other without a gap.
LEMMA LayoutValues ==
  ASSUME NEW p, IsPolicy(p)
  PROVE  /\ Layout(p).issuer = IF Registry(p) THEN 7 ELSE None
         /\ Layout(p).blacklist = IF p.check_blacklist THEN 8 ELSE None
         /\ Layout(p).allowlist = IF p.allowlist_mode = "Off" THEN None
                                  ELSE IF p.check_blacklist THEN 9 ELSE 8
         /\ Layout(p).sas = IF ~p.require_sas THEN None
                            ELSE IF ~Registry(p) THEN 7
                            ELSE IF p.check_blacklist /\ p.allowlist_mode # "Off" THEN 10 ELSE 9
         /\ Layout(p).attestation = IF p.require_sas THEN Layout(p).sas + 3 ELSE None
         /\ Layout(p).len = 7 + (IF ~Registry(p) THEN 0
                                 ELSE IF p.check_blacklist /\ p.allowlist_mode # "Off"
                                 THEN 3 ELSE 2)
                              + (IF p.require_sas THEN 4 ELSE 0)
  BY DEF Layout, IsPolicy, Registry, AllowlistModes, None, POLICY_INDEX, SAS_GROUP_LEN

Kinds == {"policy", "program", "blacklist", "allowlist",
          "sas_program", "credential", "schema", "attestation"}

Metas(p) == [kind: Kinds, key: {NoKey, p.issuer_program, p.sas}, at: Nat]

\* The registry part of an extra-metas list: the issuer program first, and as
\* many entries as the policy consults lists.
LEMMA RegistryMetasContent ==
  ASSUME NEW p, IsPolicy(p)
  PROVE  /\ RegistryMetas(p) \in Seq(Metas(p))
         /\ Len(RegistryMetas(p)) = IF ~Registry(p) THEN 0
                                    ELSE IF p.check_blacklist /\ p.allowlist_mode # "Off"
                                    THEN 3 ELSE 2
         /\ Registry(p) => RegistryMetas(p)[1] = Meta("program", p.issuer_program, None)
         /\ p.check_blacklist => RegistryMetas(p)[2] = Meta("blacklist", NoKey, 7)
         /\ p.allowlist_mode # "Off" =>
              RegistryMetas(p)[IF p.check_blacklist THEN 3 ELSE 2] = Meta("allowlist", NoKey, 7)
<1> DEFINE program == Meta("program", p.issuer_program, None)
           blacklist == Meta("blacklist", NoKey, 7)
           allowlist == Meta("allowlist", NoKey, 7)
<1>1. /\ program \in Metas(p)
      /\ blacklist \in Metas(p)
      /\ allowlist \in Metas(p)
  BY DEF Meta, Metas, Kinds, None
<1>2. RegistryMetas(p) =
        IF ~Registry(p) THEN <<>>
        ELSE <<program>> \o (IF p.check_blacklist THEN <<blacklist>> ELSE <<>>)
                         \o (IF p.allowlist_mode # "Off" THEN <<allowlist>> ELSE <<>>)
  BY LayoutValues DEF RegistryMetas, None, Registry, IsPolicy
<1> HIDE DEF program, blacklist, allowlist
<1>3. CASE ~Registry(p)
  BY <1>2, <1>3 DEF Registry
<1>4. CASE p.check_blacklist /\ p.allowlist_mode # "Off"
  BY <1>1, <1>2, <1>4 DEF Registry, program, blacklist, allowlist
<1>5. CASE p.check_blacklist /\ p.allowlist_mode = "Off"
  BY <1>1, <1>2, <1>5 DEF Registry, program, blacklist, allowlist
<1>6. CASE ~p.check_blacklist /\ p.allowlist_mode # "Off"
  BY <1>1, <1>2, <1>6 DEF Registry, program, blacklist, allowlist
<1> QED BY <1>3, <1>4, <1>5, <1>6 DEF Registry

\* The SAS part: four entries, the credential second and the attestation last.
LEMMA SasMetasContent ==
  ASSUME NEW p, IsPolicy(p)
  PROVE  /\ SasMetas(p) \in Seq(Metas(p))
         /\ Len(SasMetas(p)) = IF p.require_sas THEN 4 ELSE 0
         /\ p.require_sas => /\ SasMetas(p)[2] = Meta("credential", p.sas, None)
                             /\ SasMetas(p)[4] = Meta("attestation", NoKey, Layout(p).sas)
<1>1. Layout(p).sas \in Nat /\ (Layout(p).sas = None <=> ~p.require_sas)
  BY LayoutValues DEF None, IsPolicy, Registry
<1>2. SasMetas(p) = IF p.require_sas THEN <<Meta("sas_program", NoKey, None),
                                            Meta("credential", p.sas, None),
                                            Meta("schema", p.sas, None),
                                            Meta("attestation", NoKey, Layout(p).sas)>>
                    ELSE <<>>
  BY <1>1 DEF SasMetas
<1>3. /\ Meta("sas_program", NoKey, None) \in Metas(p)
      /\ Meta("credential", p.sas, None) \in Metas(p)
      /\ Meta("schema", p.sas, None) \in Metas(p)
      /\ Meta("attestation", NoKey, Layout(p).sas) \in Metas(p)
  BY <1>1 DEF Meta, Metas, Kinds, None
<1> QED BY <1>2, <1>3 DEF IsPolicy

\* What decide() finds at the instruction indices its layout names, in the
\* list write_both wrote for the same policy.
LEMMA ListMatchesLayout ==
  ASSUME NEW p, IsPolicy(p)
  PROVE  LET metas == ExtraMetas(p)
             layout == Layout(p)
         IN  /\ EXTRA_METAS_INDEX + 1 + Len(metas) = layout.len
             /\ Len(metas) >= POLICY_INDEX - EXTRA_METAS_INDEX
             /\ layout.issuer # None =>
                  MetaAt(metas, layout.issuer) = Meta("program", p.issuer_program, None)
             /\ layout.blacklist # None =>
                  MetaAt(metas, layout.blacklist) = Meta("blacklist", NoKey, layout.issuer)
             /\ layout.allowlist # None =>
                  MetaAt(metas, layout.allowlist) = Meta("allowlist", NoKey, layout.issuer)
             /\ layout.sas # None =>
                  /\ MetaAt(metas, layout.sas + 1) = Meta("credential", p.sas, None)
                  /\ MetaAt(metas, layout.attestation) = Meta("attestation", NoKey, layout.sas)
<1> DEFINE head == <<Meta("policy", NoKey, None)>>
           registry == RegistryMetas(p)
           sas == SasMetas(p)
           metas == ExtraMetas(p)
           r == IF ~Registry(p) THEN 0
                ELSE IF p.check_blacklist /\ p.allowlist_mode # "Off" THEN 3 ELSE 2
           s == IF p.require_sas THEN 4 ELSE 0
<1>1. head \in Seq(Metas(p)) /\ Len(head) = 1
  <2>1. Meta("policy", NoKey, None) \in Metas(p)
    BY DEF Meta, Metas, Kinds, None
  <2> QED BY <2>1
<1>2. registry \in Seq(Metas(p)) /\ Len(registry) = r
  BY RegistryMetasContent
<1>3. sas \in Seq(Metas(p)) /\ Len(sas) = s
  BY SasMetasContent
<1>4. r \in Nat /\ s \in Nat
  OBVIOUS
<1>5. /\ Len(metas) = 1 + r + s
      /\ \A i \in 1 .. r : metas[i + 1] = registry[i]
      /\ \A i \in 1 .. s : metas[i + 1 + r] = sas[i]
  <2>1. metas = head \o registry \o sas
    BY DEF ExtraMetas
  <2> HIDE DEF head, registry, sas, metas, r, s
  <2> DEFINE S == Metas(p)
  <2>2. head \in Seq(S) /\ registry \in Seq(S) /\ sas \in Seq(S)
    BY <1>1, <1>2, <1>3
  <2> HIDE DEF S
  <2>3. /\ Len(head \o registry \o sas) = Len(head) + Len(registry) + Len(sas)
        /\ \A i \in 1 .. Len(registry) :
             (head \o registry \o sas)[i + Len(head)] = registry[i]
        /\ \A i \in 1 .. Len(sas) :
             (head \o registry \o sas)[i + Len(head) + Len(registry)] = sas[i]
    BY <2>2, ThreeParts
  <2> QED BY <1>1, <1>2, <1>3, <1>4, <2>1, <2>3
<1>6. Layout(p).len = 7 + r + s
  BY LayoutValues
<1>7. Layout(p).issuer # None => MetaAt(metas, Layout(p).issuer) = Meta("program", p.issuer_program, None)
  <2>1. Layout(p).issuer # None => metas[2] = registry[1]
    BY <1>5, LayoutValues
  <2> QED BY <2>1, LayoutValues, RegistryMetasContent DEF MetaAt, EXTRA_METAS_INDEX
<1>8. Layout(p).blacklist # None =>
         MetaAt(metas, Layout(p).blacklist) = Meta("blacklist", NoKey, Layout(p).issuer)
  <2>1. p.check_blacklist => metas[3] = registry[2]
    BY <1>5 DEF Registry
  <2> QED BY <2>1, LayoutValues, RegistryMetasContent DEF MetaAt, EXTRA_METAS_INDEX, Registry
<1>9. Layout(p).allowlist # None =>
         MetaAt(metas, Layout(p).allowlist) = Meta("allowlist", NoKey, Layout(p).issuer)
  <2> DEFINE k == IF p.check_blacklist THEN 3 ELSE 2
  <2>1. p.allowlist_mode # "Off" => metas[k + 1] = registry[k]
    BY <1>5 DEF Registry
  <2>2. p.allowlist_mode # "Off" => Layout(p).allowlist - 5 = k + 1 /\ Layout(p).issuer = 7
    BY LayoutValues DEF Registry
  <2> QED BY <2>1, <2>2, LayoutValues, RegistryMetasContent DEF MetaAt, EXTRA_METAS_INDEX
<1>10. Layout(p).sas # None =>
         /\ MetaAt(metas, Layout(p).sas + 1) = Meta("credential", p.sas, None)
         /\ MetaAt(metas, Layout(p).attestation) = Meta("attestation", NoKey, Layout(p).sas)
  <2>1. p.require_sas => metas[3 + r] = sas[2] /\ metas[5 + r] = sas[4]
    BY <1>5
  <2>2. p.require_sas => /\ Layout(p).sas + 1 - 5 = 3 + r
                         /\ Layout(p).attestation - 5 = 5 + r
    BY LayoutValues DEF Registry
  <2>3. Layout(p).sas # None => p.require_sas
    BY LayoutValues
  <2>4. p.require_sas => /\ metas[3 + r] = Meta("credential", p.sas, None)
                         /\ metas[5 + r] = Meta("attestation", NoKey, Layout(p).sas)
    BY <2>1, SasMetasContent
  <2>5. p.require_sas => Layout(p).sas \in Nat /\ Layout(p).attestation \in Nat
    BY LayoutValues DEF Registry
  <2> HIDE DEF metas, r
  <2> QED BY <1>4, <2>2, <2>3, <2>4, <2>5 DEF MetaAt, EXTRA_METAS_INDEX
<1> QED BY <1>5, <1>6, <1>7, <1>8, <1>9, <1>10 DEF EXTRA_METAS_INDEX, POLICY_INDEX
=============================================================================
