----------------------------- MODULE MCIssuance -----------------------------
(* Issuance with one operator, at work on one of three things: issuing, with *)
(* the attestor service running or not; compliance; administration.          *)
EXTENDS Issuance

CONSTANTS issuer, holder, treasury, wallet

MCOwnerOf == [a \in Accounts |-> IF a = treasury THEN issuer ELSE holder]

MCReports == [reserves: {1, 2}, as_of: {1}] \cup {[reserves |-> 0, as_of |-> 0]}

Command(name, txs) == [name |-> name, txs |-> txs]
One(name, tx)      == Command(name, <<tx>>)

InitTx(args) == [do |-> "initialize", by |-> issuer, args |-> args]
Enable       == [do |-> "enableTokenAcl", by |-> issuer, check_blacklist |-> TRUE]
Setup(amount) == [do |-> "setupMinting", by |-> issuer, amount |-> amount, attestor |-> issuer,
                  staleness |-> 1, dated |-> FALSE, as_of |-> 0]

Create(amount, allow) ==
  Command("create-stablecoin", <<InitTx(sssAclPreset(allow)), Enable, Setup(amount)>>)

Mint(recipient) == One("mint", [do |-> "mintTokens", by |-> issuer, recipient |-> recipient, amount |-> 1])
Burn            == One("burn", [do |-> "burnTokens", by |-> issuer, amount |-> 1])
Thaw(a)         == One("thaw", [do |-> "thawAccount", by |-> issuer, account |-> a])
Freeze(a)       == One("freeze", [do |-> "freezeAccount", by |-> issuer, account |-> a])
PostReserves(amount, dated, as_of) ==
  One("reserves", [do |-> "attestReserves", by |-> issuer, amount |-> amount, dated |-> dated, as_of |-> as_of])
Role(holder_, role, active) ==
  One("roles", [do |-> "updateRoles", by |-> issuer, holder |-> holder_, role |-> role, active |-> active])
AddMinter(limit) ==
  One("minters", [do |-> "updateMinter", by |-> issuer, minter |-> issuer, limit |-> limit, period |-> "Daily"])

Issuing == {Create(2, FALSE), Role(issuer, "Burner", TRUE), Mint(issuer), Burn, Thaw(treasury),
            PostReserves(1, FALSE, 0)}

Serving == {Create(1, FALSE), PostReserves(2, TRUE, 1)}

ComplianceWork ==
  {Create(1, FALSE), One("init", InitTx(sss2Preset)), Role(issuer, "Blacklister", TRUE),
   Role(issuer, "Seizer", TRUE), Mint(holder), Thaw(treasury), Thaw(wallet), Freeze(wallet),
   One("blacklist", [do |-> "addToBlacklist", by |-> issuer, target |-> holder, account |-> wallet]),
   One("unblacklist", [do |-> "removeFromBlacklist", by |-> issuer, target |-> holder]),
   One("seize", [do |-> "seize", by |-> issuer, owner |-> holder, account |-> wallet, treasury |-> treasury])}

Administration ==
  {One("init", InitTx(sss1Preset)), Create(1, TRUE), Role(issuer, "Pauser", TRUE),
   One("pause", [do |-> "pause", by |-> issuer]), One("unpause", [do |-> "unpause", by |-> issuer]),
   One("transfer-authority", [do |-> "transferAuthority", by |-> issuer, new_authority |-> holder]),
   One("allowlist", [do |-> "addToAllowlist", by |-> issuer, wallet |-> holder]),
   One("allowlist", [do |-> "removeFromAllowlist", by |-> issuer, wallet |-> holder])}

Minters == {Create(1, FALSE), AddMinter(2), Role(issuer, "Minter", FALSE), Mint(issuer), Thaw(treasury)}

MCScripts == {Issuing, Serving, ComplianceWork, Administration, Minters}

MCInit == IssuanceInit /\ (tick.phase # "absent" <=> script = Serving)

\* Time passes, commands are cut off and the attestor changes where reserves
\* are the matter; holders open accounts where compliance is; the service
\* starts once the mint is set up.
WhereItMatters ==
  CASE script = Issuing -> /\ tokens[wallet].state = "none"
                           /\ reserve.attestor = Nobody => now = 0 /\ interrupts = 0
                           /\ tokens[treasury].state # "none" => "Burner" \in roles[issuer]
                           /\ \A tx \in stray : tx.do \in {"mintTokens", "attestReserves"}
    [] script = Serving -> /\ \A a \in Accounts : tokens[a].state = "none"
                           /\ now <= 1 /\ interrupts = 0
                           /\ reserve.attestor = Nobody => tick.phase = "asleep" /\ published = 0 /\ now = 0
    [] OTHER -> now = 0 /\ interrupts = 0 /\ reserve.attestor \in {Nobody, issuer}

MCSpec == MCInit /\ [][IssuanceNext]_all_vars /\ AttestorFairness
=============================================================================
