------------------------------- MODULE MCKeeper -------------------------------
(* Keeper over one mint with one issuer program and one credential.          *)
EXTENDS Keeper

CONSTANTS holder, sss, kyc, lists, credentials, both

MCOwnerOf == [a \in Accounts |-> holder]

MCTerms == [p \in Policies |->
  [version |-> 1, authority |-> NoKey, check_blacklist |-> p # credentials,
   issuer_program |-> IF p # credentials THEN sss ELSE NoKey, allowlist_mode |-> "Off",
   require_sas |-> p # lists, sas |-> IF p # lists THEN kyc ELSE NoKey, min_kyc_level |-> 0]]

Environment(kinds, faults, lagging) ==
  [kinds |-> kinds, changes |-> 1, faults |-> faults, lagging |-> lagging]

\* A credential comes, goes or expires before a node that lags; a token
\* account changes and a call fails, a stream drops or the keeper crashes; or
\* the policy changes, or a wallet is blacklisted.
NewPolicy  == Environment({"policy"}, 0, FALSE)
NewRules   == Environment({"policy", "blacklist"}, 0, FALSE)
OneTrouble == {Environment({"attestation"}, 0, TRUE), Environment({"token"}, 1, FALSE), NewRules}
OnlyPolicy == {NewPolicy}

\* A policy that changes is one with lists, and nobody holds the credential
\* the other one wants; one that stays asks for the credential alone.
MCInit ==
  /\ Init
  /\ IF "policy" \in bounds.kinds
       THEN chain.policy = lists /\ \A w \in Wallets : chain.world.attestation[kyc][w] = NoAttestation
       ELSE chain.policy = credentials /\ \A w \in Wallets : chain.world.blacklist[sss][w] = "absent"
MCSpec == MCInit /\ [][Next]_vars /\ Fairness
=============================================================================
