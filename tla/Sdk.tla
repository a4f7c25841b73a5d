--------------------------------- MODULE Sdk ---------------------------------
(***************************************************************************)
(* The SDK's instruction builders over SssToken.  Each operator is what a  *)
(* transaction built by the method of that name does when it lands: the    *)
(* program's action, with the choices the builder makes for its caller (the *)
(* role record it shows, the token account it derives, the accounts it     *)
(* leaves out).                                                            *)
(***************************************************************************)
EXTENDS SssToken

\* Presets (presets/*.ts).
Preset(mode, hook, delegate, frozen, allow) ==
  [mode |-> mode, hook |-> hook, delegate |-> delegate, frozen |-> frozen, allowlist |-> allow]

sss1Preset         == Preset("Hook", FALSE, FALSE, FALSE, FALSE)
sss2Preset         == Preset("Hook", TRUE, TRUE, TRUE, FALSE)
sssAclPreset(allow) == Preset("Acl", FALSE, TRUE, TRUE, allow)
sssBothPreset      == Preset("Both", TRUE, TRUE, TRUE, FALSE)

-----------------------------------------------------------------------------
\* getAssociatedTokenAddressSync.
IsAtaOf(a, w) == a \in Atas /\ OwnerOf[a] = w

mintTokens(k, recipient, amount) == \E a \in Accounts : IsAtaOf(a, recipient) /\ MintTokens(k, a, amount)
burnTokens(k, amount)            == \E a \in Accounts : IsAtaOf(a, k) /\ BurnTokens(k, a, amount)

\* Only the record of the role that is named goes with the instruction.
freezeAccount(k, role, a) == role \in roles[k] /\ FreezeAccount(k, a)
thawAccount(k, role, a)   == role \in roles[k] /\ ThawAccount(k, a)
pause(k, role)            == role \in roles[k] /\ Pause(k)
unpause(k, role)          == role \in roles[k] /\ Unpause(k)

updateRoles(k, holder, role, active)     == UpdateRoles(k, holder, role, active)
updateMinter(k, minter, limit, period)   == UpdateMinter(k, minter, limit, period)
transferAuthority(k, new_authority)      == TransferAuthority(k, new_authority)

-----------------------------------------------------------------------------
\* The token account defaults to the target's associated one.
addToBlacklist(k, target, a)   == OwnerOf[a] = target /\ AddToBlacklist(k, a)
removeFromBlacklist(k, target) == RemoveFromBlacklist(k, target)
addToAllowlist(k, w)           == AddToAllowlist(k, w)
removeFromAllowlist(k, w)      == RemoveFromAllowlist(k, w)

\* On a mint with the hook, Token-2022 can run the transfer only with the
\* hook's accounts passed as remaining accounts.
seize(k, owner, a, t, hook_accounts) ==
  /\ OwnerOf[a] = owner
  /\ config.hook /\ a # t => hook_accounts
  /\ Seize(k, a, t)

setReserveAttestor(k, attestor, staleness) == SetReserveAttestor(k, attestor, staleness)
attestReserves(k, reserves, as_of)         == AttestReserves(k, reserves, as_of)
enableTokenAcl(k, check_blacklist)         == EnableTokenAcl(k, check_blacklist)

\* setupMinting: update_minter, set_reserve_attestor and, when the wallet is
\* the attestor, attest_reserves, in one transaction.
setupMinting(k, quota_limit, attestor, staleness, amount, as_of) ==
  LET posts == attestor = k
  IN  /\ IsMaster(k)
      /\ posts => as_of <= now /\ (reserve.attestor = k => reserve.as_of <= as_of)
      /\ roles' = [roles EXCEPT ![k] = @ \cup {"Minter"}]
      /\ quota' = [quota EXCEPT ![k] =
                     [exists |-> TRUE, limit |-> quota_limit, used |-> 0, period |-> "Lifetime"]]
      /\ last_mint' = [last_mint EXCEPT ![k] = now]
      /\ reserve' =
           CASE posts -> [attestor |-> k, reserves |-> amount, as_of |-> as_of, max_staleness |-> staleness]
             [] ~posts /\ reserve.attestor = attestor -> [reserve EXCEPT !.max_staleness = staleness]
             [] OTHER -> [NoReserve EXCEPT !.attestor = attestor, !.max_staleness = staleness]
      /\ signed_by' = IF posts THEN k ELSE signed_by
      /\ UNCHANGED <<config, paused, mint, gate, blacklist, allowlist, tokens, now>>
=============================================================================
