----------------------------- MODULE MCSssToken -----------------------------
(* SssToken on one small mint.  Each run opens the inputs its properties are *)
(* about and closes the others with empty sets.                              *)
EXTENDS SssToken

CONSTANTS issuer, holder, other, treasury, wallet, side

\* The treasury is the issuer's, wallet and side are the holder's; side is not
\* an associated account.
MCOwnerOf == [a \in Accounts |-> IF a = treasury THEN issuer ELSE holder]

Args(mode, hook, delegate, frozen) ==
  [mode |-> mode, hook |-> hook, delegate |-> delegate, frozen |-> frozen, allowlist |-> FALSE]

\* One mint per compliance mode with the permanent delegate; a plain one with
\* the allowlist; and the arguments initialize refuses: a Token ACL mint without
\* frozen accounts, or with the other mode's hook flag.
MintInitArgs ==
  {Args("Hook", TRUE, TRUE, FALSE), Args("Acl", FALSE, TRUE, TRUE), Args("Both", TRUE, TRUE, TRUE),
   [Args("Hook", FALSE, FALSE, FALSE) EXCEPT !.allowlist = TRUE],
   Args("Acl", FALSE, TRUE, FALSE), Args("Acl", TRUE, TRUE, TRUE), Args("Both", FALSE, TRUE, TRUE)}

\* Without the permanent delegate, or without any compliance feature.
ReserveInitArgs == {Args("Hook", FALSE, TRUE, FALSE), Args("Acl", FALSE, FALSE, TRUE)}

\* The issuer's roles, and one update_roles refuses.
IssuerGrants   == {issuer} \X {"Burner", "Blacklister", "Seizer"}
RolesOfTheMint == IssuerGrants \cup {<<holder, "MasterAuthority">>}

\* The holder may let the issuer move what is in the wallet.
OneDelegate == {<<wallet, issuer>>}

\* Accounts open once the issuer is the master, has every role of the run and
\* posted reserves, on a mint without the allowlist; the clock ticks before that.
SetupFirst ==
  (\E a \in Accounts : tokens[a].state # "none") =>
    /\ config.authority = issuer /\ ~config.allowlist
    /\ RoleGrants \cap IssuerGrants \subseteq {<<issuer, r>> : r \in roles[issuer]}
    /\ reserve.reserves > 0 /\ now = 0

\* The first key to initialize the mint is the issuer.
IssuerFirst == config.authority \in {Nobody, issuer}
=============================================================================
