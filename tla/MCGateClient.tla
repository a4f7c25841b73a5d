---------------------------- MODULE MCGateClient ----------------------------
(* GateClient with two shells of one operator and one holder. *)
EXTENDS GateClient

CONSTANTS holder, account, sss, fork, kyc, admin, shell, tab

MCKeyOf == [c \in Clients |-> admin]

Args(issuer, blacklist, require_sas, level) ==
  [authority |-> admin, issuer_program |-> issuer, check_blacklist |-> blacklist, allowlist_mode |-> "Off",
   require_sas |-> require_sas, sas |-> IF require_sas THEN kyc ELSE NoKey, min_kyc_level |-> level]

MCPolicyArgs == {Args(fork, FALSE, TRUE, 1), Args(sss, TRUE, FALSE, 0)}

Cmd(name, flags) == [NoCommand EXCEPT !.name = name, !.flags = flags, !.account = account]

Blacklist(on) == [NoFlags EXCEPT !.blacklist = {on}]
MinKyc(level) == [NoFlags EXCEPT !.minKyc = {level}]
Kyc(level)    == [NoFlags EXCEPT !.credential = {kyc}, !.minKyc = {level}]
NoSas         == [NoFlags EXCEPT !.noSas = TRUE]

Updates == {Cmd("policy update", f) : f \in {Blacklist(TRUE), MinKyc(2), [NoFlags EXCEPT !.credential = {kyc}], NoSas}}

Operator ==
  Updates \cup {Cmd("setup-extra-metas", NoFlags), Cmd("policy init", Blacklist(TRUE)), Cmd("swap-gate", Kyc(1))}

Holders ==
  {Cmd("explain", NoFlags), Cmd("unlock", NoFlags), Cmd("freeze-if-invalid", NoFlags),
   Cmd("sas revoke", Kyc(1)), [Cmd("sas attest", Kyc(1)) EXCEPT !.expiry = 1]}

\* The second shell runs one command.
OneBeside == started[tab] <= 1

MCMenu == [c \in Clients |-> IF c = shell THEN Operator \cup Holders ELSE Updates \cup Holders]
=============================================================================
