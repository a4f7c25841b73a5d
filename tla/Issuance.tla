------------------------------ MODULE Issuance ------------------------------
(***************************************************************************)
(* A mint as it is run: the sss-token program, the attestor service and an *)
(* operator at the command line, over one cluster.  The holders and the    *)
(* gate act as in SssToken.                                                *)
(***************************************************************************)
EXTENDS Attestor, Cli

all_vars == <<vars, attestor_vars, cli_vars>>

IssuanceInit == Init /\ AttestorInit /\ CliInit

IssuanceNext ==
  \/ AttestorNext /\ UNCHANGED cli_vars
  \/ CliNext /\ UNCHANGED attestor_vars
  \/ ExternalNext /\ UNCHANGED <<attestor_vars, cli_vars>>
  \/ /\ \E k \in Keys, attestor \in Attestors, s \in Stalenesses : setReserveAttestor(k, attestor, s)
     /\ UNCHANGED <<attestor_vars, cli_vars>>

IssuanceSpec == IssuanceInit /\ [][IssuanceNext]_all_vars /\ AttestorFairness

IssuanceTypeOK ==
  /\ AttestorTypeOK
  /\ script \in Scripts
  /\ cli.phase \in {"prompt", "sent", "landed"}
  /\ interrupts \in 0 .. MaxInterrupts
  /\ audit \in [minted: Nat, burned: Nat]

-----------------------------------------------------------------------------
\* The audit log never claims what did not happen, whatever is retried or cut
\* off; and a run without a cut-off command misses nothing (commands.ts writes
\* the line only after sendAndConfirmTransaction returns).
AuditIsTrue ==
  /\ audit.minted <= config.total_minted
  /\ audit.burned <= config.total_burned
  /\ interrupts = 0 /\ cli.phase = "prompt" => audit.minted = config.total_minted

\* While the service is the attestor, what it publishes is of a time that has
\* come, no operator is posting and nobody posted a later one, the chain comes to say
\* what the source says and stays so, a corrected report included, whatever post
\* of an older tick is still in the network (attestor.ts tick, decide).
ReservesFollowReport ==
  \A r \in Reports :
    <>[](/\ tick.phase # "absent" /\ report = r /\ r.as_of <= now /\ cli.phase = "prompt"
         /\ reserve.attestor = AttestorKey /\ reserve.as_of <= r.as_of)
      => <>[](reserve.reserves = r.reserves /\ reserve.as_of = r.as_of)
=============================================================================
