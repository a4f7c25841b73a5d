------------------------------- MODULE Services -------------------------------
(***************************************************************************)
(* The services that share one Postgres: Indexer, with the mint service,   *)
(* and WebhookService.  They meet in the stablecoins table, where each     *)
(* creates the row it needs; nothing calls POST /deliver, the indexer's    *)
(* header notwithstanding.                                                 *)
(***************************************************************************)
EXTENDS Indexer

CONSTANTS Endpoints, MaxDeliveries

VARIABLES hooks, outbox, deliveries

W == INSTANCE WebhookService

own     == <<hooks, outbox, deliveries>>
indexer == <<ledger, rows, handlers, tick, requests>>
all     == <<vars, own>>

ServicesInit == Init /\ W!InitOwn

ServicesNext ==
  \/ Next /\ UNCHANGED own
  \/ W!WebhookNext /\ UNCHANGED indexer

ServicesSpec ==
  ServicesInit /\ [][ServicesNext]_all /\ Fairness /\ W!Workers

StatusTells == W!StatusTells
QueuedEnds  == W!QueuedEnds
===============================================================================
