---------------------------- MODULE WebhookService ----------------------------
(***************************************************************************)
(* webhook-service: subscriptions, and deliveries to their endpoints by a  *)
(* queue of jobs that are tried three times.                               *)
(*                                                                         *)
(*   coins        the stablecoins table, which the other services write    *)
(*   hooks        the webhooks table, by endpoint, and the subscription    *)
(*                request that has looked for its stablecoin ("find")      *)
(*   outbox       the endpoints POST /deliver has still to enqueue for     *)
(*   deliveries   the rows of webhook_deliveries, each with its job in the *)
(*                queue and how often its endpoint received it             *)
(***************************************************************************)
EXTENDS Integers, Sequences, FiniteSets

CONSTANTS
  Mints, Endpoints,
  MaxDeliveries, MaxFaults   \* bounds

VARIABLES coins, hooks, outbox, deliveries, faults

own  == <<hooks, outbox, deliveries>>
vars == <<coins, own, faults>>

MAX_ATTEMPTS == 3

NewCoin == [exists |-> TRUE, minted |-> 0, burned |-> 0, paused |-> FALSE]

InitOwn ==
  /\ hooks = [e \in Endpoints |-> [at |-> "none", mint |-> ""]]
  /\ outbox = {} /\ deliveries = <<>>

Fault == faults < MaxFaults /\ faults' = faults + 1

-----------------------------------------------------------------------------
(* Subscriptions.                                                          *)

\* POST /subscriptions looks for the stablecoin and creates it when there is
\* none; another service's row in between fails the request.
Subscribe(e, m) ==
  /\ hooks[e].at = "none"
  /\ hooks' = [hooks EXCEPT ![e] =
       [at |-> IF coins[m].exists THEN "active" ELSE "find", mint |-> m]]
  /\ UNCHANGED <<coins, outbox, deliveries, faults>>

CreateHook(e) ==
  LET m == hooks[e].mint
  IN  /\ hooks[e].at = "find"
      /\ hooks' = [hooks EXCEPT ![e].at = IF coins[m].exists THEN "none" ELSE "active"]
      /\ coins' = IF coins[m].exists THEN coins ELSE [coins EXCEPT ![m] = NewCoin]
      /\ UNCHANGED <<outbox, deliveries, faults>>

\* DELETE /subscriptions/:id keeps the row.
DeleteHook(e) ==
  /\ hooks[e].at = "active"
  /\ hooks' = [hooks EXCEPT ![e].at = "deleted"]
  /\ UNCHANGED <<coins, outbox, deliveries, faults>>

-----------------------------------------------------------------------------
(* Deliveries.                                                             *)

\* POST /deliver reads the subscriptions and then, for one after the other,
\* creates the row and adds the job.
Deliver ==
  /\ outbox = {}
  /\ outbox' = {e \in Endpoints : hooks[e].at = "active"}
  /\ UNCHANGED <<coins, hooks, deliveries, faults>>

\* The request or the queue may fail after the row was created.
Enqueue(e) ==
  /\ e \in outbox /\ Len(deliveries) < MaxDeliveries
  /\ \E added \in BOOLEAN :
       /\ deliveries' = Append(deliveries,
            [hook |-> e, status |-> "PENDING", attempts |-> 0, received |-> 0,
             job |-> IF added THEN "waiting" ELSE "none", made |-> 0])
       /\ outbox' = IF added THEN outbox \ {e} ELSE {}
       /\ IF added THEN UNCHANGED faults ELSE Fault
  /\ UNCHANGED <<coins, hooks>>

Job(d, at)      == d \in DOMAIN deliveries /\ deliveries[d].job = at
Put(d, changed) == deliveries' = [deliveries EXCEPT ![d] = changed]

\* The worker's POST.  Without an answer within ten seconds the attempt has
\* failed, whether the endpoint received it or not.
Post(d) ==
  /\ Job(d, "waiting")
  /\ \E received, ok \in BOOLEAN :
       /\ ok => received
       /\ Put(d, [deliveries[d] EXCEPT !.received = @ + IF received THEN 1 ELSE 0,
                                       !.job = IF ok THEN "accepted" ELSE "refused"])
  /\ UNCHANGED <<coins, hooks, outbox, faults>>

\* A write that fails is an error like a refusal, and is recorded as one.
RecordDelivered(d) ==
  /\ Job(d, "accepted")
  /\ \/ /\ Put(d, [deliveries[d] EXCEPT !.status = "DELIVERED", !.job = "done",
                                        !.attempts = deliveries[d].made + 1])
        /\ UNCHANGED faults
     \/ Put(d, [deliveries[d] EXCEPT !.job = "refused"]) /\ Fault
  /\ UNCHANGED <<coins, hooks, outbox>>

\* Mutant: the last attempt is counted as one before the last.
RecordFailedLate(d) ==
  LET made == deliveries[d].made + 1
  IN  /\ Job(d, "refused")
      /\ Put(d, [deliveries[d] EXCEPT
            !.status = IF made > MAX_ATTEMPTS THEN "FAILED" ELSE "RETRYING",
            !.attempts = made, !.made = made,
            !.job = IF made = MAX_ATTEMPTS THEN "failed" ELSE "waiting"])
      /\ UNCHANGED <<coins, hooks, outbox, faults>>

\* Mutant: the error is caught and not thrown on to the queue.
RecordFailedQuietly(d) ==
  LET made == deliveries[d].made + 1
  IN  /\ Job(d, "refused")
      /\ Put(d, [deliveries[d] EXCEPT !.attempts = made, !.made = made, !.job = "none",
            !.status = IF made = MAX_ATTEMPTS THEN "FAILED" ELSE "RETRYING"])
      /\ UNCHANGED <<coins, hooks, outbox, faults>>

\* The failure is written, or not when the database fails, and thrown on to the
\* queue, which tries again after a backoff.
RecordFailed(d) ==
  LET made == deliveries[d].made + 1
      thrown == [deliveries[d] EXCEPT !.made = made,
                   !.job = IF made = MAX_ATTEMPTS THEN "failed" ELSE "waiting"]
  IN  /\ Job(d, "refused")
      /\ \/ /\ Put(d, [thrown EXCEPT !.attempts = made,
                  !.status = IF made = MAX_ATTEMPTS THEN "FAILED" ELSE "RETRYING"])
            /\ UNCHANGED faults
         \/ Put(d, thrown) /\ Fault
      /\ UNCHANGED <<coins, hooks, outbox>>

\* The queue learns that the job is done.
Complete(d) ==
  /\ Job(d, "done")
  /\ Put(d, [deliveries[d] EXCEPT !.job = "completed"])
  /\ UNCHANGED <<coins, hooks, outbox, faults>>

\* The service goes down: requests are lost, and jobs under way are found
\* stalled and run again.
RestartService ==
  /\ Fault
  /\ outbox' = {}
  /\ hooks' = [e \in Endpoints |->
       IF hooks[e].at = "find" THEN [hooks[e] EXCEPT !.at = "none"] ELSE hooks[e]]
  /\ deliveries' = [d \in DOMAIN deliveries |->
       IF deliveries[d].job \in {"accepted", "refused", "done"}
         THEN [deliveries[d] EXCEPT !.job = "waiting"] ELSE deliveries[d]]
  /\ UNCHANGED coins

-----------------------------------------------------------------------------
Work(d) == Post(d) \/ RecordDelivered(d) \/ RecordFailed(d) \/ Complete(d)

WebhookNext ==
  \/ \E e \in Endpoints :
       \/ \E m \in Mints : Subscribe(e, m)
       \/ CreateHook(e) \/ DeleteHook(e) \/ Enqueue(e)
  \/ Deliver \/ RestartService
  \/ \E d \in 1..MaxDeliveries : Work(d)

\* The workers take the jobs of the queue.
Workers == \A d \in 1..MaxDeliveries : WF_vars(Work(d))

-----------------------------------------------------------------------------
(* Properties.                                                             *)

\* GET /deliveries/:id tells the truth: a delivery is DELIVERED only when its
\* endpoint received it, and, as long as no write fails and no worker dies,
\* exactly when its job ended well; it is FAILED exactly when three attempts
\* were made in vain.
StatusTells ==
  \A d \in DOMAIN deliveries :
    LET v == deliveries[d]
    IN  /\ v.status = "DELIVERED" => v.received > 0
        /\ faults = 0 => /\ v.status = "DELIVERED" <=> v.job \in {"done", "completed"}
                         /\ v.status = "FAILED" <=> v.job = "failed"

\* Whatever its endpoint does, a queued delivery leaves the queue in the end.
QueuedEnds ==
  \A d \in 1..MaxDeliveries :
    Job(d, "waiting") ~> Job(d, "completed") \/ Job(d, "failed")
===============================================================================
