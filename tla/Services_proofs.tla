--------------------------- MODULE Services_proofs ---------------------------
(***************************************************************************)
(* Proofs about Services, for any mints, requests, endpoints, log lines    *)
(* and bounds.  The tables' invariant says which request each recorded     *)
(* amount belongs to: the signatures of two requests differ, a request     *)
(* records at most one amount, none before it is told that its transaction *)
(* landed, and its stablecoin exists by then.  So the totals are the       *)
(* amounts of the requests that are through with both writes.  The         *)
(* deliveries' invariant says what a job has seen of its endpoint.         *)
(***************************************************************************)
EXTENDS Services, FiniteSetTheorems, TLAPS

-----------------------------------------------------------------------------
(* The tables.                                                             *)

TxType      == [kind: Kinds \cup {"mint", "burn"}, mint: Mints, target: Wallets \cup {Unset}]
Tables      == {"mint", "burn"} \cup {RowOf[name][1] : name \in DOMAIN RowOf}
RowTypes    == {"service"} \cup {RowOf[name][2] : name \in DOMAIN RowOf}
RowType     == [table: Tables, type: RowTypes, sig: Nat, mint: Mints,
                target: Wallets \cup {Unset}, amount: {0, 1}]
CoinType    == [exists: BOOLEAN, minted: Nat, burned: Nat, paused: BOOLEAN]
HandlerAts  == {"idle", "read", "coin", "row", "update"}
RequestType == [at: {"new", "send", "coin", "create", "row", "total", "ok", "error"},
                op: {"mint", "burn"}, mint: Mints \cup {Unset}, tries: Nat, sigs: SUBSET Nat]

Types ==
  /\ ledger \in Seq(TxType) /\ rows \in Seq(RowType)
  /\ coins \in [Mints -> CoinType]
  /\ requests \in [Requests -> RequestType]
  /\ tick \in Seq(Nat) /\ faults \in Nat

\* A handler works on a transaction that exists; each callback on its own.
HandlerHolds(k, h) ==
  /\ DOMAIN h = {"at", "sig", "events"}
  /\ h.at \in HandlerAts
  /\ h.at # "idle" => h.sig \in DOMAIN ledger /\ (k # Poll => h.sig = k)

HandlersHold ==
  /\ handlers = [k \in 0..MaxTxs |-> handlers[k]]
  /\ \A k \in 0..MaxTxs : HandlerHolds(k, handlers[k])
  /\ \A i \in DOMAIN tick : tick[i] \in DOMAIN ledger

\* A row is about a transaction that exists, and the only one of its table.
RowsHold ==
  /\ \A i \in DOMAIN rows : rows[i].sig \in DOMAIN ledger
  /\ \A i, j \in DOMAIN rows :
       rows[i].table = rows[j].table /\ rows[i].sig = rows[j].sig => i = j

\* The amounts a request has recorded.
Recorded(q) == {i \in DOMAIN rows : rows[i].amount = 1 /\ rows[i].sig \in q.sigs}

RequestHolds(q) ==
  /\ q.at = "new" => q.sigs = {}
  /\ q.at # "new" => q.mint \in Mints
  /\ \A s \in q.sigs : s \in DOMAIN ledger /\ ledger[s].mint = q.mint
  /\ q.at \in {"coin", "create", "row", "total"} => q.sigs # {}
  /\ q.sigs # {} => \E s \in q.sigs : \A t \in q.sigs : t <= s
  /\ q.at \in {"row", "total"} => coins[q.mint].exists
  /\ q.at \in {"new", "send", "coin", "create", "row"} => Recorded(q) = {}
  /\ q.at = "total" => \E i \in Recorded(q) : i \in Amounts(q.op, q.mint)
  /\ \A i, j \in Recorded(q) : i = j

RequestsHold ==
  /\ \A r \in Requests : RequestHolds(requests[r])
  /\ \A r, q \in Requests : r # q => requests[r].sigs \cap requests[q].sigs = {}

\* The amounts that are not half done are the totals.
Counted(op, m) == Amounts(op, m) \ HalfDone(op, m)

TotalsHold ==
  \A m \in Mints :
    /\ coins[m].minted = Cardinality(Counted("mint", m))
    /\ coins[m].burned = Cardinality(Counted("burn", m))
    /\ ~coins[m].exists => coins[m].minted = 0 /\ coins[m].burned = 0

TablesInv == Types /\ HandlersHold /\ RowsHold /\ RequestsHold /\ TotalsHold

-----------------------------------------------------------------------------
(* The deliveries.                                                         *)

Delivery ==
  [hook: Endpoints, status: {"PENDING", "RETRYING", "DELIVERED", "FAILED"}, attempts: Nat,
   received: Nat, job: {"none", "waiting", "accepted", "refused", "done", "completed", "failed"},
   made: Nat]

\* A job that went on was received; while nothing failed, the status follows
\* the job, and a job that failed was tried three times.
DeliveryHolds(v) ==
  /\ v.status = "DELIVERED" \/ v.job \in {"accepted", "done", "completed"} => v.received > 0
  /\ v.made <= W!MAX_ATTEMPTS /\ (v.job = "failed" <=> v.made = W!MAX_ATTEMPTS)
  /\ faults = 0 => /\ v.status = "DELIVERED" <=> v.job \in {"done", "completed"}
                   /\ v.status = "FAILED" <=> v.job = "failed"

DeliveriesInv ==
  /\ faults \in Nat
  /\ deliveries \in Seq(Delivery)
  /\ \A d \in DOMAIN deliveries : DeliveryHolds(deliveries[d])

-----------------------------------------------------------------------------
(* Proofs.                                                                 *)

\* Where a delivery moves, the others stay.
LEMMA DeliveryMoves ==
  ASSUME DeliveriesInv, NEW d \in DOMAIN deliveries, NEW v \in Delivery, W!Put(d, v),
         faults' \in Nat, faults' = 0 => faults = 0, DeliveryHolds(deliveries[d])'
  PROVE  DeliveriesInv'
<1>1. deliveries' = [deliveries EXCEPT ![d] = v]
  BY DEF W!Put
<1>2. deliveries' \in Seq(Delivery) /\ DOMAIN deliveries' = DOMAIN deliveries
  BY <1>1 DEF DeliveriesInv
<1>3. ASSUME NEW e \in DOMAIN deliveries', e # d PROVE DeliveryHolds(deliveries[e])'
  <2>1. deliveries'[e] = deliveries[e]
    BY <1>1, <1>2, <1>3
  <2> QED BY <1>2, <2>1 DEF DeliveriesInv, DeliveryHolds
<1> QED BY <1>2, <1>3 DEF DeliveriesInv

\* Steps that leave the deliveries alone.
LEMMA DeliveriesStay ==
  ASSUME DeliveriesInv, deliveries' = deliveries, faults' \in Nat, faults' = 0 => faults = 0
  PROVE  DeliveriesInv'
BY DEF DeliveriesInv, DeliveryHolds

\* Failures are only ever counted up.
LEMMA FaultsGrow ==
  ASSUME faults \in Nat, Next \/ W!WebhookNext \/ UNCHANGED all
  PROVE  faults' \in Nat /\ (faults' = 0 => faults = 0)
<1>1. CASE Next
  <2>1. ASSUME NEW kind, NEW m, NEW t, Transaction(kind, m, t) PROVE faults' = faults
    BY <2>1 DEF Transaction
  <2>2. ASSUME NEW k, Step(k) PROVE faults' = faults
    BY <2>2 DEF Step, Read, CreateCoin, CreateRow, UpdatePaused
  <2>3. ASSUME NEW k, DbFails(k) PROVE faults' = faults + 1
    BY <2>3 DEF DbFails, Fault
  <2>4. ASSUME PollTick \/ PollNext PROVE faults' = faults
    BY <2>4 DEF PollTick, PollNext
  <2>5. ASSUME RestartIndexer PROVE faults' = faults + 1
    BY <2>5 DEF RestartIndexer, Fault
  <2>6. ASSUME NEW r, NEW op, NEW m, Ask(r, op, m) PROVE faults' = faults
    BY <2>6 DEF Ask
  <2>7. ASSUME NEW r, Send(r) PROVE faults' = faults \/ faults' = faults + 1
    BY <2>7 DEF Send, Fault
  <2>8. ASSUME NEW r, GetOrCreate(r) \/ Record(r) \/ AddTotal(r) PROVE faults' = faults
    BY <2>8 DEF GetOrCreate, Record, AddTotal
  <2>9. ASSUME NEW r, ServiceFails(r) PROVE faults' = faults + 1
    BY <2>9 DEF ServiceFails, Fault
  <2>10. faults' = faults \/ faults' = faults + 1
    BY <1>1, <2>1, <2>2, <2>3, <2>4, <2>5, <2>6, <2>7, <2>8, <2>9 DEF Next
  <2> QED BY <2>10
<1>2. CASE W!WebhookNext
  <2>1. ASSUME NEW e, NEW m, W!Subscribe(e, m) PROVE faults' = faults
    BY <2>1 DEF W!Subscribe
  <2>2. ASSUME NEW e, W!CreateHook(e) \/ W!DeleteHook(e) \/ W!Deliver PROVE faults' = faults
    BY <2>2 DEF W!CreateHook, W!DeleteHook, W!Deliver
  <2>3. ASSUME NEW e, W!Enqueue(e) PROVE faults' = faults \/ faults' = faults + 1
    BY <2>3 DEF W!Enqueue, W!Fault
  <2>4. ASSUME NEW d, W!Work(d) PROVE faults' = faults \/ faults' = faults + 1
    BY <2>4 DEF W!Work, W!Post, W!RecordDelivered, W!RecordFailed, W!Complete, W!Fault
  <2>5. ASSUME W!RestartService PROVE faults' = faults + 1
    BY <2>5 DEF W!RestartService, W!Fault
  <2>6. faults' = faults \/ faults' = faults + 1
    BY <1>2, <2>1, <2>2, <2>3, <2>4, <2>5 DEF W!WebhookNext
  <2> QED BY <2>6
<1> QED BY <1>1, <1>2 DEF all, vars

\* A delivery is made pending, its job in the queue or lost.
LEMMA EnqueueKeeps ==
  ASSUME DeliveriesInv, NEW e \in Endpoints, W!Enqueue(e),
         faults' \in Nat, faults' = 0 => faults = 0
  PROVE  DeliveriesInv'
<1>1. PICK added \in BOOLEAN :
        deliveries' = Append(deliveries,
          [hook |-> e, status |-> "PENDING", attempts |-> 0, received |-> 0,
           job |-> IF added THEN "waiting" ELSE "none", made |-> 0])
  BY DEF W!Enqueue
<1> DEFINE v == [hook |-> e, status |-> "PENDING", attempts |-> 0, received |-> 0,
                 job |-> IF added THEN "waiting" ELSE "none", made |-> 0]
<1>2. v \in Delivery /\ v.status = "PENDING" /\ v.job \in {"waiting", "none"} /\ v.made = 0
  BY DEF Delivery
<1> HIDE DEF v
<1>3. /\ deliveries' \in Seq(Delivery) /\ DOMAIN deliveries' = DOMAIN deliveries \cup {Len(deliveries) + 1}
      /\ deliveries'[Len(deliveries) + 1] = v
      /\ \A d \in DOMAIN deliveries : deliveries'[d] = deliveries[d]
  BY <1>1, <1>2 DEF DeliveriesInv, v
<1>4. ASSUME NEW d \in DOMAIN deliveries' PROVE DeliveryHolds(deliveries[d])'
  <2>1. CASE d \in DOMAIN deliveries
    <3>1. deliveries'[d] = deliveries[d]
      BY <1>3, <2>1
    <3> QED BY <2>1, <3>1 DEF DeliveryHolds, DeliveriesInv
  <2>2. CASE d = Len(deliveries) + 1
    <3>1. deliveries'[d] = v
      BY <1>3, <2>2
    <3>2. v.made # W!MAX_ATTEMPTS /\ v.made <= W!MAX_ATTEMPTS
      BY <1>2 DEF W!MAX_ATTEMPTS
    <3> QED BY <1>2, <3>1, <3>2 DEF DeliveryHolds
  <2> QED BY <1>3, <2>1, <2>2
<1> QED BY <1>3, <1>4 DEF DeliveriesInv

\* An attempt, what is written of it, and the end of a job.
LEMMA WorkKeeps ==
  ASSUME DeliveriesInv, NEW d, W!Work(d), faults' \in Nat, faults' = 0 => faults = 0
  PROVE  DeliveriesInv'
<1> DEFINE v == deliveries[d]
<1>1. d \in DOMAIN deliveries
  BY DEF W!Work, W!Post, W!RecordDelivered, W!RecordFailed, W!Complete, W!Job
<1>2. v \in Delivery /\ DeliveryHolds(v) /\ deliveries \in Seq(Delivery)
  BY <1>1 DEF DeliveriesInv
<1>3. v.received \in Nat /\ v.made \in Nat /\ v.attempts \in Nat
  BY <1>2 DEF Delivery
<1>4. \A u : W!Put(d, u) => deliveries'[d] = u
  BY <1>1, <1>2 DEF W!Put
<1>5. CASE W!Post(d)
  <2>1. PICK received \in BOOLEAN, ok \in BOOLEAN :
          /\ ok => received
          /\ W!Put(d, [v EXCEPT !.received = @ + IF received THEN 1 ELSE 0,
                                !.job = IF ok THEN "accepted" ELSE "refused"])
    BY <1>5 DEF W!Post
  <2> DEFINE n == v.received + IF received THEN 1 ELSE 0
             job == IF ok THEN "accepted" ELSE "refused"
             u == [v EXCEPT !.received = n, !.job = job]
  <2>2. n \in Nat /\ (ok => n > 0) /\ (v.received > 0 => n > 0)
    BY <1>3, <2>1
  <2>3. v.job = "waiting"
    BY <1>5 DEF W!Post, W!Job
  <2>4. job \in {"accepted", "refused"} /\ (job = "accepted" => ok)
    OBVIOUS
  <2>5. W!Put(d, u)
    BY <2>1
  <2> HIDE DEF n, job
  <2>6. /\ u \in Delivery /\ u.received = n /\ u.job = job /\ u.status = v.status /\ u.made = v.made
    BY <1>2, <2>2, <2>4 DEF Delivery
  <2> HIDE DEF u
  <2>7. DeliveryHolds(deliveries[d])'
    BY <1>2, <1>4, <2>2, <2>3, <2>4, <2>5, <2>6 DEF DeliveryHolds
  <2> QED BY <1>1, <2>5, <2>6, <2>7, DeliveryMoves
<1>6. CASE W!RecordDelivered(d)
  <2>1. v.job = "accepted"
    BY <1>6 DEF W!RecordDelivered, W!Job
  <2> DEFINE n == v.made + 1
             u == [v EXCEPT !.status = "DELIVERED", !.job = "done", !.attempts = n]
             w == [v EXCEPT !.job = "refused"]
  <2>2. u \in Delivery /\ u.received = v.received /\ u.job = "done" /\ u.status = "DELIVERED"
          /\ u.made = v.made
    <3>1. n \in Nat
      BY <1>3
    <3> HIDE DEF n
    <3> QED BY <1>2, <3>1 DEF Delivery
  <2>3. w \in Delivery /\ w.received = v.received /\ w.job = "refused" /\ w.status = v.status
          /\ w.made = v.made
    BY <1>2 DEF Delivery
  <2>4. W!Put(d, u) \/ (W!Put(d, w) /\ faults' = faults + 1)
    BY <1>6 DEF W!RecordDelivered, W!Fault
  <2> HIDE DEF u, w
  <2>5. CASE W!Put(d, u)
    <3>1. DeliveryHolds(deliveries[d])'
      BY <1>2, <1>4, <2>1, <2>2, <2>5 DEF DeliveryHolds
    <3> QED BY <1>1, <2>2, <2>5, <3>1, DeliveryMoves
  <2>6. CASE W!Put(d, w) /\ faults' = faults + 1
    <3>1. faults' # 0
      BY <2>6 DEF DeliveriesInv
    <3>2. DeliveryHolds(deliveries[d])'
      BY <1>2, <1>4, <2>1, <2>3, <2>6, <3>1 DEF DeliveryHolds
    <3> QED BY <1>1, <2>3, <2>6, <3>2, DeliveryMoves
  <2> QED BY <2>4, <2>5, <2>6
<1>7. CASE W!RecordFailed(d)
  <2>1. v.job = "refused"
    BY <1>7 DEF W!RecordFailed, W!Job
  <2> DEFINE made == v.made + 1
             job == IF made = W!MAX_ATTEMPTS THEN "failed" ELSE "waiting"
             status == IF made = W!MAX_ATTEMPTS THEN "FAILED" ELSE "RETRYING"
             w == [v EXCEPT !.made = made, !.job = job]
             u == [w EXCEPT !.attempts = made, !.status = status]
  <2>2. /\ made \in Nat /\ made <= W!MAX_ATTEMPTS
        /\ job \in {"failed", "waiting"} /\ status \in {"FAILED", "RETRYING"}
        /\ job = "failed" <=> made = W!MAX_ATTEMPTS
        /\ status = "FAILED" <=> job = "failed"
    BY <1>2, <1>3, <2>1 DEF DeliveryHolds, W!MAX_ATTEMPTS
  <2>3. W!Put(d, u) \/ (W!Put(d, w) /\ faults' = faults + 1)
    BY <1>7 DEF W!RecordFailed, W!Fault
  <2> HIDE DEF made, job, status
  <2>4. w \in Delivery /\ w.received = v.received /\ w.job = job /\ w.status = v.status
          /\ w.made = made
    BY <1>2, <2>2 DEF Delivery
  <2>5. u \in Delivery /\ u.received = v.received /\ u.job = job /\ u.status = status
          /\ u.made = made
    BY <2>2, <2>4 DEF Delivery
  <2> HIDE DEF u, w
  <2>6. CASE W!Put(d, u)
    <3>1. DeliveryHolds(deliveries[d])'
      BY <1>2, <1>4, <2>1, <2>2, <2>5, <2>6 DEF DeliveryHolds
    <3> QED BY <1>1, <2>5, <2>6, <3>1, DeliveryMoves
  <2>7. CASE W!Put(d, w) /\ faults' = faults + 1
    <3>1. faults' # 0
      BY <2>7 DEF DeliveriesInv
    <3>2. DeliveryHolds(deliveries[d])'
      BY <1>2, <1>4, <2>1, <2>2, <2>4, <2>7, <3>1 DEF DeliveryHolds
    <3> QED BY <1>1, <2>4, <2>7, <3>2, DeliveryMoves
  <2> QED BY <2>3, <2>6, <2>7
<1>8. CASE W!Complete(d)
  <2>1. v.job = "done"
    BY <1>8 DEF W!Complete, W!Job
  <2> DEFINE u == [v EXCEPT !.job = "completed"]
  <2>2. u \in Delivery /\ u.received = v.received /\ u.job = "completed" /\ u.status = v.status
          /\ u.made = v.made
    BY <1>2 DEF Delivery
  <2>3. W!Put(d, u)
    BY <1>8 DEF W!Complete
  <2> HIDE DEF u
  <2>4. DeliveryHolds(deliveries[d])'
    BY <1>2, <1>4, <2>1, <2>2, <2>3 DEF DeliveryHolds
  <2> QED BY <1>1, <2>2, <2>3, <2>4, DeliveryMoves
<1> QED BY <1>5, <1>6, <1>7, <1>8 DEF W!Work

\* A restart forgets how far its jobs were, not that their endpoints received
\* them.
LEMMA RestartKeeps ==
  ASSUME DeliveriesInv, W!RestartService, faults' \in Nat
  PROVE  DeliveriesInv'
<1>1. faults' # 0
  BY DEF W!RestartService, W!Fault, DeliveriesInv
<1>2. deliveries' = [d \in DOMAIN deliveries |->
       IF deliveries[d].job \in {"accepted", "refused", "done"}
         THEN [deliveries[d] EXCEPT !.job = "waiting"] ELSE deliveries[d]]
  BY DEF W!RestartService
<1>3. ASSUME NEW d \in DOMAIN deliveries
      PROVE  deliveries'[d] \in Delivery /\ DeliveryHolds(deliveries[d])'
  <2>1. deliveries[d] \in Delivery /\ DeliveryHolds(deliveries[d])
    BY DEF DeliveriesInv
  <2>2. CASE deliveries[d].job \in {"accepted", "refused", "done"}
    <3>1. deliveries'[d] = [deliveries[d] EXCEPT !.job = "waiting"]
      BY <1>2, <2>2
    <3>2. /\ deliveries'[d] \in Delivery /\ deliveries'[d].status = deliveries[d].status
          /\ deliveries'[d].received = deliveries[d].received /\ deliveries'[d].job = "waiting"
          /\ deliveries'[d].made = deliveries[d].made
      BY <2>1, <3>1 DEF Delivery
    <3> QED BY <1>1, <2>1, <2>2, <3>2 DEF DeliveryHolds
  <2>3. CASE deliveries[d].job \notin {"accepted", "refused", "done"}
    <3>1. deliveries'[d] = deliveries[d]
      BY <1>2, <2>3
    <3> QED BY <1>1, <2>1, <3>1 DEF DeliveryHolds
  <2> QED BY <2>2, <2>3
<1>4. DOMAIN deliveries' = 1..Len(deliveries) /\ Len(deliveries) \in Nat
  BY <1>2 DEF DeliveriesInv
<1>5. deliveries' \in Seq(Delivery)
  <2>1. deliveries' = [d \in 1..Len(deliveries) |-> deliveries'[d]]
    BY <1>2, <1>4
  <2> QED BY <1>3, <1>4, <2>1 DEF DeliveriesInv
<1> QED BY <1>2, <1>3, <1>5 DEF DeliveriesInv

\* The deliveries' invariant holds in every state.
THEOREM DeliveriesInvariance == ServicesSpec => []DeliveriesInv
<1>1. ServicesInit => DeliveriesInv
  <2> SUFFICES ASSUME faults = 0, deliveries = <<>> PROVE DeliveriesInv
    BY DEF ServicesInit, Init, W!InitOwn
  <2>1. DOMAIN deliveries = {} /\ deliveries \in Seq(Delivery)
    OBVIOUS
  <2> QED BY <2>1 DEF DeliveriesInv
<1>2. DeliveriesInv /\ [ServicesNext]_all => DeliveriesInv'
  <2> SUFFICES ASSUME DeliveriesInv, [ServicesNext]_all PROVE DeliveriesInv'
    OBVIOUS
  <2>1. faults' \in Nat /\ (faults' = 0 => faults = 0)
    BY FaultsGrow DEF ServicesNext, DeliveriesInv
  <2>2. CASE deliveries' = deliveries
    BY <2>1, <2>2, DeliveriesStay
  <2>3. CASE W!WebhookNext
    <3>1. ASSUME NEW e \in Endpoints, W!Enqueue(e) PROVE DeliveriesInv'
      BY <2>1, <3>1, EnqueueKeeps
    <3>2. ASSUME NEW e, NEW m, W!Subscribe(e, m) PROVE deliveries' = deliveries
      BY <3>2 DEF W!Subscribe
    <3>3. ASSUME NEW e, W!CreateHook(e) \/ W!DeleteHook(e) \/ W!Deliver PROVE deliveries' = deliveries
      BY <3>3 DEF W!CreateHook, W!DeleteHook, W!Deliver
    <3>4. ASSUME NEW d, W!Work(d) PROVE DeliveriesInv'
      BY <2>1, <3>4, WorkKeeps
    <3>5. ASSUME W!RestartService PROVE DeliveriesInv'
      BY <2>1, <3>5, RestartKeeps
    <3> QED BY <2>2, <2>3, <3>1, <3>2, <3>3, <3>4, <3>5 DEF W!WebhookNext
  <2> QED BY <2>2, <2>3 DEF ServicesNext, all, own
<1> QED BY <1>1, <1>2, PTL DEF ServicesSpec

\* What a delivery's status says is so: delivered means received, and while
\* nothing failed it follows the job.
THEOREM StatusIsTold == ServicesSpec => []StatusTells
<1>1. DeliveriesInv => StatusTells
  BY DEF DeliveriesInv, DeliveryHolds, StatusTells, W!StatusTells
<1> QED BY <1>1, DeliveriesInvariance, PTL

-----------------------------------------------------------------------------
(* The tables: what the steps have in common.                              *)

\* No stablecoin goes and no total changes.
CoinsKept ==
  /\ coins' \in [Mints -> CoinType]
  /\ \A m \in Mints : /\ coins'[m].minted = coins[m].minted /\ coins'[m].burned = coins[m].burned
                      /\ coins[m].exists => coins'[m].exists

LedgerKept == \A s \in DOMAIN ledger : s \in DOMAIN ledger' /\ ledger'[s] = ledger[s]

\* What is unchanged is kept.
LEMMA Unchanged ==
  /\ coins' = coins /\ Types => CoinsKept
  /\ ledger' = ledger => LedgerKept
BY DEF Types, CoinsKept, LedgerKept

\* A stablecoin that is created has no totals yet, and none had been counted.
LEMMA CoinCreated ==
  ASSUME Types, TotalsHold, NEW m \in Mints, ~coins[m].exists,
         coins' = [coins EXCEPT ![m] = NewCoin]
  PROVE  CoinsKept
<1>1. NewCoin \in CoinType /\ NewCoin.minted = 0 /\ NewCoin.burned = 0 /\ NewCoin.exists
  BY DEF NewCoin, NoCoin, CoinType
<1> QED BY <1>1 DEF Types, TotalsHold, CoinsKept

\* The totals hold on where what is counted stays.
LEMMA TotalsKept ==
  ASSUME TotalsHold, CoinsKept,
         \A op \in {"mint", "burn"}, m \in Mints : Counted(op, m)' = Counted(op, m)
  PROVE  TotalsHold'
<1> SUFFICES ASSUME NEW m \in Mints
             PROVE  /\ coins'[m].minted = Cardinality(Counted("mint", m)')
                    /\ coins'[m].burned = Cardinality(Counted("burn", m)')
                    /\ ~coins'[m].exists => coins'[m].minted = 0 /\ coins'[m].burned = 0
  BY DEF TotalsHold
<1> QED BY DEF TotalsHold, CoinsKept

\* The table after a row was added.
LEMMA RowAdded ==
  ASSUME Types, RowsHold, NEW row \in RowType, rows' = Append(rows, row),
         row.sig \in DOMAIN ledger, ~InTable({row.table}, row.sig), UNCHANGED ledger
  PROVE  /\ RowsHold' /\ rows' \in Seq(RowType)
         /\ DOMAIN rows' = DOMAIN rows \cup {Len(rows) + 1} /\ Len(rows) + 1 \notin DOMAIN rows
         /\ rows'[Len(rows) + 1] = row /\ \A i \in DOMAIN rows : rows'[i] = rows[i]
<1> DEFINE n == Len(rows) + 1
<1>1. /\ rows' \in Seq(RowType) /\ DOMAIN rows' = DOMAIN rows \cup {n} /\ n \notin DOMAIN rows
      /\ rows'[n] = row /\ \A i \in DOMAIN rows : rows'[i] = rows[i]
  BY DEF Types
<1> HIDE DEF n
<1>2. \A i \in DOMAIN rows : rows[i].table = row.table => rows[i].sig # row.sig
  BY DEF InTable
<1>3. \A i \in DOMAIN rows' : rows'[i].sig \in DOMAIN ledger'
  BY <1>1 DEF RowsHold
<1>4. ASSUME NEW i \in DOMAIN rows', NEW j \in DOMAIN rows',
             rows'[i].table = rows'[j].table, rows'[i].sig = rows'[j].sig
      PROVE  i = j
  <2>1. CASE i \in DOMAIN rows /\ j \in DOMAIN rows
    BY <1>1, <1>4, <2>1 DEF RowsHold
  <2>2. CASE i = n \/ j = n
    BY <1>1, <1>2, <1>4, <2>2
  <2> QED BY <1>1, <2>1, <2>2
<1>5. RowsHold'
  BY <1>3, <1>4 DEF RowsHold
<1> QED BY <1>1, <1>5 DEF n

\* Where the requests stay, no amount comes or goes.
LEMMA RequestsStay ==
  ASSUME TablesInv, UNCHANGED requests, LedgerKept, CoinsKept,
         \A i \in DOMAIN rows : i \in DOMAIN rows' /\ rows'[i] = rows[i],
         \A i \in DOMAIN rows' : i \in DOMAIN rows \/ rows'[i].amount = 0
  PROVE  RequestsHold' /\ TotalsHold'
<1>1. ASSUME NEW q PROVE Recorded(q)' = Recorded(q)
  BY DEF Recorded
<1>2. ASSUME NEW op, NEW m PROVE Amounts(op, m)' = Amounts(op, m)
  BY DEF Amounts
<1>3. ASSUME NEW r \in Requests PROVE RequestHolds(requests[r])'
  <2> DEFINE q == requests[r]
  <2>1. RequestHolds(q)
    BY DEF TablesInv, RequestsHold
  <2>2. Recorded(q)' = Recorded(q) /\ Amounts(q.op, q.mint)' = Amounts(q.op, q.mint) /\ q' = q
    BY DEF Recorded, Amounts
  <2>3. q.at \in {"row", "total"} => coins'[q.mint].exists
    BY <2>1 DEF RequestHolds, CoinsKept
  <2>4. \A s \in q.sigs : s \in DOMAIN ledger' /\ ledger'[s].mint = q.mint
    BY <2>1 DEF RequestHolds, LedgerKept
  <2> HIDE DEF q
  <2> QED BY <2>1, <2>2, <2>3, <2>4 DEF RequestHolds, q
<1>4. ASSUME NEW op, NEW m PROVE Counted(op, m)' = Counted(op, m)
  <2>1. Amounts(op, m)' = Amounts(op, m) /\ Amounts(op, m) \subseteq DOMAIN rows
    BY <1>2 DEF Amounts
  <2>2. HalfDone(op, m)' = HalfDone(op, m)
    BY <2>1 DEF HalfDone
  <2> QED BY <2>1, <2>2 DEF Counted
<1>5. TotalsHold'
  BY <1>4, TotalsKept DEF TablesInv
<1> QED BY <1>3, <1>5 DEF TablesInv, RequestsHold

\* Where a request moves, the others keep what is theirs; and what is counted
\* stays, unless it has recorded an amount and was not, or is no longer, half
\* done.
LEMMA RequestMoves ==
  ASSUME TablesInv, NEW r \in Requests, NEW q \in RequestType,
         requests' = [requests EXCEPT ![r] = q], UNCHANGED rows, LedgerKept, CoinsKept,
         requests[r].sigs \subseteq q.sigs,
         \A s \in q.sigs : s \in requests[r].sigs \/ s \notin DOMAIN ledger,
         RequestHolds(requests[r])',
         \/ Recorded(requests[r]) = {}
         \/ q.at \in {"total", "error"} <=> requests[r].at \in {"total", "error"}
  PROVE  RequestsHold' /\ TotalsHold'
<1>1. /\ requests'[r] = q /\ \A p \in Requests \ {r} : requests'[p] = requests[p]
  BY DEF TablesInv, Types
<1>2. ASSUME NEW p \in Requests \ {r} PROVE RequestHolds(requests[p])'
  <2> DEFINE z == requests[p]
  <2>1. RequestHolds(z) /\ z' = z
    BY <1>1 DEF TablesInv, RequestsHold
  <2>2. Recorded(z)' = Recorded(z) /\ Amounts(z.op, z.mint)' = Amounts(z.op, z.mint)
    BY <2>1 DEF Recorded, Amounts
  <2>3. z.at \in {"row", "total"} => coins'[z.mint].exists
    BY <2>1 DEF RequestHolds, CoinsKept
  <2>4. \A s \in z.sigs : s \in DOMAIN ledger' /\ ledger'[s].mint = z.mint
    BY <2>1 DEF RequestHolds, LedgerKept
  <2> HIDE DEF z
  <2> QED BY <2>1, <2>2, <2>3, <2>4 DEF RequestHolds, z
<1>3. ASSUME NEW p \in Requests, NEW z \in Requests, p # z
      PROVE  requests'[p].sigs \cap requests'[z].sigs = {}
  <2>1. \A y \in Requests : requests[y].sigs \subseteq DOMAIN ledger
    BY DEF TablesInv, RequestsHold, RequestHolds
  <2>2. requests[p].sigs \cap requests[z].sigs = {}
    BY <1>3 DEF TablesInv, RequestsHold
  <2>3. CASE p # r /\ z # r
    BY <1>1, <2>2, <2>3
  <2>4. CASE p = r
    BY <1>1, <1>3, <2>1, <2>2, <2>4
  <2>5. CASE z = r
    BY <1>1, <1>3, <2>1, <2>2, <2>5
  <2> QED BY <2>3, <2>4, <2>5
<1>4. ASSUME NEW op, NEW m PROVE Counted(op, m)' = Counted(op, m)
  <2>1. Amounts(op, m)' = Amounts(op, m)
    BY DEF Amounts
  <2>2. ASSUME NEW i \in Amounts(op, m)
        PROVE  rows[i].sig \in q.sigs <=> rows[i].sig \in requests[r].sigs
    BY DEF Amounts, TablesInv, RowsHold
  <2>3. ASSUME NEW i \in Amounts(op, m), rows[i].sig \in requests[r].sigs
        PROVE  q.at \in {"total", "error"} <=> requests[r].at \in {"total", "error"}
    BY <2>3 DEF Recorded, Amounts
  <2>4. ASSUME NEW i \in Amounts(op, m), NEW p \in Requests
        PROVE  (requests'[p].at \in {"total", "error"} /\ rows[i].sig \in requests'[p].sigs)
                 <=> (requests[p].at \in {"total", "error"} /\ rows[i].sig \in requests[p].sigs)
    <3>1. CASE p = r
      BY <1>1, <2>2, <2>3, <3>1
    <3>2. CASE p # r
      BY <1>1, <3>2
    <3> QED BY <3>1, <3>2
  <2>5. HalfDone(op, m)' = HalfDone(op, m)
    BY <2>1, <2>4 DEF HalfDone
  <2> QED BY <2>1, <2>5 DEF Counted
<1>5. TotalsHold'
  BY <1>4, TotalsKept DEF TablesInv
<1>6. \A p \in Requests : RequestHolds(requests[p])'
  BY <1>2
<1> QED BY <1>3, <1>5, <1>6 DEF RequestsHold

-----------------------------------------------------------------------------
(* The tables: handlers.                                                   *)

\* Where one handler moves, the others keep what they work on.
LEMMA HandlerMoves ==
  ASSUME HandlersHold, NEW k \in 0..MaxTxs, NEW h, handlers' = [handlers EXCEPT ![k] = h],
         HandlerHolds(k, h), UNCHANGED ledger,
         \A i \in DOMAIN tick' : tick'[i] \in DOMAIN ledger
  PROVE  HandlersHold'
<1>1. /\ handlers' = [l \in 0..MaxTxs |-> handlers'[l]] /\ handlers'[k] = h
      /\ \A l \in 0..MaxTxs \ {k} : handlers'[l] = handlers[l]
  BY DEF HandlersHold
<1>2. ASSUME NEW l \in 0..MaxTxs PROVE HandlerHolds(l, handlers[l])'
  <2>1. CASE l = k
    <3>1. HandlerHolds(k, h)'
      BY DEF HandlerHolds
    <3> QED BY <1>1, <2>1 DEF HandlerHolds
  <2>2. CASE l # k
    BY <1>1, <2>2 DEF HandlersHold, HandlerHolds
  <2> QED BY <2>1, <2>2
<1> QED BY <1>1, <1>2 DEF HandlersHold

\* A handler goes on to another await or event, or is left by an exception.
LEMMA HandlerSteps ==
  ASSUME Types, HandlersHold, NEW k \in 0..MaxTxs, handlers[k].at # "idle", UNCHANGED ledger,
         \/ (NextEvent(k) \/ \E at \in HandlerAts : Goto(k, at)) /\ UNCHANGED tick
         \/ Throw(k)
  PROVE  HandlersHold' /\ tick' \in Seq(Nat)
<1> DEFINE h == handlers[k]
<1>1. DOMAIN h = {"at", "sig", "events"}
  BY DEF HandlersHold, HandlerHolds
<1>2. HandlerHolds(k, h) /\ handlers = [l \in 0..MaxTxs |-> handlers[l]]
  BY DEF HandlersHold
<1>3. HandlerHolds(k, Idle)
  BY DEF HandlerHolds, Idle, HandlerAts
<1>4. tick' = tick \/ tick' = <<>>
  BY DEF Throw
<1>5. tick' \in Seq(Nat) /\ \A i \in DOMAIN tick' : tick'[i] \in DOMAIN ledger
  <2>1. CASE tick' = tick
    BY <2>1 DEF Types, HandlersHold
  <2>2. CASE tick' = <<>>
    BY <2>2
  <2> QED BY <1>4, <2>1, <2>2
<1>6. \E g : handlers' = [handlers EXCEPT ![k] = g] /\ HandlerHolds(k, g)
  <2>1. CASE Throw(k)
    BY <1>3, <2>1 DEF Throw
  <2>2. CASE NextEvent(k)
    <3> DEFINE rest == Tail(h.events)
               g == [h EXCEPT !.at = "read", !.events = rest]
    <3>1. g.at = "read" /\ g.sig = h.sig /\ DOMAIN g = {"at", "sig", "events"}
      <4> HIDE DEF rest
      <4> QED BY <1>1
    <3>2. HandlerHolds(k, g)
      <4> HIDE DEF g
      <4> QED BY <1>2, <3>1 DEF HandlerHolds, HandlerAts
    <3>3. handlers' = [handlers EXCEPT ![k] = IF Len(h.events) = 1 THEN Idle ELSE g]
      BY <2>2, Zenon DEF NextEvent
    <3> HIDE DEF g
    <3> QED BY <1>3, <3>2, <3>3
  <2>3. ASSUME NEW at \in HandlerAts, Goto(k, at)
        PROVE  \E g : handlers' = [handlers EXCEPT ![k] = g] /\ HandlerHolds(k, g)
    <3> DEFINE g == [h EXCEPT !.at = at]
    <3>1. g.at = at /\ g.sig = h.sig /\ DOMAIN g = {"at", "sig", "events"}
      BY <1>1
    <3>2. HandlerHolds(k, g)
      <4> HIDE DEF g
      <4> QED BY <1>2, <3>1 DEF HandlerHolds
    <3>3. handlers' = [handlers EXCEPT ![k] = g]
      BY <2>3 DEF Goto
    <3> QED BY <3>2, <3>3
  <2> QED BY <2>1, <2>2, <2>3
<1> QED BY <1>5, <1>6, HandlerMoves

\* A transaction is the newest of the ledger, and its callback may start.
LEMMA ConfirmKeeps ==
  ASSUME Types, HandlersHold, RowsHold, NEW kind \in Kinds \cup {"mint", "burn"},
         NEW m \in Mints, NEW t \in Wallets \cup {Unset}, Confirm(kind, m, t),
         UNCHANGED <<tick, rows>>
  PROVE  /\ ledger' \in Seq(TxType) /\ LedgerKept /\ HandlersHold' /\ RowsHold'
         /\ Len(ledger) + 1 \notin DOMAIN ledger /\ Len(ledger) + 1 \in DOMAIN ledger'
         /\ ledger'[Len(ledger) + 1].mint = m
         /\ \A s \in DOMAIN ledger : s < Len(ledger) + 1
         /\ Len(ledger) + 1 \in Nat
<1> DEFINE sig == Len(ledger) + 1
           tx == [kind |-> kind, mint |-> m, target |-> t]
<1>1. tx \in TxType /\ tx.mint = m
  BY DEF TxType
<1>2. sig \in 1..MaxTxs /\ sig \in Nat /\ ledger' = Append(ledger, tx)
  <2>1. ledger \in Seq(TxType)
    BY DEF Types
  <2>2. Len(ledger) \in Nat
    BY <2>1
  <2>3. MaxTxs \in Nat
    BY IndexerAssumption DEF IndexerAssumption
  <2>4. sig <= MaxTxs /\ ledger' = Append(ledger, tx)
    BY DEF Confirm
  <2> HIDE DEF tx
  <2> QED BY <2>2, <2>3, <2>4
<1> HIDE DEF tx
<1>3. /\ ledger' \in Seq(TxType) /\ sig \notin DOMAIN ledger /\ sig \in DOMAIN ledger'
      /\ ledger'[sig] = tx /\ \A s \in DOMAIN ledger : s < sig
      /\ LedgerKept
  <2>0. ledger \in Seq(TxType)
    BY DEF Types
  <2>1. /\ ledger' \in Seq(TxType) /\ ledger'[sig] = tx
        /\ DOMAIN ledger = 1..Len(ledger) /\ DOMAIN ledger' = 1..sig
        /\ \A s \in DOMAIN ledger : ledger'[s] = ledger[s]
    BY <1>1, <1>2, <2>0
  <2> QED BY <1>2, <2>1 DEF LedgerKept
<1> DEFINE h == Handle(sig, kind)
<1>4. handlers' = handlers \/ handlers' = [handlers EXCEPT ![sig] = h]
  BY DEF Confirm
<1>5. DOMAIN h = {"at", "sig", "events"} /\ h.at \in HandlerAts /\ (h.at # "idle" => h.sig = sig)
  BY DEF Handle, Idle, HandlerAts
<1> HIDE DEF sig, h
<1>6. handlers' = [k \in 0..MaxTxs |-> handlers'[k]]
  BY <1>4 DEF HandlersHold
<1>7. ASSUME NEW k \in 0..MaxTxs PROVE HandlerHolds(k, handlers[k])'
  <2>1. CASE handlers'[k] = handlers[k]
    BY <1>3, <2>1 DEF HandlersHold, HandlerHolds, LedgerKept
  <2>2. CASE handlers'[k] = h /\ k = sig
    BY <1>3, <1>5, <2>2 DEF HandlerHolds
  <2> QED BY <1>2, <1>4, <2>1, <2>2 DEF HandlersHold
<1>8. \A i \in DOMAIN tick' : tick'[i] \in DOMAIN ledger'
  BY <1>3 DEF HandlersHold, LedgerKept
<1>9. HandlersHold'
  BY <1>6, <1>7, <1>8 DEF HandlersHold
<1>10. RowsHold'
  BY <1>3 DEF RowsHold, LedgerKept
<1> QED BY <1>1, <1>2, <1>3, <1>9, <1>10 DEF sig

\* Anyone's transaction.
LEMMA TransactionKeeps ==
  ASSUME TablesInv, NEW kind \in Kinds, NEW m \in Mints, NEW t \in Wallets,
         Transaction(kind, m, t)
  PROVE  TablesInv'
<1>1. Confirm(kind, m, t) /\ UNCHANGED <<rows, coins, tick, requests, faults>>
  BY DEF Transaction
<1>2. ledger' \in Seq(TxType) /\ LedgerKept /\ HandlersHold' /\ RowsHold'
  BY <1>1, ConfirmKeeps DEF TablesInv
<1>3. CoinsKept
  BY <1>1, Unchanged DEF TablesInv
<1>4. RequestsHold' /\ TotalsHold'
  BY <1>1, <1>2, <1>3, RequestsStay DEF Types
<1>5. Types'
  BY <1>1, <1>2 DEF TablesInv, Types
<1> QED BY <1>2, <1>4, <1>5 DEF TablesInv

\* Steps of a handler that leave the rows alone.
LEMMA HandlerKeeps ==
  ASSUME TablesInv, NEW k \in 0..MaxTxs, Busy(k, "read") \/ Busy(k, "coin") \/ Busy(k, "update"),
         Read(k) \/ CreateCoin(k) \/ UpdatePaused(k)
  PROVE  TablesInv'
<1>1. handlers[k].at # "idle" /\ UNCHANGED <<ledger, rows, requests, faults>>
  BY DEF Busy, Read, CreateCoin, UpdatePaused
<1>2. \/ (NextEvent(k) \/ \E at \in HandlerAts : Goto(k, at)) /\ UNCHANGED tick
      \/ Throw(k)
  BY DEF Read, CreateCoin, UpdatePaused, HandlerAts
<1>3. HandlersHold' /\ tick' \in Seq(Nat)
  BY <1>1, <1>2, HandlerSteps DEF TablesInv
<1>4. Coin(k) \in Mints
  <2>1. handlers[k].sig \in DOMAIN ledger
    BY <1>1 DEF TablesInv, HandlersHold, HandlerHolds
  <2>2. ledger[handlers[k].sig] \in TxType
    BY <2>1 DEF TablesInv, Types
  <2> QED BY <2>2 DEF Coin, TxType
<1>5. CoinsKept
  <2>1. CASE coins' = coins
    BY <2>1, Unchanged DEF TablesInv
  <2>2. CASE ~coins[Coin(k)].exists /\ coins' = [coins EXCEPT ![Coin(k)] = NewCoin]
    BY <1>4, <2>2, CoinCreated DEF TablesInv
  <2>3. CASE UpdatePaused(k)
    <3> DEFINE paused == Event(k).name = "TokenPaused"
               coin == [coins[Coin(k)] EXCEPT !.paused = paused]
    <3>1. coins' = [coins EXCEPT ![Coin(k)] = coin]
      BY <2>3 DEF UpdatePaused
    <3>2. paused \in BOOLEAN
      OBVIOUS
    <3>3. coins \in [Mints -> CoinType] /\ coins[Coin(k)] \in CoinType
      BY <1>4 DEF TablesInv, Types
    <3> HIDE DEF paused
    <3>4. /\ coin \in CoinType /\ coin.minted = coins[Coin(k)].minted
          /\ coin.burned = coins[Coin(k)].burned /\ coin.exists = coins[Coin(k)].exists
      BY <3>2, <3>3 DEF CoinType
    <3> HIDE DEF coin
    <3> QED BY <3>1, <3>3, <3>4 DEF CoinsKept
  <2> QED BY <2>1, <2>2, <2>3 DEF Read, CreateCoin
<1>6. RequestsHold' /\ TotalsHold'
  BY <1>1, <1>5, Unchanged, RequestsStay DEF TablesInv, Types
<1>7. RowsHold'
  BY <1>1 DEF TablesInv, RowsHold
<1>8. Types'
  BY <1>1, <1>3, <1>5 DEF TablesInv, Types, CoinsKept
<1> QED BY <1>3, <1>6, <1>7, <1>8 DEF TablesInv

\* A handler adds a row of its own table, with no amount.
LEMMA CreateRowKeeps ==
  ASSUME TablesInv, NEW k \in 0..MaxTxs, CreateRow(k)
  PROVE  TablesInv'
<1> DEFINE name == Event(k).name
           sig == handlers[k].sig
           row == Row(RowOf[name][1], RowOf[name][2], sig, 0)
<1>1. handlers[k].at # "idle" /\ UNCHANGED <<ledger, coins, requests, faults>>
  BY DEF CreateRow, Busy
<1>2. \/ (NextEvent(k) \/ \E at \in HandlerAts : Goto(k, at)) /\ UNCHANGED tick
      \/ Throw(k)
  BY DEF CreateRow, HandlerAts
<1>3. HandlersHold' /\ tick' \in Seq(Nat)
  BY <1>1, <1>2, HandlerSteps DEF TablesInv
<1>4. \/ rows' = rows
      \/ name \in DOMAIN RowOf /\ ~InTable({RowOf[name][1]}, sig) /\ rows' = Append(rows, row)
  BY DEF CreateRow
<1>5. CoinsKept /\ LedgerKept
  BY <1>1, Unchanged DEF TablesInv
<1>6. CASE rows' = rows
  <2>1. RequestsHold' /\ TotalsHold'
    BY <1>1, <1>5, <1>6, RequestsStay DEF TablesInv, Types
  <2>2. RowsHold'
    BY <1>1, <1>6 DEF TablesInv, RowsHold
  <2>3. Types'
    BY <1>1, <1>3, <1>6 DEF TablesInv, Types
  <2> QED BY <1>3, <2>1, <2>2, <2>3 DEF TablesInv
<1>7. CASE name \in DOMAIN RowOf /\ ~InTable({RowOf[name][1]}, sig) /\ rows' = Append(rows, row)
  <2>1. sig \in DOMAIN ledger /\ ledger[sig] \in TxType /\ sig \in Nat
    BY <1>1 DEF TablesInv, HandlersHold, HandlerHolds, Types
  <2>2. RowOf[name][1] \in Tables /\ RowOf[name][2] \in RowTypes
    BY <1>7 DEF Tables, RowTypes
  <2>3. row \in RowType /\ row.table = RowOf[name][1] /\ row.sig = sig /\ row.amount = 0
    <3> DEFINE table == RowOf[name][1]
               type == RowOf[name][2]
    <3>1. row = [table |-> table, type |-> type, sig |-> sig, mint |-> ledger[sig].mint,
                 target |-> ledger[sig].target, amount |-> 0]
      BY DEF Row
    <3>2. ledger[sig].mint \in Mints /\ ledger[sig].target \in Wallets \cup {Unset}
      BY <2>1 DEF TxType
    <3> HIDE DEF row, table, type, sig
    <3> QED BY <2>1, <2>2, <3>1, <3>2 DEF RowType, table, type
  <2> HIDE DEF row
  <2>4. /\ RowsHold' /\ rows' \in Seq(RowType)
        /\ DOMAIN rows' = DOMAIN rows \cup {Len(rows) + 1}
        /\ rows'[Len(rows) + 1] = row /\ \A i \in DOMAIN rows : rows'[i] = rows[i]
    BY <1>1, <1>7, <2>1, <2>3, RowAdded DEF TablesInv
  <2>5. RequestsHold' /\ TotalsHold'
    BY <1>1, <1>5, <2>3, <2>4, RequestsStay
  <2>6. Types'
    BY <1>1, <1>3, <2>4 DEF TablesInv, Types
  <2> QED BY <1>3, <2>4, <2>5, <2>6 DEF TablesInv
<1> QED BY <1>4, <1>6, <1>7

\* The steps that touch only the indexer's memory.
LEMMA MemoryKeeps ==
  ASSUME TablesInv, UNCHANGED <<ledger, rows, coins, requests>>, HandlersHold',
         tick' \in Seq(Nat), faults' \in Nat
  PROVE  TablesInv'
<1>1. RequestsHold' /\ TotalsHold'
  BY Unchanged, RequestsStay DEF TablesInv, Types
<1>2. RowsHold'
  BY DEF TablesInv, RowsHold
<1>3. Types'
  BY DEF TablesInv, Types
<1> QED BY <1>1, <1>2, <1>3 DEF TablesInv

\* Handlers and polls that fail, and a poll that looks at the next signature.
LEMMA PollKeeps ==
  ASSUME TablesInv, faults' \in Nat,
         PollTick \/ PollNext \/ RestartIndexer \/ \E k \in 0..MaxTxs : DbFails(k)
  PROVE  TablesInv'
<1>1. CASE PollTick
  <2> DEFINE oldest == IF Len(ledger) > PollLimit THEN Len(ledger) - PollLimit + 1 ELSE 1
             n == Len(ledger) - oldest + 1
             sigs == [i \in 1..n |-> oldest + i - 1]
  <2>1. /\ Len(ledger) \in Nat /\ Len(ledger) > 0 /\ DOMAIN ledger = 1..Len(ledger)
    BY <1>1 DEF PollTick, TablesInv, Types
  <2>2. oldest \in Nat /\ oldest >= 1 /\ n \in Nat /\ oldest + n - 1 = Len(ledger)
    BY <2>1, IndexerAssumption DEF IndexerAssumption
  <2>3. tick' = Reverse(sigs)
    BY <1>1 DEF PollTick
  <2> HIDE DEF oldest, n
  <2>4. sigs \in Seq(Nat) /\ Len(sigs) = n /\ \A i \in 1..n : sigs[i] \in 1..Len(ledger)
    BY <2>1, <2>2
  <2> HIDE DEF sigs
  <2>5. tick' = [i \in 1..n |-> sigs[n - i + 1]]
    BY <2>3, <2>4 DEF Reverse
  <2>6. \A i \in 1..n : n - i + 1 \in 1..n
    BY <2>2
  <2>7. tick' \in Seq(Nat) /\ DOMAIN tick' = 1..n /\ \A i \in 1..n : tick'[i] \in DOMAIN ledger
    BY <2>1, <2>2, <2>4, <2>5, <2>6
  <2>8. UNCHANGED <<ledger, rows, coins, handlers, requests>>
    BY <1>1 DEF PollTick
  <2>9. HandlersHold'
    BY <2>7, <2>8 DEF TablesInv, HandlersHold, HandlerHolds
  <2> QED BY <2>7, <2>8, <2>9, MemoryKeeps
<1>2. CASE PollNext
  <2> DEFINE sig == Head(tick)
             h == Handle(sig, ledger[sig].kind)
  <2>1. tick \in Seq(Nat) /\ tick # <<>> /\ tick' = Tail(tick) /\ 0 \in 0..MaxTxs
    BY <1>2, IndexerAssumption DEF PollNext, TablesInv, Types, IndexerAssumption
  <2>2. sig \in DOMAIN ledger
    BY <2>1 DEF TablesInv, HandlersHold
  <2>3. tick' \in Seq(Nat) /\ \A i \in DOMAIN tick' : tick'[i] \in DOMAIN ledger
    BY <2>1 DEF TablesInv, HandlersHold
  <2>4. UNCHANGED <<ledger, rows, coins, requests>>
    BY <1>2 DEF PollNext
  <2>5. handlers' = handlers \/ handlers' = [handlers EXCEPT ![0] = h]
    BY <1>2 DEF PollNext, Poll
  <2>6. HandlerHolds(0, h)
    BY <2>2 DEF Handle, Idle, HandlerHolds, HandlerAts, Poll
  <2> HIDE DEF h, sig
  <2>7. CASE handlers' = handlers
    <3>1. HandlersHold'
      BY <2>3, <2>4, <2>7 DEF TablesInv, HandlersHold, HandlerHolds
    <3> QED BY <2>3, <2>4, <3>1, MemoryKeeps
  <2>8. CASE handlers' = [handlers EXCEPT ![0] = h]
    <3>1. HandlersHold'
      BY <2>1, <2>3, <2>4, <2>6, <2>8, HandlerMoves DEF TablesInv
    <3> QED BY <2>3, <2>4, <3>1, MemoryKeeps
  <2> QED BY <2>5, <2>7, <2>8
<1>3. CASE RestartIndexer
  <2>1. /\ handlers' = [k \in 0..MaxTxs |-> Idle] /\ tick' = <<>>
        /\ UNCHANGED <<ledger, rows, coins, requests>>
    BY <1>3 DEF RestartIndexer
  <2>2. tick' \in Seq(Nat) /\ DOMAIN tick' = {}
    BY <2>1
  <2>3. HandlersHold'
    BY <2>1, <2>2 DEF HandlersHold, HandlerHolds, Idle, HandlerAts
  <2> QED BY <2>1, <2>2, <2>3, MemoryKeeps
<1>4. ASSUME NEW k \in 0..MaxTxs, DbFails(k) PROVE TablesInv'
  <2>1. handlers[k].at # "idle" /\ Throw(k) /\ UNCHANGED <<ledger, rows, coins, requests>>
    BY <1>4 DEF DbFails
  <2>2. HandlersHold' /\ tick' \in Seq(Nat)
    BY <2>1, HandlerSteps DEF TablesInv
  <2> QED BY <2>1, <2>2, MemoryKeeps
<1> QED BY <1>1, <1>2, <1>3, <1>4

-----------------------------------------------------------------------------
(* The tables: the mint service.                                           *)

\* A request that only waits for something else, or gives up, having recorded
\* nothing or being half done already.
LEMMA MoveKeeps ==
  ASSUME TablesInv, NEW r \in Requests, NEW at, Move(r, at),
         at \in {"send", "coin", "create", "row", "error"},
         requests[r].at \in {"coin", "create", "row", "total"},
         at \in {"coin", "create", "row"} => requests[r].at \in {"coin", "create"},
         at # "send",
         at = "row" => coins'[requests[r].mint].exists,
         UNCHANGED <<ledger, rows, handlers, tick>>, CoinsKept, faults' \in Nat
  PROVE  TablesInv'
<1> DEFINE q == requests[r]
           z == [q EXCEPT !.at = at]
<1>1. q \in RequestType /\ RequestHolds(q) /\ requests \in [Requests -> RequestType]
  BY DEF TablesInv, Types, RequestsHold
<1>2. requests' = [requests EXCEPT ![r] = z]
  BY DEF Move
<1>3. z \in RequestType /\ z.at = at /\ z.op = q.op /\ z.mint = q.mint /\ z.sigs = q.sigs
  BY <1>1 DEF RequestType
<1> HIDE DEF z
<1>4. requests'[r] = z /\ requests' \in [Requests -> RequestType]
  BY <1>1, <1>2, <1>3
<1>5. LedgerKept
  BY Unchanged
<1>6. Recorded(requests[r])' = Recorded(q)
  BY <1>3, <1>4 DEF Recorded
<1>7. q.at # "total" => Recorded(q) = {}
  BY <1>1 DEF RequestHolds
<1>8. RequestHolds(requests[r])'
  <2>1. /\ z.at # "new" /\ z.mint \in Mints /\ z.sigs # {}
        /\ \A s \in z.sigs : s \in DOMAIN ledger' /\ ledger'[s].mint = z.mint
        /\ \E s \in z.sigs : \A t \in z.sigs : t <= s
    BY <1>1, <1>3, <1>5 DEF RequestHolds, LedgerKept
  <2>2. \A i, j \in Recorded(q) : i = j
    BY <1>1 DEF RequestHolds
  <2>3. z.at \in {"new", "send", "coin", "create", "row"} => Recorded(q) = {}
    BY <1>3, <1>7
  <2>4. z.at # "total" /\ (z.at = "row" => coins'[z.mint].exists)
    BY <1>3
  <2> QED BY <1>4, <1>6, <2>1, <2>2, <2>3, <2>4 DEF RequestHolds
<1>9. Recorded(q) = {} \/ (z.at \in {"total", "error"} <=> q.at \in {"total", "error"})
  <2>1. CASE q.at = "total"
    BY <1>3, <2>1
  <2>2. CASE q.at # "total"
    BY <1>7, <2>2
  <2> QED BY <2>1, <2>2
<1>10. RequestsHold' /\ TotalsHold'
  BY <1>2, <1>3, <1>5, <1>8, <1>9, RequestMoves
<1>11. HandlersHold' /\ RowsHold'
  BY DEF TablesInv, HandlersHold, HandlerHolds, RowsHold
<1>12. Types'
  BY <1>4 DEF TablesInv, Types, CoinsKept
<1> QED BY <1>10, <1>11, <1>12 DEF TablesInv

\* A request comes in.
LEMMA AskKeeps ==
  ASSUME TablesInv, NEW r \in Requests, NEW op \in {"mint", "burn"}, NEW m \in Mints, Ask(r, op, m)
  PROVE  TablesInv'
<1> DEFINE q == requests[r]
           z == [q EXCEPT !.at = "send", !.op = op, !.mint = m]
<1>1. /\ q \in RequestType /\ RequestHolds(q) /\ requests \in [Requests -> RequestType]
      /\ q.at = "new" /\ q.sigs = {}
  BY DEF TablesInv, Types, RequestsHold, RequestHolds, Ask
<1>2. requests' = [requests EXCEPT ![r] = z]
  <2>1. requests' = [requests EXCEPT ![r].at = "send", ![r].op = op, ![r].mint = m]
    BY DEF Ask
  <2> QED BY <1>1, <2>1
<1>3. z \in RequestType /\ z.at = "send" /\ z.mint = m /\ z.sigs = {}
  BY <1>1 DEF RequestType
<1> HIDE DEF z
<1>4. requests'[r] = z /\ requests' \in [Requests -> RequestType]
  BY <1>1, <1>2, <1>3
<1>5. UNCHANGED <<ledger, rows, coins, handlers, tick, faults>>
  BY DEF Ask
<1>6. CoinsKept /\ LedgerKept
  BY <1>5, Unchanged DEF TablesInv
<1>7. Recorded(q) = {} /\ Recorded(requests[r])' = {}
  BY <1>1, <1>3, <1>4 DEF Recorded
<1>8. RequestHolds(requests[r])'
  BY <1>3, <1>4, <1>7 DEF RequestHolds
<1>9. RequestsHold' /\ TotalsHold'
  <2>1. q.sigs \subseteq z.sigs /\ (\A s \in z.sigs : s \in q.sigs \/ s \notin DOMAIN ledger)
    BY <1>1, <1>3
  <2> QED BY <1>2, <1>3, <1>5, <1>6, <1>7, <1>8, <2>1, RequestMoves
<1>10. HandlersHold' /\ RowsHold'
  BY <1>5 DEF TablesInv, HandlersHold, HandlerHolds, RowsHold
<1>11. Types'
  BY <1>4, <1>5 DEF TablesInv, Types
<1> QED BY <1>9, <1>10, <1>11 DEF TablesInv

\* The request after a try.
Tried(r, sigs, at, z) ==
  /\ requests' = [requests EXCEPT ![r] = z] /\ requests'[r] = z
  /\ requests' \in [Requests -> RequestType]
  /\ z.at = at /\ z.mint = requests[r].mint /\ z.sigs = requests[r].sigs \cup sigs

\* A try that sends leaves such a request.
LEMMA SentIs ==
  ASSUME Types, NEW r \in Requests, NEW sigs \in SUBSET Nat,
         NEW at \in {"send", "coin", "error"}, Sent(r, sigs, at)
  PROVE  \E z \in RequestType : Tried(r, sigs, at, z)
<1> DEFINE q == requests[r]
           n == q.tries + 1
           all_sigs == q.sigs \cup sigs
           z == [q EXCEPT !.at = at, !.tries = n, !.sigs = all_sigs]
<1>1. q \in RequestType /\ requests \in [Requests -> RequestType]
  BY DEF Types
<1>2. n \in Nat /\ all_sigs \in SUBSET Nat
  <2>1. q.tries \in Nat /\ q.sigs \in SUBSET Nat
    BY <1>1 DEF RequestType
  <2>2. n \in Nat
    BY <2>1
  <2>3. all_sigs \in SUBSET Nat
    BY <2>1
  <2> QED BY <2>2, <2>3
<1>3. requests' = [requests EXCEPT ![r] = z]
  <2>1. requests' = [requests EXCEPT ![r].at = at, ![r].tries = n, ![r].sigs = all_sigs]
    BY <1>1 DEF Sent, RequestType
  <2> HIDE DEF n, all_sigs
  <2> QED BY <1>1, <2>1
<1>4. z \in RequestType /\ z.at = at /\ z.mint = q.mint /\ z.op = q.op /\ z.sigs = all_sigs
  <2> HIDE DEF n, all_sigs
  <2> QED BY <1>1, <1>2 DEF RequestType
<1> HIDE DEF z
<1>5. requests'[r] = z /\ requests' \in [Requests -> RequestType]
  BY <1>1, <1>3, <1>4
<1>6. Tried(r, sigs, at, z)
  BY <1>3, <1>4, <1>5 DEF Tried
<1> QED BY <1>4, <1>6

\* A try adds the newest signature, or none; nothing is recorded of either.
LEMMA SendKeeps ==
  ASSUME TablesInv, NEW r \in Requests, Send(r), faults' \in Nat
  PROVE  TablesInv'
<1> DEFINE q == requests[r]
           sig == Len(ledger) + 1
<1>1. /\ q \in RequestType /\ RequestHolds(q) /\ requests \in [Requests -> RequestType]
      /\ q.at = "send" /\ q.mint \in Mints /\ Recorded(q) = {}
      /\ q.sigs \subseteq DOMAIN ledger
  BY DEF TablesInv, Types, RequestsHold, RequestHolds, Send
<1>2. UNCHANGED <<rows, coins, tick>>
  BY DEF Send
<1>3. AfterFailure(r) \in {"error", "send"}
  BY DEF AfterFailure
<1>4. CoinsKept
  BY <1>2, Unchanged DEF TablesInv
<1>5. CASE Confirm(q.op, q.mint, Unset) /\ (Sent(r, {sig}, "coin") \/ Sent(r, {sig}, AfterFailure(r)))
  <2>1. q.op \in Kinds \cup {"mint", "burn"} /\ Unset \in Wallets \cup {Unset}
    BY <1>1 DEF RequestType
  <2>2. /\ ledger' \in Seq(TxType) /\ LedgerKept /\ HandlersHold' /\ RowsHold'
        /\ sig \notin DOMAIN ledger /\ sig \in DOMAIN ledger' /\ ledger'[sig].mint = q.mint
        /\ \A s \in DOMAIN ledger : s < sig
        /\ sig \in Nat
    BY <1>1, <1>2, <1>5, <2>1, ConfirmKeeps DEF TablesInv
  <2> HIDE DEF sig
  <2>3. PICK z \in RequestType :
          /\ requests' = [requests EXCEPT ![r] = z] /\ requests'[r] = z
          /\ requests' \in [Requests -> RequestType]
          /\ z.at \in {"send", "coin", "error"} /\ z.mint = q.mint /\ z.sigs = q.sigs \cup {sig}
    <3>1. {sig} \in SUBSET Nat /\ Types
      BY <2>2 DEF TablesInv
    <3>2. PICK at \in {"send", "coin", "error"} : Sent(r, {sig}, at)
      BY <1>3, <1>5
    <3>3. PICK z \in RequestType : Tried(r, {sig}, at, z)
      BY <3>1, <3>2, SentIs
    <3> QED BY <3>2, <3>3 DEF Tried
  <2>4. Recorded(requests[r])' = {}
    <3>1. \A i \in DOMAIN rows : rows[i].sig # sig
      BY <2>2 DEF TablesInv, RowsHold
    <3> QED BY <1>1, <1>2, <2>3, <3>1 DEF Recorded
  <2>5. \A s \in z.sigs : s \in DOMAIN ledger' /\ ledger'[s].mint = z.mint
    BY <1>1, <2>2, <2>3 DEF RequestHolds, LedgerKept
  <2>6. \E s \in z.sigs : \A t \in z.sigs : t <= s
    <3>1. \A t \in z.sigs : t < sig \/ t = sig
      BY <1>1, <2>2, <2>3
    <3>2. \A t \in z.sigs : t \in Nat
      BY <2>3 DEF RequestType
    <3>3. \A t \in z.sigs : t <= sig
      BY <2>2, <3>1, <3>2
    <3> QED BY <2>3, <3>3
  <2>7. RequestHolds(requests[r])'
    BY <1>1, <2>3, <2>4, <2>5, <2>6 DEF RequestHolds
  <2>8. RequestsHold' /\ TotalsHold'
    <3>1. q.sigs \subseteq z.sigs /\ (\A s \in z.sigs : s \in q.sigs \/ s \notin DOMAIN ledger)
      BY <2>2, <2>3
    <3> QED BY <1>1, <1>2, <1>4, <2>2, <2>3, <2>7, <3>1, RequestMoves
  <2>9. Types'
    BY <1>2, <2>2, <2>3 DEF TablesInv, Types
  <2> QED BY <2>2, <2>8, <2>9 DEF TablesInv
<1>6. CASE Sent(r, {}, AfterFailure(r)) /\ UNCHANGED <<ledger, handlers>>
  <2>1. PICK z \in RequestType :
          /\ requests' = [requests EXCEPT ![r] = z] /\ requests'[r] = z
          /\ requests' \in [Requests -> RequestType]
          /\ z.at \in {"send", "error"} /\ z.mint = q.mint /\ z.sigs = q.sigs
    <3>1. {} \in SUBSET Nat /\ Types
      BY DEF TablesInv
    <3>2. PICK z \in RequestType : Tried(r, {}, AfterFailure(r), z)
      BY <1>3, <1>6, <3>1, SentIs
    <3> QED BY <1>3, <3>2 DEF Tried
  <2>2. LedgerKept
    BY <1>6, Unchanged
  <2>3. Recorded(requests[r])' = {}
    BY <1>1, <1>2, <2>1 DEF Recorded
  <2>4. RequestHolds(requests[r])'
    BY <1>1, <1>6, <2>1, <2>3 DEF RequestHolds
  <2>5. RequestsHold' /\ TotalsHold'
    <3>1. q.sigs \subseteq z.sigs /\ (\A s \in z.sigs : s \in q.sigs \/ s \notin DOMAIN ledger)
      BY <2>1
    <3> QED BY <1>1, <1>2, <1>4, <2>1, <2>2, <2>4, <3>1, RequestMoves
  <2>6. HandlersHold' /\ RowsHold'
    BY <1>2, <1>6 DEF TablesInv, HandlersHold, HandlerHolds, RowsHold
  <2>7. Types'
    BY <1>2, <1>6, <2>1 DEF TablesInv, Types
  <2> QED BY <2>5, <2>6, <2>7 DEF TablesInv
<1> QED BY <1>5, <1>6 DEF Send

\* A request looks for its stablecoin, and creates it.
LEMMA GetOrCreateKeeps ==
  ASSUME TablesInv, NEW r \in Requests, GetOrCreate(r)
  PROVE  TablesInv'
<1> DEFINE m == requests[r].mint
<1>1. /\ UNCHANGED <<ledger, rows, handlers, tick, faults>>
      /\ requests[r].at \in {"coin", "create"} /\ faults' \in Nat
  BY DEF GetOrCreate, TablesInv, Types
<1>2. m \in Mints /\ coins \in [Mints -> CoinType]
  BY <1>1 DEF TablesInv, Types, RequestsHold, RequestHolds
<1>3. CASE coins' = coins /\ Move(r, IF coins[m].exists THEN "row" ELSE "create")
  <2>1. CoinsKept
    BY <1>3, Unchanged DEF TablesInv
  <2> QED BY <1>1, <1>3, <2>1, MoveKeeps
<1>4. CASE coins' = coins /\ Move(r, "error")
  <2>1. CoinsKept
    BY <1>4, Unchanged DEF TablesInv
  <2> QED BY <1>1, <1>4, <2>1, MoveKeeps
<1>5. CASE ~coins[m].exists /\ coins' = [coins EXCEPT ![m] = NewCoin] /\ Move(r, "row")
  <2>1. CoinsKept
    BY <1>2, <1>5, CoinCreated DEF TablesInv
  <2>2. coins'[m].exists
    BY <1>2, <1>5 DEF NewCoin, NoCoin
  <2> QED BY <1>1, <1>5, <2>1, <2>2, MoveKeeps
<1> QED BY <1>3, <1>4, <1>5 DEF GetOrCreate

\* A request is given up after its transaction landed.
LEMMA ServiceFailsKeeps ==
  ASSUME TablesInv, NEW r \in Requests, ServiceFails(r), faults' \in Nat
  PROVE  TablesInv'
<1>1. CoinsKept
  BY Unchanged DEF ServiceFails, TablesInv
<1> QED BY <1>1, MoveKeeps DEF ServiceFails

\* A request records its last signature: one more amount, half done.
LEMMA RecordKeeps ==
  ASSUME TablesInv, NEW r \in Requests, Record(r)
  PROVE  TablesInv'
<1> DEFINE q == requests[r]
           sig == LastSig(r)
           row == Row(q.op, "service", sig, 1)
           n == Len(rows) + 1
           z == [q EXCEPT !.at = "total"]
<1>1. /\ q \in RequestType /\ RequestHolds(q) /\ requests \in [Requests -> RequestType]
      /\ q.at = "row" /\ q.mint \in Mints /\ Recorded(q) = {} /\ coins[q.mint].exists
      /\ rows \in Seq(RowType)
  BY DEF TablesInv, Types, RequestsHold, RequestHolds, Record
<1>2. UNCHANGED <<ledger, coins, handlers, tick, faults>> /\ faults' \in Nat
  BY DEF Record, TablesInv, Types
<1>3. CoinsKept /\ LedgerKept
  BY <1>2, Unchanged DEF TablesInv
<1>4. CASE Move(r, "error") /\ UNCHANGED rows
  BY <1>1, <1>2, <1>3, <1>4, MoveKeeps
<1>5. CASE ~InTable({q.op}, sig) /\ rows' = Append(rows, row) /\ Move(r, "total")
  <2>1. sig \in q.sigs /\ sig \in DOMAIN ledger /\ ledger[sig].mint = q.mint
    <3>1. \E s \in q.sigs : \A t \in q.sigs : t <= s
      BY <1>1 DEF RequestHolds
    <3>2. sig \in q.sigs
      BY <3>1, Zenon DEF LastSig
    <3> QED BY <1>1, <3>2 DEF RequestHolds
  <2> HIDE DEF sig
  <2>2. ledger[sig] \in TxType /\ sig \in Nat
    BY <2>1 DEF TablesInv, Types
  <2>3. /\ row \in RowType /\ row.table = q.op /\ row.sig = sig /\ row.amount = 1
        /\ row.mint = q.mint
    <3>1. row = [table |-> q.op, type |-> "service", sig |-> sig, mint |-> ledger[sig].mint,
                 target |-> ledger[sig].target, amount |-> 1]
      BY DEF Row
    <3>2. ledger[sig].mint \in Mints /\ ledger[sig].target \in Wallets \cup {Unset}
      BY <2>2 DEF TxType
    <3>3. q.op \in Tables /\ "service" \in RowTypes
      BY <1>1 DEF Tables, RowTypes, RequestType
    <3> HIDE DEF row
    <3> QED BY <2>1, <2>2, <3>1, <3>2, <3>3 DEF RowType
  <2> HIDE DEF row
  <2>4. /\ RowsHold' /\ rows' \in Seq(RowType)
        /\ DOMAIN rows' = DOMAIN rows \cup {n} /\ n \notin DOMAIN rows
        /\ rows'[n] = row /\ \A i \in DOMAIN rows : rows'[i] = rows[i]
    BY <1>2, <1>5, <2>1, <2>3, RowAdded DEF TablesInv
  <2> HIDE DEF n
  <2>5. /\ requests' = [requests EXCEPT ![r] = z]
        /\ z \in RequestType /\ z.at = "total" /\ z.op = q.op /\ z.mint = q.mint /\ z.sigs = q.sigs
    BY <1>1, <1>5 DEF Move, RequestType
  <2> HIDE DEF z
  <2>6. /\ requests'[r] = z /\ requests' \in [Requests -> RequestType]
        /\ \A p \in Requests \ {r} : requests'[p] = requests[p]
    BY <1>1, <2>5
  <2>7. \A p \in Requests \ {r} : sig \notin requests[p].sigs
    BY <2>1 DEF TablesInv, RequestsHold
  <2>8. Recorded(requests[r])' = {n}
    <3>1. \A i \in DOMAIN rows : ~(rows[i].amount = 1 /\ rows[i].sig \in q.sigs)
      BY <1>1 DEF Recorded
    <3> QED BY <2>1, <2>3, <2>4, <2>5, <2>6, <3>1 DEF Recorded
  <2>9. n \in Amounts(requests[r].op, requests[r].mint)'
    BY <2>3, <2>4, <2>5, <2>6 DEF Amounts
  <2>10. RequestHolds(requests[r])'
    <3>1. /\ z.at = "total" /\ z.mint \in Mints /\ z.sigs # {} /\ coins'[z.mint].exists
          /\ \A s \in z.sigs : s \in DOMAIN ledger' /\ ledger'[s].mint = z.mint
          /\ \E s \in z.sigs : \A t \in z.sigs : t <= s
      BY <1>1, <1>2, <2>5 DEF RequestHolds
    <3> QED BY <2>6, <2>8, <2>9, <3>1 DEF RequestHolds
  <2>11. ASSUME NEW p \in Requests \ {r} PROVE RequestHolds(requests[p])'
    <3> DEFINE y == requests[p]
    <3>1. RequestHolds(y) /\ y' = y
      BY <2>6 DEF TablesInv, RequestsHold
    <3>2. Recorded(y)' = Recorded(y)
      BY <2>3, <2>4, <2>7, <3>1 DEF Recorded
    <3>3. Amounts(y.op, y.mint) \subseteq Amounts(y.op, y.mint)'
      BY <2>4, <3>1 DEF Amounts
    <3> HIDE DEF y
    <3> QED BY <1>2, <3>1, <3>2, <3>3 DEF RequestHolds, y
  <2>12. ASSUME NEW p \in Requests, NEW y \in Requests, p # y
         PROVE  requests'[p].sigs \cap requests'[y].sigs = {}
    <3>1. \A x \in Requests : requests'[x].sigs = requests[x].sigs
      BY <2>5, <2>6
    <3> QED BY <2>12, <3>1 DEF TablesInv, RequestsHold
  <2>13. RequestsHold'
    BY <2>10, <2>11, <2>12 DEF RequestsHold
  <2>14. ASSUME NEW op, NEW m PROVE Counted(op, m)' = Counted(op, m)
    <3>1. ASSUME NEW i \in DOMAIN rows
          PROVE  i \in Counted(op, m)' <=> i \in Counted(op, m)
      <4>1. i \in Amounts(op, m)' <=> i \in Amounts(op, m)
        BY <2>4 DEF Amounts
      <4>2. ASSUME i \in Amounts(op, m) PROVE rows[i].sig \notin q.sigs
        BY <1>1, <4>2 DEF Amounts, Recorded
      <4>3. i \in HalfDone(op, m)' <=> i \in HalfDone(op, m)
        <5>1. ASSUME i \in Amounts(op, m), NEW p \in Requests
              PROVE  (requests'[p].at \in {"total", "error"} /\ rows'[i].sig \in requests'[p].sigs)
                 <=> (requests[p].at \in {"total", "error"} /\ rows[i].sig \in requests[p].sigs)
          <6>1. CASE p = r
            BY <2>4, <2>5, <2>6, <4>2, <5>1, <6>1
          <6>2. CASE p # r
            BY <2>4, <2>6, <6>2
          <6> QED BY <6>1, <6>2
        <5> QED BY <4>1, <5>1 DEF HalfDone
      <4> QED BY <4>1, <4>3 DEF Counted
    <3>2. n \notin Counted(op, m)'
      <4>1. n \in Amounts(op, m)' => n \in HalfDone(op, m)'
        BY <2>1, <2>3, <2>4, <2>5, <2>6 DEF HalfDone
      <4> QED BY <4>1 DEF Counted
    <3>3. Counted(op, m)' \subseteq DOMAIN rows' /\ Counted(op, m) \subseteq DOMAIN rows
      BY DEF Counted, Amounts
    <3> QED BY <2>4, <3>1, <3>2, <3>3
  <2>15. TotalsHold'
    BY <1>3, <2>14, TotalsKept DEF TablesInv
  <2>16. HandlersHold'
    BY <1>2 DEF TablesInv, HandlersHold, HandlerHolds
  <2>17. Types'
    BY <1>2, <2>4, <2>6 DEF TablesInv, Types
  <2> QED BY <2>4, <2>13, <2>15, <2>16, <2>17 DEF TablesInv
<1> QED BY <1>4, <1>5 DEF Record

\* A request that is through has its amount counted.
LEMMA AddTotalKeeps ==
  ASSUME TablesInv, NEW r \in Requests, AddTotal(r)
  PROVE  TablesInv'
<1> DEFINE q == requests[r]
           z == [q EXCEPT !.at = "ok"]
           c == coins[q.mint]
           minted == c.minted + 1
           burned == c.burned + 1
           coin == IF q.op = "mint" THEN [c EXCEPT !.minted = minted] ELSE [c EXCEPT !.burned = burned]
<1>1. /\ q \in RequestType /\ RequestHolds(q) /\ requests \in [Requests -> RequestType]
      /\ q.at = "total" /\ q.mint \in Mints /\ c.exists /\ q.op \in {"mint", "burn"}
      /\ rows \in Seq(RowType) /\ coins \in [Mints -> CoinType] /\ c \in CoinType
  BY DEF TablesInv, Types, RequestsHold, RequestHolds, AddTotal, RequestType
<1>2. UNCHANGED <<ledger, rows, handlers, tick, faults>>
  BY DEF AddTotal
<1>3. c.minted \in Nat /\ c.burned \in Nat /\ minted \in Nat /\ burned \in Nat
  <2>1. c.minted \in Nat /\ c.burned \in Nat
    BY <1>1 DEF CoinType
  <2> HIDE DEF c
  <2> QED BY <2>1
<1>4. coins' = [coins EXCEPT ![q.mint] = coin]
  BY <1>1 DEF AddTotal
<1> HIDE DEF minted, burned
<1>5. /\ coin \in CoinType /\ coin.exists
      /\ coin.minted = IF q.op = "mint" THEN minted ELSE c.minted
      /\ coin.burned = IF q.op = "mint" THEN c.burned ELSE burned
  <2>1. CASE q.op = "mint"
    BY <1>1, <1>3, <2>1 DEF CoinType
  <2>2. CASE q.op # "mint"
    BY <1>1, <1>3, <2>2 DEF CoinType
  <2> QED BY <2>1, <2>2
<1> HIDE DEF coin
<1>6. coins' \in [Mints -> CoinType] /\ coins'[q.mint] = coin
        /\ \A m \in Mints \ {q.mint} : coins'[m] = coins[m]
  BY <1>1, <1>4, <1>5
<1>7. /\ requests' = [requests EXCEPT ![r] = z]
      /\ z \in RequestType /\ z.at = "ok" /\ z.op = q.op /\ z.mint = q.mint /\ z.sigs = q.sigs
  BY <1>1 DEF AddTotal, Move, RequestType
<1> HIDE DEF z
<1>8. /\ requests'[r] = z /\ requests' \in [Requests -> RequestType]
      /\ \A p \in Requests \ {r} : requests'[p] = requests[p]
  BY <1>1, <1>7
<1>0. PICK op0, m0 : op0 = q.op /\ m0 = q.mint
  OBVIOUS
<1>9. PICK i0 \in Recorded(q) : i0 \in Amounts(op0, m0)
  BY <1>1, <1>0 DEF RequestHolds
<1>10. \A i \in Recorded(q) : i = i0
  BY <1>1, <1>9 DEF RequestHolds
<1>11. \A p \in Requests \ {r} : rows[i0].sig \notin requests[p].sigs
  BY <1>9 DEF Recorded, TablesInv, RequestsHold
<1>12. ASSUME NEW op, NEW m
       PROVE  /\ Amounts(op, m)' = Amounts(op, m)
              /\ \A i \in Amounts(op, m) \ {i0} : i \in HalfDone(op, m)' <=> i \in HalfDone(op, m)
              /\ i0 \in Amounts(op, m) <=> op = op0 /\ m = m0
              /\ i0 \in Amounts(op, m) => i0 \in HalfDone(op, m) /\ i0 \notin HalfDone(op, m)'
  <2>1. Amounts(op, m)' = Amounts(op, m)
    BY <1>2 DEF Amounts
  <2>2. ASSUME NEW i \in Amounts(op, m) \ {i0}
        PROVE  i \in HalfDone(op, m)' <=> i \in HalfDone(op, m)
    <3>1. rows[i].sig \notin q.sigs
      BY <1>10 DEF Recorded, Amounts
    <3>2. ASSUME NEW p \in Requests
          PROVE  (requests'[p].at \in {"total", "error"} /\ rows'[i].sig \in requests'[p].sigs)
             <=> (requests[p].at \in {"total", "error"} /\ rows[i].sig \in requests[p].sigs)
      <4>1. CASE p = r
        BY <1>2, <1>7, <1>8, <3>1, <4>1
      <4>2. CASE p # r
        BY <1>2, <1>8, <4>2
      <4> QED BY <4>1, <4>2
    <3> QED BY <2>1, <3>2 DEF HalfDone
  <2>3. i0 \in Amounts(op, m) <=> op = op0 /\ m = m0
    BY <1>9 DEF Amounts
  <2>4. ASSUME i0 \in Amounts(op, m) PROVE i0 \in HalfDone(op, m) /\ i0 \notin HalfDone(op, m)'
    <3>1. i0 \in HalfDone(op, m)
      BY <1>1, <1>9, <2>4 DEF HalfDone, Recorded
    <3>2. \A p \in Requests : ~(requests'[p].at \in {"total", "error"} /\ rows'[i0].sig \in requests'[p].sigs)
      BY <1>2, <1>7, <1>8, <1>11
    <3> QED BY <3>1, <3>2 DEF HalfDone
  <2> QED BY <2>1, <2>2, <2>3, <2>4
<1>13. ASSUME NEW op, NEW m, op # op0 \/ m # m0 PROVE Counted(op, m)' = Counted(op, m)
  BY <1>12, <1>13 DEF Counted
<1>14. /\ Counted(op0, m0)' = Counted(op0, m0) \cup {i0}
       /\ i0 \notin Counted(op0, m0)
  BY <1>9, <1>12 DEF Counted
<1>15. Cardinality(Counted(op0, m0)') = Cardinality(Counted(op0, m0)) + 1
  <2>1. Counted(op0, m0) \subseteq 1..Len(rows) /\ Len(rows) \in Nat
    BY <1>1 DEF Counted, Amounts
  <2>2. IsFiniteSet(Counted(op0, m0))
    <3>1. IsFiniteSet(1..Len(rows))
      BY <2>1, FS_Interval
    <3> QED BY <2>1, <3>1, FS_Subset
  <2> QED BY <1>14, <2>2, FS_AddElement
<1>16. TotalsHold'
  <2> SUFFICES ASSUME NEW m \in Mints
               PROVE  /\ coins'[m].minted = Cardinality(Counted("mint", m)')
                      /\ coins'[m].burned = Cardinality(Counted("burn", m)')
                      /\ ~coins'[m].exists => coins'[m].minted = 0 /\ coins'[m].burned = 0
    BY DEF TotalsHold
  <2>1. /\ coins[m].minted = Cardinality(Counted("mint", m))
        /\ coins[m].burned = Cardinality(Counted("burn", m))
        /\ ~coins[m].exists => coins[m].minted = 0 /\ coins[m].burned = 0
    BY DEF TablesInv, TotalsHold
  <2>2. CASE m # m0
    BY <1>0, <1>6, <1>13, <2>1, <2>2
  <2>3. CASE m = m0 /\ op0 = "mint"
    BY <1>0, <1>5, <1>6, <1>13, <1>15, <2>1, <2>3 DEF minted
  <2>4. CASE m = m0 /\ op0 = "burn"
    BY <1>0, <1>5, <1>6, <1>13, <1>15, <2>1, <2>4 DEF burned
  <2> QED BY <1>1, <1>0, <2>2, <2>3, <2>4
<1>17. ASSUME NEW p \in Requests PROVE RequestHolds(requests[p])'
  <2> DEFINE y == requests[p]
  <2>1. RequestHolds(y) /\ (p # r => y' = y)
    BY <1>8 DEF TablesInv, RequestsHold
  <2>2. \A m \in Mints : coins[m].exists => coins'[m].exists
    BY <1>5, <1>6
  <2>3. CASE p # r
    <3>1. Recorded(y)' = Recorded(y) /\ Amounts(y.op, y.mint)' = Amounts(y.op, y.mint) /\ y' = y
      BY <1>2, <2>1, <2>3 DEF Recorded, Amounts
    <3>2. y.at \in {"row", "total"} => coins'[y.mint].exists
      BY <2>1, <2>2 DEF RequestHolds
    <3> HIDE DEF y
    <3> QED BY <1>2, <2>1, <3>1, <3>2 DEF RequestHolds, y
  <2>4. CASE p = r
    <3>1. Recorded(requests[r])' = Recorded(q)
      BY <1>2, <1>7, <1>8 DEF Recorded
    <3> QED BY <1>1, <1>2, <1>7, <1>8, <1>10, <2>4, <3>1 DEF RequestHolds
  <2> QED BY <2>3, <2>4
<1>18. ASSUME NEW p \in Requests, NEW y \in Requests, p # y
       PROVE  requests'[p].sigs \cap requests'[y].sigs = {}
  <2>1. \A x \in Requests : requests'[x].sigs = requests[x].sigs
    BY <1>7, <1>8
  <2> QED BY <1>18, <2>1 DEF TablesInv, RequestsHold
<1>19. RequestsHold'
  BY <1>17, <1>18 DEF RequestsHold
<1>20. HandlersHold' /\ RowsHold'
  BY <1>2 DEF TablesInv, HandlersHold, HandlerHolds, RowsHold
<1>21. Types'
  BY <1>2, <1>6, <1>8 DEF TablesInv, Types
<1> QED BY <1>16, <1>19, <1>20, <1>21 DEF TablesInv

\* The webhook service only creates stablecoins.
LEMMA WebhookKeeps ==
  ASSUME TablesInv, W!WebhookNext, UNCHANGED indexer, faults' \in Nat
  PROVE  TablesInv'
<1>1. CoinsKept
  <2>1. CASE coins' = coins
    BY <2>1, Unchanged DEF TablesInv
  <2>2. ASSUME NEW e \in Endpoints, W!CreateHook(e) PROVE CoinsKept
    <3> DEFINE m == hooks[e].mint
    <3>1. coins' = IF coins[m].exists THEN coins ELSE [coins EXCEPT ![m] = W!NewCoin]
      BY <2>2 DEF W!CreateHook
    <3>2. W!NewCoin = NewCoin
      <4>1. /\ W!NewCoin \in CoinType /\ W!NewCoin.exists = TRUE /\ W!NewCoin.paused = FALSE
            /\ W!NewCoin.minted = 0 /\ W!NewCoin.burned = 0
        BY DEF W!NewCoin, CoinType
      <4>2. /\ NewCoin \in CoinType /\ NewCoin.exists = TRUE /\ NewCoin.paused = FALSE
            /\ NewCoin.minted = 0 /\ NewCoin.burned = 0
        BY DEF NewCoin, NoCoin, CoinType
      <4> QED BY <4>1, <4>2 DEF CoinType
    <3> HIDE DEF m
    <3>3. CASE ~coins[m].exists /\ m \in Mints
      <4>1. coins' = [coins EXCEPT ![m] = NewCoin]
        BY <3>1, <3>2, <3>3
      <4> QED BY <3>3, <4>1, CoinCreated DEF TablesInv
    <3>4. CASE coins' = coins \/ m \notin Mints
      <4>1. coins' = coins
        BY <3>1, <3>4 DEF TablesInv, Types
      <4> QED BY <2>1, <4>1
    <3> QED BY <3>1, <3>3, <3>4
  <2>3. ASSUME NEW e, NEW m, W!Subscribe(e, m) PROVE coins' = coins
    BY <2>3 DEF W!Subscribe
  <2>4. ASSUME NEW e, W!DeleteHook(e) \/ W!Enqueue(e) \/ W!Deliver \/ W!RestartService
        PROVE  coins' = coins
    BY <2>4 DEF W!DeleteHook, W!Enqueue, W!Deliver, W!RestartService
  <2>5. ASSUME NEW d, W!Work(d) PROVE coins' = coins
    BY <2>5 DEF W!Work, W!Post, W!RecordDelivered, W!RecordFailed, W!Complete
  <2> QED BY <2>1, <2>2, <2>3, <2>4, <2>5 DEF W!WebhookNext
<1>2. UNCHANGED <<ledger, rows, handlers, tick, requests>>
  BY DEF indexer
<1>3. RequestsHold' /\ TotalsHold'
  BY <1>1, <1>2, Unchanged, RequestsStay DEF TablesInv, Types
<1>4. HandlersHold' /\ RowsHold'
  BY <1>2 DEF TablesInv, HandlersHold, HandlerHolds, RowsHold
<1>5. Types'
  BY <1>1, <1>2 DEF TablesInv, Types, CoinsKept
<1> QED BY <1>3, <1>4, <1>5 DEF TablesInv

-----------------------------------------------------------------------------
(* The tables: what follows.                                               *)

\* At the start there is nothing to be wrong.
LEMMA TablesInit == ServicesInit => TablesInv
<1> SUFFICES ASSUME Init PROVE TablesInv
  BY DEF ServicesInit
<1>1. /\ ledger = <<>> /\ rows = <<>> /\ tick = <<>> /\ faults = 0
      /\ DOMAIN ledger = {} /\ DOMAIN rows = {} /\ DOMAIN tick = {}
  BY DEF Init
<1>2. NoCoin \in CoinType /\ ~NoCoin.exists /\ NoCoin.minted = 0 /\ NoCoin.burned = 0
  BY DEF NoCoin, CoinType
<1>3. coins \in [Mints -> CoinType] /\ \A m \in Mints : coins[m] = NoCoin
  BY <1>2 DEF Init
<1> DEFINE q == [at |-> "new", op |-> "mint", mint |-> Unset, tries |-> 0, sigs |-> {}]
<1>4. q \in RequestType /\ q.at = "new" /\ q.sigs = {}
  BY DEF RequestType
<1>5. requests = [r \in Requests |-> q]
  BY DEF Init
<1> HIDE DEF q
<1>6. requests \in [Requests -> RequestType] /\ \A r \in Requests : requests[r] = q
  BY <1>4, <1>5
<1>7. Types
  BY <1>1, <1>3, <1>6 DEF Types
<1>8. HandlersHold
  <2>1. handlers = [k \in 0..MaxTxs |-> Idle]
    BY DEF Init
  <2> QED BY <1>1, <2>1 DEF HandlersHold, HandlerHolds, HandlerAts, Idle
<1>9. RowsHold
  BY <1>1 DEF RowsHold
<1>10. RequestsHold
  <2>1. Recorded(q) = {}
    BY <1>1 DEF Recorded
  <2>2. RequestHolds(q)
    BY <1>4, <2>1 DEF RequestHolds
  <2> QED BY <1>4, <1>6, <2>2 DEF RequestsHold
<1>11. TotalsHold
  <2>1. ASSUME NEW op, NEW m PROVE Counted(op, m) = {}
    BY <1>1 DEF Counted, Amounts
  <2>2. Cardinality({}) = 0
    BY FS_EmptySet
  <2> QED BY <1>2, <1>3, <2>1, <2>2 DEF TotalsHold
<1> QED BY <1>7, <1>8, <1>9, <1>10, <1>11 DEF TablesInv

\* The tables' invariant holds in every state.
THEOREM TablesInvariance == ServicesSpec => []TablesInv
<1>1. TablesInv /\ [ServicesNext]_all => TablesInv'
  <2> SUFFICES ASSUME TablesInv, [ServicesNext]_all PROVE TablesInv'
    OBVIOUS
  <2>1. faults' \in Nat
    BY FaultsGrow DEF ServicesNext, TablesInv, Types
  <2>2. CASE UNCHANGED all
    <3>1. UNCHANGED <<ledger, rows, coins, handlers, tick, requests, faults>>
      BY <2>2 DEF all, vars
    <3>2. HandlersHold' /\ tick' \in Seq(Nat)
      BY <3>1 DEF TablesInv, Types, HandlersHold, HandlerHolds
    <3> QED BY <2>1, <3>1, <3>2, MemoryKeeps
  <2>3. CASE W!WebhookNext /\ UNCHANGED indexer
    BY <2>1, <2>3, WebhookKeeps
  <2>4. CASE Next
    <3>1. ASSUME NEW kind \in Kinds, NEW m \in Mints, NEW t \in Wallets, Transaction(kind, m, t)
          PROVE  TablesInv'
      BY <3>1, TransactionKeeps
    <3>2. ASSUME NEW k \in 0..MaxTxs, Step(k) PROVE TablesInv'
      <4>1. CASE CreateRow(k)
        BY <4>1, CreateRowKeeps
      <4>2. CASE Read(k) \/ CreateCoin(k) \/ UpdatePaused(k)
        <5>1. Busy(k, "read") \/ Busy(k, "coin") \/ Busy(k, "update")
          BY <4>2 DEF Read, CreateCoin, UpdatePaused
        <5> QED BY <4>2, <5>1, HandlerKeeps
      <4> QED BY <3>2, <4>1, <4>2 DEF Step
    <3>3. ASSUME NEW k \in 0..MaxTxs, DbFails(k) PROVE TablesInv'
      BY <2>1, <3>3, PollKeeps
    <3>4. CASE PollTick \/ PollNext \/ RestartIndexer
      BY <2>1, <3>4, PollKeeps
    <3>5. ASSUME NEW r \in Requests, NEW op \in {"mint", "burn"}, NEW m \in Mints, Ask(r, op, m)
          PROVE  TablesInv'
      BY <3>5, AskKeeps
    <3>6. ASSUME NEW r \in Requests, Send(r) \/ ServiceFails(r) PROVE TablesInv'
      BY <2>1, <3>6, SendKeeps, ServiceFailsKeeps
    <3>7. ASSUME NEW r \in Requests, GetOrCreate(r) \/ Record(r) \/ AddTotal(r) PROVE TablesInv'
      BY <3>7, GetOrCreateKeeps, RecordKeeps, AddTotalKeeps
    <3> QED BY <2>4, <3>1, <3>2, <3>3, <3>4, <3>5, <3>6, <3>7 DEF Next
  <2> QED BY <2>2, <2>3, <2>4 DEF ServicesNext
<1> QED BY <1>1, TablesInit, PTL DEF ServicesSpec

\* Handlers and rows are about transactions that exist, and no table has two
\* rows for one signature.
THEOREM TablesTyped == ServicesSpec => []TypeOK
<1>1. TablesInv => TypeOK
  <2> SUFFICES ASSUME TablesInv PROVE TypeOK
    OBVIOUS
  <2>1. Range(tick) \subseteq DOMAIN ledger
    BY DEF TablesInv, HandlersHold, Range
  <2>2. \A k \in 0..MaxTxs : handlers[k].at # "idle" => handlers[k].sig \in DOMAIN ledger
    BY DEF TablesInv, HandlersHold, HandlerHolds
  <2>3. \A k \in 1..MaxTxs : handlers[k].at # "idle" => handlers[k].sig = k
    <3>1. \A k \in 1..MaxTxs : k \in 0..MaxTxs /\ k # Poll
      BY IndexerAssumption DEF IndexerAssumption, Poll
    <3> QED BY <3>1 DEF TablesInv, HandlersHold, HandlerHolds
  <2>4. \A r \in Requests : requests[r].sigs \subseteq DOMAIN ledger
    BY DEF TablesInv, RequestsHold, RequestHolds
  <2> QED BY <2>1, <2>2, <2>3, <2>4 DEF TablesInv, RowsHold, TypeOK
<1> QED BY <1>1, TablesInvariance, PTL

\* The totals are the recorded amounts, but for those of requests that stopped
\* between their two writes.
THEOREM TotalsAreCounted == ServicesSpec => []TotalsCountRows
<1>1. TablesInv => TotalsCountRows
  <2> SUFFICES ASSUME TablesInv, NEW m \in Mints, NEW op \in {"mint", "burn"}
               PROVE  Cardinality(Counted(op, m))
                        = Cardinality(Amounts(op, m)) - Cardinality(HalfDone(op, m))
    BY DEF TotalsCountRows, TablesInv, TotalsHold
  <2>1. Amounts(op, m) \subseteq 1..Len(rows) /\ Len(rows) \in Nat
    BY DEF Amounts, TablesInv, Types
  <2>2. IsFiniteSet(Amounts(op, m))
    <3>1. IsFiniteSet(1..Len(rows))
      BY <2>1, FS_Interval
    <3> QED BY <2>1, <3>1, FS_Subset
  <2>3. Amounts(op, m) \cap HalfDone(op, m) = HalfDone(op, m)
    BY DEF HalfDone
  <2> QED BY <2>2, <2>3, FS_Difference DEF Counted
<1> QED BY <1>1, TablesInvariance, PTL
===============================================================================
