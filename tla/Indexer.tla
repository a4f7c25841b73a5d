------------------------------- MODULE Indexer -------------------------------
(***************************************************************************)
(* The indexer and the mint service that writes the same tables.           *)
(*                                                                         *)
(*   ledger     the confirmed transactions of the program; a signature is  *)
(*              an index of ledger                                         *)
(*   rows       mint_operations, burn_operations and compliance_events, in *)
(*              order of createdAt; signature is unique in each            *)
(*   coins      the stablecoins table, by mint                             *)
(*   handlers   the indexer's handlers under way: handler s > 0 is the     *)
(*              websocket callback for signature s, handler 0 a poll       *)
(*   tick       the signatures the poll under way has still to look at     *)
(*   requests   the POST /mint and POST /burn requests                     *)
(***************************************************************************)
EXTENDS Integers, Sequences, FiniteSets, SequencesExt

CONSTANTS
  Mints, Wallets, Requests,
  LogsOf,              \* per kind of transaction: its log lines, each with the
                       \* words it contains and whether the lines around it
                       \* name the mint in the form the indexer looks for
  PollLimit,           \* getSignaturesForAddress's limit, 10 in the code
  SendAttempts,        \* sendWithRetry's maxAttempts, 3 in the code
  MaxTxs, MaxFaults    \* bounds: transactions; lost answers, errors, restarts

ASSUME IndexerAssumption ==
  /\ PollLimit \in Nat \ {0} /\ SendAttempts \in Nat \ {0}
  /\ MaxTxs \in Nat /\ MaxFaults \in Nat

VARIABLES ledger, rows, coins, handlers, tick, requests, faults

vars == <<ledger, rows, coins, handlers, tick, requests, faults>>

Kinds == DOMAIN LogsOf
Poll  == 0
Unset == ""  \* no mint yet, no target

-----------------------------------------------------------------------------
(* From log lines to events.                                               *)

\* extractEventsFromLogs: the first branch one of whose words the line
\* contains.  A line with "unpause" contains "pause" too.
Branches == <<
  [words |-> {"TokensMinted", "mint_tokens"}, event |-> "TokensMinted"],
  [words |-> {"TokensBurned", "burn_tokens"}, event |-> "TokensBurned"],
  [words |-> {"AddedToBlacklist", "add_to_blacklist"}, event |-> "AddedToBlacklist"],
  [words |-> {"RemovedFromBlacklist", "remove_from_blacklist"}, event |-> "RemovedFromBlacklist"],
  [words |-> {"TokensSeized", "seize_tokens"}, event |-> "TokensSeized"],
  [words |-> {"AccountFrozen", "freeze_account"}, event |-> "AccountFrozen"],
  [words |-> {"AccountThawed", "thaw_account"}, event |-> "AccountThawed"],
  [words |-> {"TokenPaused", "pause"}, event |-> "TokenPaused"],
  [words |-> {"TokenUnpaused", "unpause"}, event |-> "TokenUnpaused"],
  [words |-> {"StablecoinInitialized", "initialize"}, event |-> "StablecoinInitialized"],
  [words |-> {"AuthorityTransferred", "transfer_authority"}, event |-> "AuthorityTransferred"]>>

EventOf(line) ==
  LET hits == {i \in DOMAIN Branches : Branches[i].words \cap line.words # {}}
  IN  IF hits = {} THEN "none"
      ELSE LET event == Branches[CHOOSE i \in hits : \A j \in hits : i <= j].event
           IN  IF event = "TokenPaused" /\ "unpause" \in line.words THEN "none" ELSE event

\* What the table and the type of an event's row are; parseAnchorEvents finds
\* nothing, no discriminator being known to it.
RowOf == [
  TokensMinted         |-> <<"mint", "MINT">>,
  TokensBurned         |-> <<"burn", "BURN">>,
  AddedToBlacklist     |-> <<"compliance", "BLACKLIST_ADD">>,
  RemovedFromBlacklist |-> <<"compliance", "BLACKLIST_REMOVE">>,
  TokensSeized         |-> <<"compliance", "SEIZE">>,
  AccountFrozen        |-> <<"compliance", "FREEZE">>,
  AccountThawed        |-> <<"compliance", "THAW">>,
  TokenPaused          |-> <<"compliance", "PAUSE">>,
  TokenUnpaused        |-> <<"compliance", "UNPAUSE">>]

Events == [kind \in Kinds |->
  LET lines == SelectSeq(LogsOf[kind], LAMBDA l : EventOf(l) # "none")
  IN  [i \in DOMAIN lines |-> [name |-> EventOf(lines[i]), mint |-> lines[i].mint]]]

-----------------------------------------------------------------------------
(* The tables.                                                             *)

Row(table, type, sig, amount) ==
  [table |-> table, type |-> type, sig |-> sig, mint |-> ledger[sig].mint,
   target |-> ledger[sig].target, amount |-> amount]

InTable(tables, sig) == \E i \in DOMAIN rows : rows[i].table \in tables /\ rows[i].sig = sig

NoCoin  == [exists |-> FALSE, minted |-> 0, burned |-> 0, paused |-> FALSE]
NewCoin == [NoCoin EXCEPT !.exists = TRUE]

Idle == [at |-> "idle", sig |-> 0, events |-> <<>>]

Init ==
  /\ ledger = <<>> /\ rows = <<>>
  /\ coins = [m \in Mints |-> NoCoin]
  /\ handlers = [k \in 0..MaxTxs |-> Idle]
  /\ tick = <<>>
  /\ requests = [r \in Requests |-> [at |-> "new", op |-> "mint", mint |-> Unset, tries |-> 0,
                                     sigs |-> {}]]
  /\ faults = 0

MayFail == faults < MaxFaults
Fault   == MayFail /\ faults' = faults + 1

-----------------------------------------------------------------------------
(* The chain.  A transaction's notification reaches the websocket callback *)
(* or is missed.                                                           *)

Handle(sig, kind) ==
  IF Events[kind] = <<>> THEN Idle
  ELSE [at |-> "read", sig |-> sig, events |-> Events[kind]]

Confirm(kind, m, t) ==
  LET sig == Len(ledger) + 1
  IN  /\ sig <= MaxTxs
      /\ ledger' = Append(ledger, [kind |-> kind, mint |-> m, target |-> t])
      /\ handlers' \in {handlers, [handlers EXCEPT ![sig] = Handle(sig, kind)]}

\* Anyone's transaction.
Transaction(kind, m, t) ==
  /\ Confirm(kind, m, t)
  /\ UNCHANGED <<rows, coins, tick, requests, faults>>

-----------------------------------------------------------------------------
(* writeEventToDb, one await at a time, for handler k.                     *)

Event(k) == Head(handlers[k].events)
Coin(k)  == ledger[handlers[k].sig].mint

Goto(k, at)  == handlers' = [handlers EXCEPT ![k].at = at]
\* After the last event the callback moves a cursor that nothing reads.
NextEvent(k) ==
  LET events == handlers[k].events
  IN  handlers' = [handlers EXCEPT ![k] =
        IF Len(events) = 1 THEN Idle ELSE [@ EXCEPT !.at = "read", !.events = Tail(events)]]
\* An exception leaves the callback, or the whole poll.
Throw(k) ==
  /\ handlers' = [handlers EXCEPT ![k] = Idle]
  /\ tick' = IF k = Poll THEN <<>> ELSE tick

\* mintOperation and complianceEvent are asked, burnOperation is not.
Known(k) == InTable({"mint", "compliance"}, handlers[k].sig)

Busy(k, at) == handlers[k].at = at

Read(k) ==
  /\ Busy(k, "read")
  /\ IF Known(k) \/ ~Event(k).mint THEN NextEvent(k)
     ELSE Goto(k, IF coins[Coin(k)].exists THEN "row" ELSE "coin")
  /\ UNCHANGED <<ledger, rows, coins, tick, requests, faults>>

CreateCoin(k) ==
  /\ Busy(k, "coin")
  /\ IF coins[Coin(k)].exists THEN Throw(k) /\ UNCHANGED coins
     ELSE /\ coins' = [coins EXCEPT ![Coin(k)] = NewCoin]
          /\ Goto(k, "row") /\ UNCHANGED tick
  /\ UNCHANGED <<ledger, rows, requests, faults>>

\* Mutant: the signature is not unique in the tables.
CreateRowAnyway(k) ==
  /\ Busy(k, "row")
  /\ LET name == Event(k).name
     IN  rows' = IF name \notin DOMAIN RowOf THEN rows
                 ELSE Append(rows, Row(RowOf[name][1], RowOf[name][2], handlers[k].sig, 0))
  /\ NextEvent(k)
  /\ UNCHANGED <<ledger, coins, tick, requests, faults>>

\* The amount is never found in the logs: the pattern asks for 32 characters.
CreateRow(k) ==
  /\ Busy(k, "row")
  /\ LET name == Event(k).name
         sig  == handlers[k].sig
     IN  IF name \notin DOMAIN RowOf THEN NextEvent(k) /\ UNCHANGED <<rows, tick>>
         ELSE IF InTable({RowOf[name][1]}, sig) THEN Throw(k) /\ UNCHANGED rows
         ELSE /\ rows' = Append(rows, Row(RowOf[name][1], RowOf[name][2], sig, 0))
              /\ IF name \in {"TokenPaused", "TokenUnpaused"} THEN Goto(k, "update")
                 ELSE NextEvent(k)      \* an increment of 0 for mints and burns
              /\ UNCHANGED tick
  /\ UNCHANGED <<ledger, coins, requests, faults>>

UpdatePaused(k) ==
  /\ Busy(k, "update")
  /\ coins' = [coins EXCEPT ![Coin(k)].paused = Event(k).name = "TokenPaused"]
  /\ NextEvent(k)
  /\ UNCHANGED <<ledger, rows, tick, requests, faults>>

DbFails(k) ==
  /\ handlers[k].at # "idle" /\ Fault /\ Throw(k)
  /\ UNCHANGED <<ledger, rows, coins, requests>>

-----------------------------------------------------------------------------
(* The polling fallback: every five seconds, the newest signatures first,  *)
(* one poll at a time (a bound: a slow poll may overlap the next).         *)

PollTick ==
  /\ handlers[Poll] = Idle /\ tick = <<>> /\ ledger # <<>>
  /\ LET oldest == IF Len(ledger) > PollLimit THEN Len(ledger) - PollLimit + 1 ELSE 1
     IN  tick' = Reverse([i \in 1..(Len(ledger) - oldest + 1) |-> oldest + i - 1])
  /\ UNCHANGED <<ledger, rows, coins, handlers, requests, faults>>

\* Mutant: the poll stops at the first signature it knows.
PollStopsAtKnown ==
  /\ handlers[Poll] = Idle /\ tick # <<>>
  /\ LET sig == Head(tick)
     IN  IF InTable({"mint", "burn", "compliance"}, sig)
           THEN tick' = <<>> /\ UNCHANGED handlers
           ELSE /\ tick' = Tail(tick)
                /\ handlers' = [handlers EXCEPT ![Poll] = Handle(sig, ledger[sig].kind)]
  /\ UNCHANGED <<ledger, rows, coins, requests, faults>>

PollNext ==
  /\ handlers[Poll] = Idle /\ tick # <<>>
  /\ tick' = Tail(tick)
  /\ LET sig == Head(tick)
     IN  handlers' = IF InTable({"mint", "burn", "compliance"}, sig) THEN handlers
                     ELSE [handlers EXCEPT ![Poll] = Handle(sig, ledger[sig].kind)]
  /\ UNCHANGED <<ledger, rows, coins, requests, faults>>

\* Nothing is read back at the start, not even indexer_state.
RestartIndexer ==
  /\ Fault
  /\ handlers' = [k \in 0..MaxTxs |-> Idle] /\ tick' = <<>>
  /\ UNCHANGED <<ledger, rows, coins, requests>>

-----------------------------------------------------------------------------
(* The mint service: POST /mint and POST /burn, one unit per request.      *)

Ask(r, op, m) ==
  /\ requests[r].at = "new"
  /\ requests' = [requests EXCEPT ![r].at = "send", ![r].op = op, ![r].mint = m]
  /\ UNCHANGED <<ledger, rows, coins, handlers, tick, faults>>

Tries(r) == requests[r].tries + 1
Sent(r, sigs, at) ==
  requests' = [requests EXCEPT ![r].at = at, ![r].tries = @ + 1, ![r].sigs = @ \cup sigs]
AfterFailure(r) == IF Tries(r) = SendAttempts THEN "error" ELSE "send"

\* sendWithRetry: each try signs a new transaction; one that failed may have
\* landed all the same.
Send(r) ==
  /\ requests[r].at = "send"
  /\ \/ /\ Confirm(requests[r].op, requests[r].mint, Unset)
        /\ \/ Sent(r, {Len(ledger) + 1}, "coin") /\ UNCHANGED faults
           \/ Sent(r, {Len(ledger) + 1}, AfterFailure(r)) /\ Fault
     \/ /\ Sent(r, {}, AfterFailure(r))
        /\ UNCHANGED <<ledger, handlers, faults>>
  /\ UNCHANGED <<rows, coins, tick>>

LastSig(r) == CHOOSE s \in requests[r].sigs : \A t \in requests[r].sigs : t <= s
Move(r, at) == requests' = [requests EXCEPT ![r].at = at]

GetOrCreate(r) ==
  /\ \/ /\ requests[r].at = "coin"
        /\ Move(r, IF coins[requests[r].mint].exists THEN "row" ELSE "create")
        /\ UNCHANGED coins
     \/ /\ requests[r].at = "create"
        /\ IF coins[requests[r].mint].exists THEN Move(r, "error") /\ UNCHANGED coins
           ELSE coins' = [coins EXCEPT ![requests[r].mint] = NewCoin] /\ Move(r, "row")
  /\ UNCHANGED <<ledger, rows, handlers, tick, faults>>

\* Mutant: a row that is there already does not stop the request.
RecordOrSkip(r) ==
  /\ requests[r].at = "row"
  /\ rows' = IF InTable({requests[r].op}, LastSig(r)) THEN rows
             ELSE Append(rows, Row(requests[r].op, "service", LastSig(r), 1))
  /\ Move(r, "total")
  /\ UNCHANGED <<ledger, coins, handlers, tick, faults>>

Record(r) ==
  /\ requests[r].at = "row"
  /\ IF InTable({requests[r].op}, LastSig(r)) THEN Move(r, "error") /\ UNCHANGED rows
     ELSE /\ rows' = Append(rows, Row(requests[r].op, "service", LastSig(r), 1))
          /\ Move(r, "total")
  /\ UNCHANGED <<ledger, coins, handlers, tick, faults>>

AddTotal(r) ==
  /\ requests[r].at = "total"
  /\ coins' = IF requests[r].op = "mint"
                THEN [coins EXCEPT ![requests[r].mint].minted = @ + 1]
                ELSE [coins EXCEPT ![requests[r].mint].burned = @ + 1]
  /\ Move(r, "ok")
  /\ UNCHANGED <<ledger, rows, handlers, tick, faults>>

\* The RPC or the database fails after the send, or the service goes down.
ServiceFails(r) ==
  /\ requests[r].at \in {"coin", "create", "row", "total"}
  /\ Fault /\ Move(r, "error")
  /\ UNCHANGED <<ledger, rows, coins, handlers, tick>>

-----------------------------------------------------------------------------
Step(k) ==
  \/ Read(k) \/ CreateCoin(k) \/ CreateRow(k) \/ UpdatePaused(k)

Next ==
  \/ \E kind \in Kinds, m \in Mints, t \in Wallets : Transaction(kind, m, t)
  \/ \E k \in 0..MaxTxs : Step(k) \/ DbFails(k)
  \/ PollTick \/ PollNext \/ RestartIndexer
  \/ \E r \in Requests :
       \/ \E op \in {"mint", "burn"}, m \in Mints : Ask(r, op, m)
       \/ Send(r) \/ GetOrCreate(r) \/ Record(r) \/ AddTotal(r) \/ ServiceFails(r)

\* Handlers run on and the interval timer fires.
Fairness ==
  /\ \A k \in 0..MaxTxs : WF_vars(Step(k))
  /\ WF_vars(PollTick) /\ WF_vars(PollNext)

Spec == Init /\ [][Next]_vars /\ Fairness

-----------------------------------------------------------------------------
(* Properties.                                                             *)

\* Handlers and rows speak of transactions that exist, and no table has two
\* rows for one signature.
TypeOK ==
  /\ \A k \in 0..MaxTxs : handlers[k].at # "idle" => handlers[k].sig \in DOMAIN ledger
  /\ \A k \in 1..MaxTxs : handlers[k].at # "idle" => handlers[k].sig = k
  /\ Range(tick) \subseteq DOMAIN ledger
  /\ \A r \in Requests : requests[r].sigs \subseteq DOMAIN ledger
  /\ \A i, j \in DOMAIN rows :
       rows[i].table = rows[j].table /\ rows[i].sig = rows[j].sig => i = j

Amounts(op, m) ==
  {i \in DOMAIN rows : rows[i].table = op /\ rows[i].mint = m /\ rows[i].amount = 1}
HalfDone(op, m) ==
  {i \in Amounts(op, m) : \E r \in Requests : requests[r].at \in {"total", "error"}
                              /\ rows[i].sig \in requests[r].sigs}

\* Every recorded amount is in the totals once: the websocket callback, the
\* poll and the mint service, recording the same transaction, never count it
\* twice, and only a request that stopped between the row and the total leaves
\* it out (GET /supply/:mint answers from these totals).
TotalsCountRows ==
  \A m \in Mints :
    /\ coins[m].minted = Cardinality(Amounts("mint", m)) - Cardinality(HalfDone("mint", m))
    /\ coins[m].burned = Cardinality(Amounts("burn", m)) - Cardinality(HalfDone("burn", m))

\* A transaction with an event to record, and no more than PollLimit - 1 newer
\* ones, is recorded in the end, whatever the websocket missed, a handler
\* threw or a restart forgot (header: "a 5-second polling fallback for missed
\* WebSocket events").
Recordable(sig) ==
  \E i \in DOMAIN Events[ledger[sig].kind] :
    LET e == Events[ledger[sig].kind][i] IN e.mint /\ e.name \in DOMAIN RowOf

PollRecords ==
  \A sig \in 1..MaxTxs :
    (<>[](sig \in DOMAIN ledger /\ Recordable(sig) /\ Len(ledger) - sig < PollLimit))
      => <>(InTable({"mint", "burn", "compliance"}, sig))

\* The same for every transaction of the program (header: "parses Anchor events,
\* writes structured records to Postgres").
RecordsTheProgram ==
  \A sig \in 1..MaxTxs :
    (<>[](sig \in DOMAIN ledger /\ Len(ledger) - sig < PollLimit))
      => <>(InTable({"mint", "burn", "compliance"}, sig))
=============================================================================
