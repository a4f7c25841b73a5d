-------------------------------- MODULE Keeper --------------------------------
(***************************************************************************)
(* The keeper service for one gated mint: its holder index, its websocket  *)
(* streams, the checks it runs on events, sweeps and resyncs, and the      *)
(* freezer (services/keeper/src/{keeper,holders,freezer}.ts).              *)
(*                                                                         *)
(* The keeper is one event loop: what runs between two awaits is one step, *)
(* and every RPC call is two, the node's answer and its arrival.  Tasks    *)
(* are the asynchronous calls in flight.  An owner's facts (holders.ts) are*)
(* the PDAs derived under a policy, so they are represented by that policy;*)
(* so is the freezer's cached extra-metas list.                            *)
(*                                                                         *)
(* External: the chain, its RPC node (which may lag) and its websockets.   *)
(* The mint stays gated by ThawGate and wanted by the configuration.       *)
(***************************************************************************)
EXTENDS KeeperPolicy, FiniteSets

CONSTANTS
  Wallets, Accounts,  \* owners and token accounts
  OwnerOf,
  Issuers, SasConfigs,\* registry programs, SAS credentials
  Policies, Terms,    \* policies the mint may have, and what each says
  Unset,              \* no policy: no entry, no facts, no list
  Handlers,           \* bound: notification handlers running at a time
  Environments        \* what may happen around the keeper: the kinds of changes
                      \* of the chain, how many of them, how many drops, failed
                      \* calls and crashes, and whether the RPC node may lag

ASSUME KeeperConstants ==
  /\ OwnerOf \in [Accounts -> Wallets]
  /\ Unset \notin Policies
  /\ \A e \in Environments :
       e \in [kinds: SUBSET {"policy", "attestation", "blacklist", "token"},
              changes: Nat, faults: Nat, lagging: BOOLEAN]

VARIABLES
  chain,    \* policy, registry, attestations and token accounts at a slot
  node,     \* the same, as the RPC node serves it
  streams,  \* the keeper's subscriptions
  notes,    \* notifications on their way, by stream
  index,    \* HolderIndex: the mint's entry
  cache,    \* Freezer.mintAccounts: the extra-metas list
  requested,\* resyncRequested
  started,  \* how far start() is: "resync", "sweep", "loops"
  tasks,    \* checks and loads in flight
  freezing, \* Freezer.inflight
  bounds    \* the environment, with what is left of its changes and faults

vars == <<chain, node, streams, notes, index, cache, requested, started, tasks, freezing, bounds>>

Now     == 2
Live    == [exists |-> TRUE, expiry |-> 0, level |-> NoData]
Expired == [exists |-> TRUE, expiry |-> 1, level |-> NoData]

Streams  == {"policies", "sas", "tokens"} \cup Issuers
Tasks    == {"sweep", "resync"} \cup Handlers
IdleTask == [pc |-> "idle"]
IdleRun  == [pc |-> "idle"]

NoIndex ==
  [policy |-> Unset, accounts |-> [a \in Accounts |-> "untracked"],
   owners |-> [w \in Wallets |-> Unset]]

Worlds ==
  [blacklist: [Issuers -> [Wallets -> {"absent", "active"}]],
   allowlist: [Issuers -> [Wallets -> {"absent"}]],
   attestation: [SasConfigs -> [Wallets -> {NoAttestation, Live}]]]

\* start() opens the two streams that do not depend on a mint, then resyncs.
Booted ==
  /\ streams' = [s \in Streams |-> IF s \in {"policies", "sas"} THEN "first" ELSE "closed"]
  /\ notes' = [s \in Streams |-> <<>>]
  /\ index' = NoIndex /\ cache' = Unset /\ requested' = FALSE /\ started' = "resync"
  /\ tasks' = [t \in Tasks |-> IF t = "resync" THEN [pc |-> "policies"] ELSE IdleTask]
  /\ freezing' = [a \in Accounts |-> IdleRun]

Init ==
  /\ \E p \in Policies, w \in Worlds, t \in [Accounts -> {"frozen", "initialized"}] :
       chain = [slot |-> 0, policy |-> p, world |-> w, tokens |-> t]
  /\ node = chain
  /\ streams = [s \in Streams |-> IF s \in {"policies", "sas"} THEN "first" ELSE "closed"]
  /\ notes = [s \in Streams |-> <<>>]
  /\ index = NoIndex /\ cache = Unset /\ requested = FALSE /\ started = "resync"
  /\ tasks = [t \in Tasks |-> IF t = "resync" THEN [pc |-> "policies"] ELSE IdleTask]
  /\ freezing = [a \in Accounts |-> IdleRun]
  /\ bounds \in Environments

Spend(b) == bounds[b] > 0 /\ bounds' = [bounds EXCEPT ![b] = @ - 1]

-----------------------------------------------------------------------------
(* The chain (external).  A change is notified on one stream at most, and  *)
(* only while the keeper is subscribed to it.                              *)

Notified(stream, note) ==
  IF stream \in Streams /\ streams[stream] = "up"
    THEN [notes EXCEPT ![stream] = Append(@, note)] ELSE notes

Silent == "silent"

\* Slots tell nothing when the node is never behind.
NextSlot == IF bounds.lagging THEN chain.slot + 1 ELSE chain.slot

ChangeTo(c, stream, note) ==
  /\ chain' = [c EXCEPT !.slot = NextSlot]
  /\ node' = IF bounds.lagging THEN node ELSE chain'
  /\ notes' = Notified(stream, note)

ChangePolicy(p) ==
  /\ "policy" \in bounds.kinds /\ p # chain.policy
  /\ ChangeTo([chain EXCEPT !.policy = p], "policies", [policy |-> p, slot |-> NextSlot])

SetAttestation(c, w, account) ==
  /\ "attestation" \in bounds.kinds /\ account # chain.world.attestation[c][w]
  /\ account = Expired => chain.world.attestation[c][w] = Live
  /\ ChangeTo([chain EXCEPT !.world.attestation[c][w] = account],
              IF account = Expired THEN Silent ELSE "sas", [sas |-> c, wallet |-> w, slot |-> NextSlot])

\* Only additions are triggers.
SetBlacklist(i, w, cell) ==
  /\ "blacklist" \in bounds.kinds
  /\ IF cell = "active" THEN chain.world.blacklist[i][w] # "active"
                        ELSE chain.world.blacklist[i][w] = "active"
  /\ ChangeTo([chain EXCEPT !.world.blacklist[i][w] = cell],
              IF cell = "active" THEN i ELSE Silent, [issuer |-> i, wallet |-> w, slot |-> NextSlot])

\* The issuer, or somebody at the gate, thaws or freezes.
SetToken(a, state) ==
  /\ "token" \in bounds.kinds /\ state # chain.tokens[a]
  /\ ChangeTo([chain EXCEPT !.tokens[a] = state], "tokens", [account |-> a, state |-> state, slot |-> NextSlot])

Change ==
  /\ Spend("changes")
  /\ \/ \E p \in Policies : ChangePolicy(p)
     \/ \E c \in SasConfigs, w \in Wallets, x \in {NoAttestation, Live, Expired} : SetAttestation(c, w, x)
     \/ \E i \in Issuers, w \in Wallets, cell \in {"active", "inactive"} : SetBlacklist(i, w, cell)
     \/ \E a \in Accounts, s \in {"frozen", "initialized"} : SetToken(a, s)
  /\ UNCHANGED <<streams, index, cache, requested, started, tasks, freezing>>

CatchUp ==
  /\ node # chain
  /\ node' = chain
  /\ UNCHANGED <<chain, streams, notes, index, cache, requested, started, tasks, freezing, bounds>>

\* What the gate says of a freeze (GateDecision); its list matches its policy.
GateFreezes(c, w) ==
  Decide("Freeze", Terms[c.policy], ExtraMetas(Terms[c.policy]), c.world, w, FALSE, TRUE, Now).allow

\* The accounts a list puts into an instruction; Token ACL fails the freeze if
\* one that the gate's list names is not there.
Supplied(p) == LET terms == Terms[p] metas == ExtraMetas(terms)
               IN  {<<metas[i].kind, metas[i].key, terms.issuer_program, terms.sas>> :
                      i \in DOMAIN metas}

Accepts(c, a, list) ==
  Supplied(c.policy) \subseteq Supplied(list) /\ GateFreezes(c, OwnerOf[a])

-----------------------------------------------------------------------------
(* keeper.ts openStream.                                                   *)

\* The first connection asks for nothing, a reconnection for a resync.
Connect(s) ==
  /\ streams[s] \in {"first", "down"}
  /\ streams' = [streams EXCEPT ![s] = "up"]
  /\ requested' = (requested \/ streams[s] = "down")
  /\ UNCHANGED <<chain, node, notes, index, cache, started, tasks, freezing, bounds>>

Drop(s) ==
  /\ streams[s] = "up" /\ Spend("faults")
  /\ streams' = [streams EXCEPT ![s] = "down"]
  /\ notes' = [notes EXCEPT ![s] = <<>>]
  /\ UNCHANGED <<chain, node, index, cache, requested, started, tasks, freezing>>

-----------------------------------------------------------------------------
(* holders.ts and keeper.ts check, as far as the first await.              *)

Tracked(ix)        == ix.policy # Unset
Thawed(ix, w)      == {a \in Accounts : OwnerOf[a] = w /\ ix.accounts[a] = "initialized"}
ThawedOwners(ix)   == {w \in Wallets : Thawed(ix, w) # {}}

\* Mutant: the entry keeps the policy it was created with.
SetMintKeepsPolicy(ix, p) ==
  [ix EXCEPT !.policy = IF @ = Unset THEN p ELSE @, !.owners = [w \in Wallets |-> Unset]]

SetMint(ix, p) == [ix EXCEPT !.policy = p, !.owners = [w \in Wallets |-> Unset]]

\* Mutant: owners whose facts are known are not read again.
CheckOfNewOwners(ix, owners, min) ==
  LET targets == {w \in owners \cap ThawedOwners(ix) : ix.owners[w] = Unset}
  IN  IF ~Tracked(ix) \/ targets = {} THEN IdleTask
      ELSE [pc |-> "derive", min |-> min, under |-> ix.policy,
            facts |-> [w \in targets |-> ix.owners[w]]]

\* A check of `owners` over the index ix, before its first await: the owners
\* whose facts it has and the policy it derives the others under.
CheckOf(ix, owners, min) ==
  LET targets == owners \cap ThawedOwners(ix)
  IN  IF ~Tracked(ix) \/ targets = {} THEN IdleTask
      ELSE [pc |-> "derive", min |-> min, under |-> ix.policy,
            facts |-> [w \in targets |-> ix.owners[w]]]

\* holders.ts owner: the first to derive an owner's facts stores them.
Derive(t) ==
  LET task == tasks[t]
      facts == [w \in DOMAIN task.facts |->
                  IF task.facts[w] # Unset THEN task.facts[w]
                  ELSE IF index.owners[w] # Unset THEN index.owners[w] ELSE task.under]
      derived == {w \in DOMAIN task.facts : task.facts[w] = Unset}
  IN  /\ task.pc = "derive"
      /\ index' = [index EXCEPT !.owners =
                     [w \in Wallets |-> IF w \in derived THEN facts[w] ELSE @[w]]]
      /\ tasks' = [tasks EXCEPT ![t] =
                     [pc |-> "read", min |-> task.min, facts |-> facts,
                      plan |-> UNION {Thawed(index, w) : w \in DOMAIN facts}]]
      /\ UNCHANGED <<chain, node, streams, notes, cache, requested, started, freezing, bounds>>

\* What a read of the owner's PDAs gives under policy p when they were derived
\* under q: an account of another program or credential is "bad", which
\* freezeReason treats as unread.
Reads(p, q, world, w) ==
  LET facts == Terms[q]
  IN  [off_curve |-> FALSE, allowlist |-> NoEntryRead,
       blacklist |->
         IF ~facts.check_blacklist THEN NoEntryRead
         ELSE LET cell == world.blacklist[facts.issuer_program][w]
              IN  IF cell = "absent" \/ facts.issuer_program = Terms[p].issuer_program
                    THEN EntryRead(cell) ELSE EntryRead("foreign"),
       attestation |->
         IF ~facts.require_sas THEN NoAttestationRead
         ELSE LET account == world.attestation[facts.sas][w]
              IN  IF ~account.exists \/ facts.sas = Terms[p].sas
                    THEN AttestationRead(account) ELSE NoAttestationRead]

\* The answer has arrived: token states go to the index, and the thawed
\* accounts of owners the gate would flag, under the policy the index has by
\* now, go to the freezer.
Finish(t) ==
  LET task  == tasks[t]
      seen  == task.answer
      owner(w) == FreezeReason(Terms[index.policy], Reads(index.policy, task.facts[w], seen.world, w), Now)
      todo  == {a \in task.plan : /\ seen.tokens[a] = "initialized"
                                  /\ owner(OwnerOf[a]) # NoReason}
  IN  /\ task.pc = "finish"
      /\ index' = [index EXCEPT !.accounts =
                     [a \in Accounts |-> IF a \in task.plan THEN seen.tokens[a] ELSE @[a]]]
      /\ freezing' = [a \in Accounts |->
                        IF a \in todo /\ freezing[a].pc = "idle"
                          THEN [pc |-> "build", min |-> task.min] ELSE freezing[a]]
      /\ tasks' = [tasks EXCEPT ![t] =
                     IF todo # {} /\ t \in {"sweep", "resync"}
                       THEN [pc |-> "await", on |-> todo] ELSE IdleTask]
      /\ UNCHANGED <<chain, node, streams, notes, cache, requested, started, bounds>>

\* The sweep and the resync wait for their freezes.
Awaited(t) ==
  /\ tasks[t].pc = "await"
  /\ \A a \in tasks[t].on : freezing[a].pc = "idle"
  /\ tasks' = [tasks EXCEPT ![t] = IdleTask]
  /\ UNCHANGED <<chain, node, streams, notes, index, cache, requested, started, freezing, bounds>>

-----------------------------------------------------------------------------
(* keeper.ts sweep, resync, loadMint.                                      *)

\* start() sweeps after its first resync, and then the timers run.  A sweep
\* reads the clock and checks everybody at or after its slot.
StartSweep ==
  /\ tasks["sweep"] = IdleTask
  /\ started = "resync" => tasks["resync"] = IdleTask /\ ~requested
  /\ started' = IF started = "resync" THEN "sweep" ELSE "loops"
  /\ tasks' = [tasks EXCEPT !["sweep"] = CheckOf(index, Wallets, node.slot)]
  /\ UNCHANGED <<chain, node, streams, notes, index, cache, requested, freezing, bounds>>

StartResync ==
  /\ tasks["resync"] = IdleTask
  /\ requested \/ started = "loops"
  /\ requested' = FALSE
  /\ tasks' = [tasks EXCEPT !["resync"] = [pc |-> "policies"]]
  /\ UNCHANGED <<chain, node, streams, notes, index, cache, started, freezing, bounds>>

\* The node answers: policies and accounts are listed at whatever slot it has,
\* a check's reads wait for the slot of its trigger.
Answer(t) ==
  LET task == tasks[t]
  IN  /\ \/ task.pc = "policies"
            /\ tasks' = [tasks EXCEPT ![t] = [pc |-> "load", policy |-> node.policy]]
         \/ task.pc = "list"
            /\ tasks' = [tasks EXCEPT ![t] = [pc |-> "fill", min |-> task.min, tokens |-> node.tokens]]
         \/ task.pc = "read" /\ node.slot >= task.min
            /\ tasks' = [tasks EXCEPT ![t] =
                           [pc |-> "finish", min |-> task.min, facts |-> task.facts,
                            plan |-> task.plan,
                            answer |-> [world |-> node.world, tokens |-> node.tokens]]]
      /\ UNCHANGED <<chain, node, streams, notes, index, cache, requested, started, freezing, bounds>>

\* loadMint up to the listing; a resync keeps an entry whose policy it knows,
\* the policy handler has just replaced it.
Load(t) ==
  LET p == tasks[t].policy
      changed == tasks[t].pc = "gated" \/ index.policy # p
  IN  /\ tasks[t].pc \in {"load", "gated"}
      /\ index' = IF changed THEN SetMint(index, p) ELSE index
      /\ cache' = IF changed THEN Unset ELSE cache
      /\ tasks' = [tasks EXCEPT ![t] =
                     [pc |-> "list", min |-> IF tasks[t].pc = "gated" THEN tasks[t].min ELSE 0]]
      /\ UNCHANGED <<chain, node, streams, notes, requested, started, freezing, bounds>>

\* The streams a tracked policy needs, refreshIssuerStreams included.
Refreshed(p) ==
  [s \in Streams |->
     LET wanted == /\ s = Terms[p].issuer_program
                   /\ Terms[p].check_blacklist \/ Terms[p].allowlist_mode # "Off"
     IN  IF s \in {"policies", "sas"} THEN streams[s]
         ELSE IF s \in Issuers /\ ~wanted THEN "closed"
         ELSE IF streams[s] = "closed" THEN "first" ELSE streams[s]]

\* Mutant: the listing only adds the accounts that are not tracked yet.
FillMerges(t) ==
  LET ix == [index EXCEPT !.accounts =
               [a \in Accounts |-> IF @[a] = "untracked" THEN tasks[t].tokens[a] ELSE @[a]]]
  IN  /\ tasks[t].pc = "fill"
      /\ index' = ix
      /\ streams' = Refreshed(index.policy)
      /\ notes' = [s \in Streams |-> IF streams'[s] = "closed" THEN <<>> ELSE notes[s]]
      /\ tasks' = [tasks EXCEPT ![t] = CheckOf(ix, Wallets, tasks[t].min)]
      /\ UNCHANGED <<chain, node, cache, requested, started, freezing, bounds>>

\* The listing replaces the accounts; then everybody is checked.
Fill(t) ==
  LET ix == [index EXCEPT !.accounts = tasks[t].tokens]
  IN  /\ tasks[t].pc = "fill"
      /\ index' = ix
      /\ streams' = Refreshed(index.policy)
      /\ notes' = [s \in Streams |-> IF streams'[s] = "closed" THEN <<>> ELSE notes[s]]
      /\ tasks' = [tasks EXCEPT ![t] = CheckOf(ix, Wallets, tasks[t].min)]
      /\ UNCHANGED <<chain, node, cache, requested, started, freezing, bounds>>

-----------------------------------------------------------------------------
(* keeper.ts onPolicy, onSasLogs, onIssuerLogs, onTokenAccount.            *)

Pop(s) == notes' = [notes EXCEPT ![s] = Tail(@)]

OnPolicy(h, note) ==
  /\ tasks' = [tasks EXCEPT ![h] = [pc |-> "gated", policy |-> note.policy, min |-> note.slot]]
  /\ UNCHANGED index

\* The SAS log names no wallet: the transaction's keys are fetched first.
OnSasLogs(h, note) ==
  /\ tasks' = IF \E w \in Wallets : index.owners[w] # Unset /\ Terms[index.owners[w]].require_sas
                THEN [tasks EXCEPT ![h] = [pc |-> "keys", sas |-> note.sas, wallet |-> note.wallet,
                                           min |-> note.slot]]
                ELSE tasks
  /\ UNCHANGED index

OnIssuerLogs(h, note) ==
  /\ tasks' = IF Tracked(index) /\ Terms[index.policy].issuer_program = note.issuer
                THEN [tasks EXCEPT ![h] = CheckOf(index, {note.wallet}, note.slot)] ELSE tasks
  /\ UNCHANGED index

OnTokenAccount(h, note) ==
  LET ix == [index EXCEPT !.accounts[note.account] = note.state]
      newly == note.state = "initialized" /\ index.accounts[note.account] # "initialized"
  IN  IF ~Tracked(index) THEN UNCHANGED <<index, tasks>>
      ELSE /\ index' = ix
           /\ tasks' = IF newly
                         THEN [tasks EXCEPT ![h] = CheckOf(ix, {OwnerOf[note.account]}, note.slot)]
                         ELSE tasks

Deliver(s) ==
  \E h \in Handlers :
    /\ notes[s] # <<>> /\ tasks[h] = IdleTask
    /\ CASE s = "policies" -> OnPolicy(h, Head(notes[s]))
         [] s = "sas"      -> OnSasLogs(h, Head(notes[s]))
         [] s = "tokens"   -> OnTokenAccount(h, Head(notes[s]))
         [] s \in Issuers  -> OnIssuerLogs(h, Head(notes[s]))
    /\ Pop(s)
    /\ UNCHANGED <<chain, node, streams, cache, requested, started, freezing, bounds>>

\* dependents: the owners whose facts name the attestation's address.
Keys(t) ==
  LET w == tasks[t].wallet
      facts == index.owners[w]
      owners == IF facts = Unset THEN {}
                ELSE IF Terms[facts].require_sas /\ Terms[facts].sas = tasks[t].sas THEN {w} ELSE {}
  IN  /\ tasks[t].pc = "keys"
      /\ tasks' = [tasks EXCEPT ![t] = CheckOf(index, owners, tasks[t].min)]
      /\ UNCHANGED <<chain, node, streams, notes, index, cache, requested, started, freezing, bounds>>

\* An RPC call failed for good: the task ends, logged, and with it the process
\* if start() was waiting for it (main.ts; docker-compose restarts it).
Fail(t) ==
  /\ tasks[t].pc \in {"policies", "list", "read", "gated", "keys"}
  /\ Spend("faults")
  /\ IF t = started THEN Booted
     ELSE /\ tasks' = [tasks EXCEPT ![t] = IdleTask]
          /\ requested' = (requested /\ t # "resync")
          /\ UNCHANGED <<streams, notes, index, cache, started, freezing>>
  /\ UNCHANGED <<chain, node>>

-----------------------------------------------------------------------------
(* freezer.ts: one run per token account, its outcome shared by every      *)
(* check that asked for it.                                                *)

\* The list comes from the per-mint cache, or from the node at any slot.
Build(a) ==
  /\ freezing[a].pc = "build"
  /\ cache' = IF cache = Unset THEN node.policy ELSE cache
  /\ freezing' = [freezing EXCEPT ![a] = [pc |-> "send", min |-> @.min, list |-> cache']]
  /\ UNCHANGED <<chain, node, streams, notes, index, requested, started, tasks, bounds>>

\* Preflight on the node, then the transaction lands.  The instruction is
\* idempotent: on a frozen account it succeeds without asking the gate.
Send(a) ==
  LET Passes(c) == c.tokens[a] = "frozen" \/ Accepts(c, a, freezing[a].list)
      frozen == Passes(node) /\ Passes(chain)
  IN  /\ freezing[a].pc = "send" /\ node.slot >= freezing[a].min
      /\ freezing' = [freezing EXCEPT ![a] = [pc |-> "sent", frozen |-> frozen]]
      /\ IF frozen /\ chain.tokens[a] # "frozen"
           THEN ChangeTo([chain EXCEPT !.tokens[a] = "frozen"], "tokens",
                         [account |-> a, state |-> "frozen", slot |-> NextSlot])
           ELSE UNCHANGED <<chain, node, notes>>
      /\ UNCHANGED <<streams, index, cache, requested, started, tasks, bounds>>

\* An attempt that failed to send or expired is made again, MAX_ATTEMPTS times.
Retry(a) ==
  /\ freezing[a].pc = "send" /\ Spend("faults")
  /\ \/ freezing' = [freezing EXCEPT ![a] = [pc |-> "build", min |-> @.min]]
     \/ freezing' = [freezing EXCEPT ![a] = IdleRun]
  /\ UNCHANGED <<chain, node, streams, notes, index, cache, requested, started, tasks>>

\* The outcome reaches the checks that wait for it, and the index.
Outcome(a) ==
  /\ freezing[a].pc = "sent"
  /\ freezing' = [freezing EXCEPT ![a] = IdleRun]
  /\ index' = IF freezing[a].frozen THEN [index EXCEPT !.accounts[a] = "frozen"] ELSE index
  /\ UNCHANGED <<chain, node, streams, notes, cache, requested, started, tasks, bounds>>

-----------------------------------------------------------------------------
Restart ==
  /\ Spend("faults")
  /\ Booted
  /\ UNCHANGED <<chain, node>>

TaskStep(t) ==
  Answer(t) \/ Load(t) \/ Fill(t) \/ Keys(t) \/ Derive(t) \/ Finish(t) \/ Awaited(t)

FreezeStep(a) == Build(a) \/ Send(a) \/ Outcome(a)

Next ==
  \/ Change \/ CatchUp
  \/ \E s \in Streams : Connect(s) \/ Drop(s) \/ Deliver(s)
  \/ StartSweep \/ StartResync
  \/ \E t \in Tasks : TaskStep(t) \/ Fail(t)
  \/ \E a \in Accounts : FreezeStep(a) \/ Retry(a)
  \/ Restart

\* What TaskStep and FreezeStep wait for.
TaskReady(t) ==
  \/ tasks[t].pc \in {"policies", "load", "gated", "list", "fill", "keys", "derive", "finish"}
  \/ tasks[t].pc = "read" /\ node.slot >= tasks[t].min
  \/ tasks[t].pc = "await" /\ \A a \in tasks[t].on : freezing[a].pc = "idle"

FreezeReady(a) ==
  \/ freezing[a].pc \in {"build", "sent"}
  \/ freezing[a].pc = "send" /\ node.slot >= freezing[a].min

\* What a finite amount of work finishes: streams, notifications, handlers.
Events ==
  \/ CatchUp
  \/ \E s \in Streams : Connect(s) \/ Deliver(s)
  \/ \E h \in Handlers : TaskStep(h)

EventsReady ==
  \/ node # chain
  \/ \E s \in Streams : streams[s] \in {"first", "down"}
  \/ \E s \in Streams, h \in Handlers : notes[s] # <<>> /\ tasks[h] = IdleTask
  \/ \E h \in Handlers : TaskReady(h)

SweepReady ==
  \/ TaskReady("sweep")
  \/ /\ tasks["sweep"] = IdleTask
     /\ \/ started = "resync" /\ tasks["resync"] = IdleTask /\ ~requested
        \/ started = "sweep"
        \/ started = "loops" /\ CheckOf(index, Wallets, node.slot) # IdleTask

ResyncReady ==
  TaskReady("resync") \/ (tasks["resync"] = IdleTask /\ (requested \/ started = "loops"))

\* The event loop runs whatever is ready, the timers of the sweep and the
\* resync fire, dropped sockets reconnect, the node follows the chain.
Fairness ==
  /\ []<>~EventsReady \/ []<><<Events>>_vars
  /\ []<>~SweepReady \/ []<><<StartSweep \/ TaskStep("sweep")>>_vars
  /\ []<>~ResyncReady \/ []<><<StartResync \/ TaskStep("resync")>>_vars
  /\ \A a \in Accounts : []<>~FreezeReady(a) \/ []<><<FreezeStep(a)>>_vars

Spec == Init /\ [][Next]_vars /\ Fairness

-----------------------------------------------------------------------------
(* Properties.                                                             *)

Freezable(a) == chain.tokens[a] = "initialized" /\ GateFreezes(chain, OwnerOf[a])

\* Facts of another policy than the index's, or a list of another than the
\* mint's, are in the keeper's memory.
StaleMemory ==
  \/ \E w \in Wallets : index.owners[w] \notin {Unset, index.policy}
  \/ cache \notin {Unset, chain.policy}

\* No account that anyone may freeze stays thawed for ever, whatever
\* notifications, transactions and runs of the keeper are lost (keeper README:
\* "the sweep covers anything a websocket missed"); unless the policy changes and
\* the keeper is left with facts or a list of the one before.
FreezesAll == \A a \in Accounts : []<>(~Freezable(a) \/ ("policy" \in bounds.kinds /\ StaleMemory))

\* The index ends up with the mint's policy and the state of every token
\* account (GET /mints/:mint, which the screener relies on).
IndexConverges ==
  <>[](index.policy = chain.policy /\ index.accounts = chain.tokens)

\* An owner's stored facts are those of the entry's policy (holders.ts: "A
\* changed policy drops the owners' PDAs and reads (they depend on it)").
FactsFollowPolicy == \A w \in Wallets : index.owners[w] \in {Unset, index.policy}
=============================================================================
