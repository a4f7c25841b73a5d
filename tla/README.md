# ThawGate in TLA+

A verification project for ThawGate: a Token ACL gate program for Solana, the
stablecoin program it was built for (sss-token), and the services, the SDK, the
command line and the console around them.  The modules model the code from its
source, TLC checks them on small instances, and TLAPS proves every safety property
that TLC checks, of the programs, the services and their clients, for all values of
the constants; liveness stays with TLC.  `PROJECT.json` lists every run, theorem,
hazard and the source lines of every definition.

    tlc -config MCTokenAclGate.cfg MCTokenAclGate.tla
    tlapm TokenAclGate_proofs.tla

## The system

| Part | State it keeps | Operations | What makes it correct |
|---|---|---|---|
| **thawgate-gate** (program) | per mint: `GatePolicy`, two extra-metas lists | `init_policy`, `update_policy`, `setup_extra_metas`, `can_thaw_permissionless`, `can_freeze_permissionless` | the decision is the written policy; the lists match the policy |
| **sss-token** (program) | per mint: config, roles, quotas, reserves, pause, blacklist and allowlist entries | initialize, roles, mint, burn, pause, freeze, blacklist, allowlist, seize, reserves, enable_token_acl | one master, one pause, frozen means frozen, mints are backed |
| **transfer-hook** (program) | one extra-metas list | `execute` on each transfer | no transfer signed by a blacklisted wallet or to one, none while paused |
| **demo-pool** (program) | reserves of a constant-product pool | init, deposit, swap, create_vault | the product never falls |
| **keeper** (service) | an index of owners and token accounts, streams, caches | re-checks owners on events and on a timer, sends permissionless freezes | every freezable account is frozen in the end; the index converges |
| **attestor** (service) | nothing | read a report, compare, `attest_reserves`, confirm | the chain comes to say what the report says |
| **screener** (compliance service) | tracked wallets, pending blacklistings | poll the keeper, screen holders, `add_to_blacklist` | a flagged holder is blacklisted; an operator's removal stands |
| **indexer**, **mint service** | Postgres rows and totals | record transactions; mint and burn on request | one row per transaction, counted once |
| **webhook service** | subscriptions, deliveries, a queue | deliver, retry, record | each delivery's status is true, each ends |
| **SDK** | none | read the chain, build and simulate transactions | what was not asked for stays; answers are about the state they speak of |
| **CLI** | config file, audit log | commands of one or more transactions | the audit log is true; update flags change only themselves |
| **console** (frontend) | per wallet a saved run; per page what it read | wizard, attest and mint cards, unlock, pages of a mint | a resumed run does not do a step twice or skip one; a page shows the mint it names |

Token-2022, Token ACL, the Solana Attestation Service (SAS), the RPC node, its
websockets, wallets and Postgres are outside the repository.  They are modelled
from how the code uses them and marked external in the map.

How the parts meet:

- **Shared accounts.**  thawgate-gate, sss-token, the transfer hook and Token ACL
  are called in transactions on the same mint.  sss-token writes the blacklist
  and allowlist entries that the gate and the hook read; `enable_token_acl` makes
  the mint a Token ACL mint and writes the first `GatePolicy`.
- **CPIs.**  Token ACL calls the gate with the accounts an extra-metas list
  resolves to; sss-token calls Token-2022 and Token ACL.
- **Transactions.**  CLI, console, attestor, screener and mint service send them
  and wait for a confirmation that may not come; what was sent may land later.
- **Notifications.**  The keeper and the indexer follow account and log
  subscriptions, which may drop, and re-list by RPC, which may lag.
- **HTTP.**  The screener and the console read the keeper's index
  (`GET /mints/:mint`); the mint service fronts sss-token.
- **Postgres.**  Indexer, mint service and webhook service write the same
  `stablecoins` table.

The hard behaviours: instructions of several signers in any order on one mint;
the u64 and expiry boundaries of the decisions; and outside the programs, awaits
between a read and its use, answers out of order, lost and late transactions,
failing calls, and crashes, restarts and reloads with everything in memory.
Every one we know of is a line of `hazards` in `PROJECT.json`, with the property
that watches it, or a note that says why none does: in several of them the code
does go wrong, and the property excuses the case by name (see Seen while modelling).

## The modules

| Module | Models | Notes |
|---|---|---|
| `GateDecision` | gate `metas.rs`, `registry.rs`, `sas.rs`, `decision.rs`, `token_acl.rs` | pure operators: the extra-metas list of a policy, what Token ACL resolves it to, the readers, `Evaluate`, `Decide` |
| `KeeperPolicy` | keeper `policy.ts`, `accounts.ts` | the keeper's copy of the freeze rule over its own readers |
| `TokenAclGate` | gate `init_policy`, `update_policy`, `setup_extra_metas`, `can_*_permissionless` in their world | the policy account, both lists, registry entries, attestations, token accounts, clock |
| `GatePromise` | the abstract specification: what a gated mint promises its holders and its issuer | statuses and verdicts only |
| `SssToken` | every state-changing instruction of sss-token, the hook's decision, Token-2022's balances | one mint |
| `Sdk` | the SDK's builders over `SssToken` | what each method's transaction does when it lands |
| `Attestor` | the attestor service beside `SssToken` | one tick, read by read; posts in the network |
| `Cli` | the commands of `commands.ts` over `Sdk` | transactions one by one, confirmations, the audit log |
| `Issuance` | `Attestor` and `Cli` on one mint | the composed system |
| `GateClient` | the SDK's `GateClient`, cli `gate.ts`, the unlock of `/holders`, over `TokenAclGate` | every read a step of its own |
| `Keeper` | keeper `keeper.ts`, `holders.ts`, `freezer.ts` | the index, the streams, the tasks of the event loop, the freezer, over a chain seen through an RPC node |
| `Screener` | the screener of compliance-service | polls, screens, sends and their retries |
| `Indexer`, `WebhookService`, `Services` | indexer and mint service; webhook service; both on one database | one await at a time |
| `Wizard` | `/issuer`: the wizard and the attest card | saved runs, keypairs, transactions in the network |
| `Pages` | `/decisions`, `/reserves`, the mint card | effects, their reads, rows, handlers |
| `Console` | the console: one of the two at a time | |
| `*_proofs` | theorems | see below |
| `MC*` | instances for TLC | |

### GateDecision and TokenAclGate

The gate never looks an extra account up by address: it reads it at an index
that `Layout` computes from the policy, in the list that `write_both` wrote
beside it (`metas`).  `Decide` therefore takes the policy and the list as two
arguments, resolves each meta as Token ACL does, and reads cells by index; a
list left from an older policy gives wrong facts in the model as it would in the
program.  A registry cell is one of absent, active, inactive, or an account of a
foreign or malformed kind; an attestation is absent, malformed (`NoData` level
where a level is wanted) or has an expiry and a level.  Byte layouts, PDAs and
discriminators are reduced to these distinctions.  Each instruction is one
action; its `signer` and `args` range over `Keys` and `PolicyArgs`, the refused
arguments included.  `by` is a history variable: who last set an account's
state.

`GatePromise` says what a reader of the product expects: permissionless thaws
only of accounts whose owner is clear, permissionless freezes only of flagged
ones, everything else only by the issuer.  `KeepsPromise` is the refinement,
with a mapping whose verdict is the policy *as written*, not as computed.

### SssToken, Sdk

A PDA account that does not exist and one that is inactive behave alike for
every instruction, so roles are sets and the registry is two sets of wallets.
`config`, `quota`, `reserve`, `paused` and `mint` are the program's accounts;
`tokens` are Token-2022's, each account with its owner's delegate: a transfer is
signed by either, and the hook reads the entry of whoever signs (`HookAllows`).
`Delegations` says who may be approved for which account.  Amounts are bounded by `U64Max`, which stands for
2^64 - 1, and every `checked_add` that can fail is a guard.  `gate` is the policy
that `enable_token_acl` installs, reduced to "open" or "blacklist": the gate's
own policy changes are `TokenAclGate`'s.  `signed_by` and `last_mint` are history
variables.  `Sdk` adds what a builder decides for its caller: the role record it
shows (one, by name, where the program would take any of several), the
associated token account, the hook accounts it passes or leaves out.

### Attestor, Cli, Issuance

`tick` goes through `tick()` of `attestor.ts`: the report, the attestation and
the clock are read one after the other, so any of them may be old when the post
is built; a post stays in `posts` until it lands or expires, also when its tick
has failed.  A command of `Cli` is a sequence of transactions, each a record of
`Transactions`: the builder of `Sdk` it calls and the arguments that builder takes.
`Interrupted` ends the process in any phase and leaves its transaction among the
`stray` ones.  `audit` is the sum of what the log's lines claim.

### GateClient

`task[c].pc` names what a command does next: `flags` and `merge` are the two
reads of the policy by `policy update` (the CLI's own, then `updatePolicy`'s),
`config`, `exists` and `metadata` those of `swapGate`, `account`, `resolve` and
`simulate` those of `explain` and `freezeIfInvalid`, `build` is
`createAtaAndThaw`, `send` the landing of the transaction.  The list an
instruction was resolved from is kept and compared with the one that Token ACL
resolves when it runs.  The read of the metadata may fail, and the swap then goes
out without the field's update (`unread`); `blind` is a history variable that says
such a swap landed.  `Reported` is what the unlock of the command line says of an
account that was thawed when it was read.

### Keeper

The keeper is one JavaScript event loop: what runs between two awaits is one
step.  Each asynchronous call is a task with a program counter, and each RPC
call is two steps, the node's answer and its arrival, so anything may happen
between.  Tasks: the sweep, the resync, and `Handlers`, a bound on the
notification handlers in flight.

| `pc` | waits for | in the code |
|---|---|---|
| policies, load | the list of policies | `resyncOnce` |
| gated | `gatedByUs` | `onPolicy` |
| list, fill | the list of token accounts | `loadMint` |
| keys | the transaction's account keys | `onSasLogs` |
| derive | the owners' PDAs | `HolderIndex.owner` |
| read, finish | the accounts, at or after `minContextSlot` | `check` |
| await | the freezes it asked for | `check`'s last line |

An owner's stored facts are PDAs that depend on the policy alone, so `index.owners`
holds the policy they were derived under; the freezer's cached list likewise
(`cache`).  A freeze with a list that lacks an account the gate needs fails.  The
chain is external: a change bumps its slot and notifies at most one stream, only
if the keeper is subscribed.  With `lagging` the node's copy follows at its own
pace; without, slots say nothing and are left at 0.  A call that fails for good
ends its task, and the process while `start()` waits for it.

### Screener, Indexer, WebhookService

`Screener` keeps a poll as a set of screens and at most one flush, and a send as
the pair's `sender`; a poll that throws leaves its sends and screens running
(`orphan`), and the next poll overlaps them.  A screen goes by the entries read for
it, and writes to the record it began with: a wallet forgotten and tracked again has
a new one, which the screen does not touch (`known`).  A wallet has one
`lastScreenedAt`, whatever it holds; `settled` is history: the mints its last screen
asked about, less those it has left since and those whose send was refused for the
role, which wait for the next screen.  A send whose answer was lost may land
later (`late`).
`Indexer` runs `writeEventToDb` one await at a time for each
websocket callback and for the poll; `LogsOf` says what a transaction's log lines
contain, in the words `extractEventsFromLogs` looks for.  `WebhookService` models
the queue (BullMQ, external) by its attempts and stalled jobs.

### Wizard, Pages, Console

`Wizard` keeps a saved run per wallet and the handlers under way in `task`, one per
slot of `Slots`.  A handler keeps what it closed over (the mint, the credential and
the wallet of the render its button was pressed in) and writes into the run shown.
The buttons are there when the code renders them enabled; Retry is there whenever
its step has failed, so two handlers may be under way after a wallet switch.
`runStep` asks the chain whether the step landed, sends, waits; the transaction
stays in `flights` after the page stopped waiting.  `lost` and `crossed` are
history variables: mints whose keypair the page forgot, and whether a wallet was
switched under a running step.  The attest card keeps the signer (`by`) and the
credential (`under`) its button was pressed with; a switch between two runs that both
have a credential leaves its status as it is.

In `Pages` an answer belongs to a read and a read to the effect run, the row or
the refresh that asked.  Naming another mint ends the effect run and unmounts its
rows: `live = false` in the code, `Outliving` in the model.  The keeper may answer that it has not judged an owner yet
(`unknown` of the facts); such a row starts no live check of its own.  `late` records that
a mint was named while the mint card was minting or refreshing, whose answers no
`live` flag guards.  `Console` runs either the wizard or one page, the mint named
anew at any moment.

## The runs

| Run | Properties | Instance |
|---|---|---|
| `gate` | `TypeOK`, `ListsMatchPolicy`, `GateDecidesPolicy`, `KeeperAgreesWithGate`, `GateThawedKeepsOwner`, `KeepsPromise` | a wallet and a pool, one account, two registry programs, one credential, every shape of policy and every argument `apply` refuses |
| `sss_token` | `TypeOK`, `OneMaster`, `PauseInStep`, `SupplyWithinMinted`, `FrozenMovesOnlyBySeizure`, `PausedMintIsStill`, `HookHoldsBlacklisted` | two keys handing roles and the master authority on, three accounts of two owners, one of whom may approve the other, every compliance mode |
| `issuance` | `IssuanceTypeOK`, `AuditIsTrue`, `MintsAreBacked`, `ReservesFollowReport` | one operator with one of five scripts (issuing, serving, compliance, administration, minters), the attestor service beside the second |
| `keeper` | `FreezesAll`, `IndexConverges` | one holder, one account, one trouble: a credential that comes, goes or expires behind a lagging node; an account that changes and one fault; a policy change or a blacklisting |
| `screener` | `TypeOK`, `ScreenedStands`, `RemovalStands`, `FlaggedGetsEntry` | one wallet, two mints, two outside changes, one fault |
| `services` | `TypeOK`, `TotalsCountRows`, `StatusTells`, `PollRecords`, `QueuedEnds` | one mint, a poll of two, three transactions (the third only among pauses), one request, one delivery, one fault |
| `console` | `ConsoleTypeOK`, `DoneIsOnChain`, `RetryKeepsMint`, `WizardCompletes`, `ShownIsOfTheMint`, `AmountsAsTyped`, `RowsAreJudged` | two wallets, three keypairs and two handlers with two mishaps; two mints of different decimals, a text that is none, two rows, two namings |
| `gate_client` | `SwapIsWhole`, `UpdateKeepsTheRest`, `AnswersAreTrue` | two clients, two commands of the one, one of the other, one outside change |
| `sss_quota`, `keeper_facts`, `screener_readds`, `services_logs` | violations: see Findings | |

**Bounds.**  `gate`: `Small` keeps at most two registry entries and attestations
at a time, so that a blacklist entry meets an allowlist entry or an attestation of
the same owner; `OneRegistry` lets a policy move between two registry programs and
leave records behind; attestations expire never or at 1 and the clock runs to 2,
so they are seen before, at and after their expiry.  One account is enough for
properties that speak of one account at a time.  `sss_token`: `SetupFirst` only
orders the set-up; `U64Max` is small, so overflow happens.  `issuance`: each
script opens what its commands need (`WhereItMatters`); one change of the report,
one fault and one cut-off command are enough for a late post or a transaction
whose sender is gone.  `keeper`: one handler at a time next to the sweep and the
resync gives every pair and triple of tasks; what each trouble does not touch is
fixed.  `console`: three keypairs allow one more than a reload and a fresh start
need, and two handlers are what a wallet switch can leave side by side;
`AfterCrossing` keeps what follows such a switch small, which all properties but
that of the card excuse, and `CardLast` tries the card once a mint is gated; two
namings let a mint be left and come back to.  `services`: three transactions and a
poll of two let one leave the window; there only pauses are made, one callback at a
time (`AFewPauses`).  `gate_client`: a second
client with one command meets every step of the first.  `screener`: two mints of one
wallet share its record, and a second outside change may undo the first.  The
theorems remove the bounds from every invariant and every action property; liveness
is checked within them.

**Deadlock** is checked where the system always has something to do (`gate`,
`sss_token`, `keeper`, `screener`); runs whose clients may all be done switch it off.

**Fairness.**  The programs need none: they promise nothing unless somebody calls.
- `Keeper`: the event loop runs whatever is ready, the timers of the sweep and the
  resync fire (`loop`), dropped sockets reconnect (`openStream`), the node follows
  the chain.  `EventsReady`, `SweepReady`, `ResyncReady` and `FreezeReady` spell out
  when those actions are enabled, so each conjunct is weak fairness without
  `ENABLED`, which TLC evaluates far more slowly.
- `Screener`, `Indexer`, `WebhookService`: polls come round (`setInterval`), an
  await ends in an answer or an error, BullMQ runs its jobs.
- `Attestor`: the loop goes round; a post lands, is refused or expires.
- `Wizard`: some handler goes on while one can (a read or a transaction is
  answered, if only with an error), and the issuer presses what the page offers.  `savePolicy` and `enable` need strong
  fairness, as `changePolicy` takes them away and gives them back.
- `Pages`: every read is answered.

Nothing is assumed of the chain's other users, of faults, or of the order of tasks.

**Mutants.**  Operators marked "Mutant" are plausible bugs (a list written once
instead of twice, a resync that only adds accounts, an effect that is not cleaned
up, a page that restores a running step as running); each property is violated
when one of them takes its original's place.  No specification uses them.

## Findings

1. **A Daily quota never resets** (`sss_quota`).  `QuotaPeriod::Daily` is
   documented as "Quota resets every 24 hours."; `mint_handler` only adds to
   `used` and never looks at the period.
2. **An owner can be left with an old policy's PDAs** (`keeper_facts`).
   `HolderIndex.owner` derives PDAs across awaits and stores them without
   checking that the entry's policy is still the one they were derived under.
   With that, the keeper reads the wrong accounts for that owner at every check
   until the policy changes again or the process restarts; `FreezesAll` excuses it.
3. **A removed wallet is blacklisted again** (`screener_readds`).  `flushPending`
   retries a pending blacklisting without reading the entry, although
   SANCTIONS.md promises that an operator's removal is never undone.
4. **The indexer records nothing of sss-token** (`services_logs`).  Anchor events
   are base64 in the logs; `decodeEventByDiscriminator` knows none, and the
   fallback looks for names and a mint address that the program does not print.
   `services` checks the indexer for logs of the form it looks for.

Seen while modelling, and stated here only:

- sss-token: `total_minted - total_burned` bounds the supply neither way (seized
  tokens count as burned and exist; holders' own burns are uncounted), yet the mint
  service (`index.ts:330`) and the CLI's `supply` show it or `total_minted` as the
  net supply.  `transfer_authority` leaves `GatePolicy.authority` with the old
  master.  Pausing a hook mint blocks seizures (`pause.rs` and `seize.rs` say so).
- Transfer hook: the source's blacklist entry is derived from account 3, the signing
  authority (`lib.rs:106-118`, `execute.rs:137`), so a delegate whom a blacklisted
  holder approved, and who is not blacklisted, moves his tokens.
  `HookHoldsBlacklisted` says what holds besides.
- Screener: `lastScreenedAt` is one per wallet and stays when a send is refused for a
  missing role (`screener.ts:431`) or when the wallet joins another mint
  (`screener.ts:295`).  A wallet that another eligible mint keeps tracked then waits
  for `SCREENER_RESCREEN_MS` or a list edit, where SANCTIONS.md (lines 44 and 49)
  says the first or the next poll.  `ScreenedStands` speaks of `settled` mints only;
  `FlaggedGetsEntry` shows that the wait ends.
- Keeper: `freezer.ts:287` fetches the extra-metas list without `minContextSlot`; after
  a policy change a lagging node may hand back the old one (`FreezesAll` excuses a
  list of an earlier policy).
- CLI: `holders` filters accounts by the size of one without extensions, so
  associated Token-2022 accounts are not listed; `seize` passes no hook accounts,
  so mints with the hook cannot be seized from it; `freeze`, `thaw` and `pause` show
  one default role record; several commands write no audit line;
  `unlock` prints `already_unlocked` from the account as `explain` read it first
  (`gate.ts:271-273`), whatever the simulation said, so of an account frozen since
  too (`AnswersAreTrue` does not speak of that answer).
- SDK: `updatePolicy` turning the blacklist on for a policy created without lists
  keeps the default key as issuer program and is refused; `swapGate` merges into an
  existing policy where its comment says it rewrites it; a metadata read that fails
  is taken for metadata without a gate (`client.ts:327`), so that the mint moves and
  its field goes on naming the old gate (`SwapIsWhole` excuses it: `blind`); two
  updates that cross write older values back (`UpdateKeepsTheRest` excuses it);
  `explain` reports
  "compliant" for every refused freeze, structural ones included.
- Console: a step under way when the wallet is switched writes into the other
  wallet's saved run (`DoneIsOnChain` excuses it: `crossed`), and a second `createCoin`
  may start beside it (`IssuerPage.tsx:142,372`, Retry in `components.tsx:82-86`), so
  that each replaces the keypair (lines 186-190) and two mints are made
  (`RetryKeepsMint` excuses it likewise); after a switch without any running step the
  attest card still shows done, now beside the other wallet's credential, under which
  nothing was attested (lines 509 and 546: `DoneIsOnChain` speaks of the credential the
  button was pressed with); a row whose owner the keeper has not judged yet is never
  checked live by itself (`DecisionsPage.tsx:361`), and a re-check does not replace the
  decision it shows (`RowsAreJudged` excuses it); a mint typed while
  the mint card is at work may get the other mint's status and decimals, and the
  next amount is scaled by them (`AmountsAsTyped` excuses it: `late`); a failed
  `ownerFacts` leaves rows at "Reading…" (`RowsAreJudged` excuses it); the check
  card keeps the result of the mint checked before.
- Services: a send whose answer was lost is signed and sent again by
  `sendWithRetry`, so a mint may happen twice with one row; a request that fails
  between its row and its total is never made up for (`TotalsCountRows` excuses it);
  a delivery that ran again after DELIVERED may end as RETRYING or FAILED
  (`StatusTells` keeps, after a fault, only that what is DELIVERED was received).

## The proofs

| Theorems | State | For any |
|---|---|---|
| `GateDecision_proofs`, `TokenAclGate_proofs` | `TypeOK`, `ListsMatchPolicy`, `GateDecidesPolicy`, `KeeperAgreesWithGate`, `GateThawedKeepsOwner`, `KeepsPromise` | wallets, accounts, issuers, credentials, levels, policies |
| `SssToken_proofs` | `TypeOK`, `OneMaster`, `PauseInStep`, `SupplyWithinMinted`, `FrozenMovesOnlyBySeizure`, `PausedMintIsStill`, `HookHoldsBlacklisted` | keys, accounts, amounts, `U64Max` |
| `Issuance_proofs` | `IssuanceTypeOK`, `AuditIsTrue`, `MintsAreBacked` | scripts, reports, faults |
| `GateClient_proofs` | `SwapIsWhole`, `UpdateKeepsTheRest`, `AnswersAreTrue` | clients and commands |
| `Screener_proofs` | `TypeOK`, `ScreenedStands`, `RemovalStands` | mints, wallets, attempts, faults |
| `Services_proofs` | `TypeOK`, `TotalsCountRows`, `StatusTells` | mints, requests, endpoints, log lines, faults |
| `Console_proofs` | `ConsoleTypeOK`, `DoneIsOnChain`, `RetryKeepsMint`, `ShownIsOfTheMint`, `AmountsAsTyped` | wallets, mints, rows, amounts, mishaps |

So every invariant and every safety action property of a passing run is a theorem.
The table lists the properties; the theorems' names are in `PROJECT.json`.

**Assumptions.**  Nothing but the `ASSUME`s of the modules, which TLC evaluates in the
runs.  Most give types and positive bounds.  Those that say more:

- `GateConstants`: the default key is nobody's, and each of `PolicyArgs` has the
  fields of the program's `PolicyArgs`.
- `SssConstants`: amounts are `u64`s, `Limits` and `Postings` too, and a staleness is
  positive (`set_reserve_attestor` refuses zero).
- `CliAssumption`: a command sends at least one transaction of the types the SDK's
  builders take; a command that mints or burns sends that one transaction and is one
  that writes the log, as `mint` and `burn` of `commands.ts` do.
- `GateClientAssumption`: commands have the flags that their command lines accept; the
  policies of `PolicyArgs`, which the mint may start with, were written through the
  SDK, so that a requirement that is off has no key and no level (`toPolicyArgs`).
- `ConsoleAssumption`: a token's unit is positive and amounts are numbers.

**GateDecision_proofs** shows by cases over the shapes of a policy that the
account at each index of `Layout` is the one `ExtraMetas` puts there
(`ListMatchesLayout`), with lemmas about concatenating three parts.

**TokenAclGate_proofs.**  `TypeCorrect` and `ListsAlwaysMatch` are inductive
together: every instruction that writes the policy writes both lists.  From
matching lists, `DecideReadsPolicy` reduces `Decide` to the policy and the world,
`DecidedMeaning` reduces the decision table to `Complies` and `Readable`, and
`GateAlwaysDecidesPolicy` follows for any wallets, issuers, credentials and
policies.  `GateThawedOwnerStays` needs the strengthening `GateThawedIsImmutable`:
a thawed account whose last setter was the gate has ImmutableOwner, since the
decision asks for it and nothing clears it.  `GateKeepsPromise` maps initial
states to initial states and each action to a step of `GatePromise` or a stutter.
`KeeperAlwaysAgrees` computes the keeper's reason and verdict from its readers
and compares them with the gate's.

**SssToken_proofs.**  The lemmas are about `AnyNext`: the instructions with any
arguments of their types, where `Next` takes those an instance tries (`NextIsAny`).
So they serve the clients' proofs as well, whose arguments come from elsewhere.  The
inductive invariant is `Inv` = `TypeOK`, `OneMaster`, `PauseInStep`, `Untouched`
(before initialize nothing exists) and `ReservesSigned` (posted reserves were signed
by the present attestor: needed because `set_reserve_attestor` changes the attestor,
and what is posted must go with the old one).  `TypeStep` and `InvStep` prove it
action by action.  The action properties follow from it and from what each action
moves (`Moves`).  `SupplyStaysWithinMinted` is inductive given `TypeOK`: only minting
raises the supply, and it raises `total_minted` by as much.

**Issuance_proofs.**  A transaction that lands is a step of `AnyNext`
(`TransactionsAreSteps`), but for `setupMinting`, three instructions in one, which
keeps `Inv` by a proof of its own (`SetUpKeeps`).  `AuditIsTrue` speaks of the log
while a command may stand between its transaction and its line; `Ledger` adds the
amount that has landed and is not yet written (`Unlogged`), and says that without an
interruption nothing else can.  `Unstarted` is there for `initialize`, which
sets the counters to zero: nothing was counted before it.  `MintsAreBacked` holds of
every step, whoever takes it.

**GateClient_proofs.**  `ClientInv` has two parts.  `MintHolds`: the types and lists
of `TokenAclGate`, plain policies, and the property `SwapIsWhole` itself.
`TasksHold`, for each client: which commands pass through which step (`OnItsWay`);
only a check that goes on to a transaction has answered (`Unanswered`); a swap that
read the metadata and saw no other gate has none to replace when it lands, as no
transaction leads the field back to one (`Renames`; a swap whose read failed sets
`blind`); an update that no other policy
crossed still holds what its flags say of the stored one (`Fresh`), which is what
`UpdateKeepsTheRest` needs at the landing; what is simulated is what was resolved for
it (`Looked`).  `AnswersAreTrue` then follows from `TokenAclGate_proofs`: the
simulation decides the policy, the answer names the decision.

**Screener_proofs.**  To `ScreenedStands` the invariant adds what a screen under way
carries: it screens for no list that is yet to come (`Versions`), or its late mark
would outlive an edit; an entry it found is there still (`EntriesStand`: entries are
deactivated and never closed).  `Tracking`, `Counting` and `Polling` relate the
records, the attempts and the senders to the poll.  The proof failed for an earlier
version of `Screener`, at the screen that outlives its poll.  With one wallet there is
none: it takes a send that throws for another wallet of the batch.  With two, that
version took mints as `seen` whose entries the late screen had not read, and let it
change the new record of a wallet forgotten and tracked again, where `screenOne` goes
by the entries it was given and writes to the record it was given.  The module was
wrong and now says that.  The run keeps one wallet; the theorem covers them all.

**Services_proofs.**  `TablesInv`: the signatures of two requests differ, a request
records at most one amount, none before it is told that its transaction landed, and
its stablecoin exists by then (`RequestHolds`); a row is the only one of its table
and transaction (`RowsHold`, the unique index).  From that `TotalsHold`: a total is
the number of rows of requests through with both writes, which the step of each write
keeps by a lemma on cardinalities.  `DeliveriesInv` says what a job has seen of its
endpoint.  The two parts share only `faults` and each is inductive alone.

**Console_proofs.**  The wizard and the pages share nothing, so each has its own
invariant.  `WizardInv`: while no wallet was switched under a handler (`Uncrossed`),
every mint ever sent out is the one whose keypair the page has, or is forgotten
(`OneMint`, which bounds the mints that retries make); a handler works on the run that
is shown, its step is the running one, and no other handler is at that step
(`OwnTasks`); and no step precedes the initialize it needs (`InOrder`).  That no two
handlers share a step follows from the buttons the page offers, and only until a
wallet switch.  Without these a late answer could mark another run's step.  `PagesInv`:
while no mint was named under the mint card's handlers, everything read, held or at
work is of the mint named (`OfTheNamed`).

**Model-checked only.**  Liveness under fairness is out of the prover's reach:
`FreezesAll` and `IndexConverges` of the keeper, `FlaggedGetsEntry`, `PollRecords`,
`QueuedEnds`, `WizardCompletes`, `RowsAreJudged` and `ReservesFollowReport`.  The
keeper has no theorem for that reason: between its reads it may be wrong about
anything, and what it promises is where it ends; what it computes from its reads is
`KeeperAgreesWithGate`, which is proved.  The properties of the Findings are false,
and TLC shows it.  TLC and TLAPS use the same definitions; no `.cfg` replaces any.

## Not modelled

- Keeper: `dropMint` and the wanted lists (the mint stays gated and wanted),
  batching, several mints, metrics and HTTP.  The five attempts of a freeze are
  bounded by `faults`; "compliant", "denied" and "failed" are one outcome, as no
  caller tells them apart.  A node that goes back to an earlier slot (several
  nodes behind one URL) is not modelled.
- Transfer hook: the creation of its list.
- Demo pool: a demonstration; its arithmetic is independent of the rest.
- Compliance API, CLI commands that only print, the TUI (fixed text), `/ops` and
  the check card of the console, rendering: no state another part reads.
- Byte layouts, compute budgets, metadata, confidential-transfer stubs.

## The plan

Written so far: the gate and its promise; sss-token; the keeper; the screener; the
database services; attestor, SDK and CLI on one mint; the gate client; the console;
theorems for all their safety properties.  Next:

1. The keeper with `dropMint` and a mint that stops and starts being gated, and
   two accounts of one owner.
2. `SssToken` with the gate's policy authority.
3. An abstract specification of issuance (supply, reserves and the log), with
   `Issuance` shown to implement it, as `GatePromise` is of the gate.
4. `DemoPool` (the product never falls, for all amounts, as a theorem).
