------------------------------ MODULE Screener ------------------------------
(***************************************************************************)
(* The sanctions screener (compliance-service/src/screener): every poll    *)
(* reads the keeper's holders, retries the blacklistings that failed, asks *)
(* the risk provider about the wallets that are due and blacklists those   *)
(* it flags.  Beside it act the operators of the mint, the holders, the    *)
(* provider's list and a faulty network.                                   *)
(*                                                                         *)
(* The chain, per <<mint, wallet>>: entry (the BlacklistEntry) and holds   *)
(* (whether the wallet has a token account); per mint: role (the           *)
(* screener's Blacklister role) and checks (whether the gate policy reads  *)
(* sss-token's blacklist); late has the pairs of which some send, given up *)
(* or cut off, may still land.  list is the provider's data.  The rest is  *)
(* the memory of the process:                                              *)
(*   wallets[w]   WalletState: holdings, whether its last screen is never, *)
(*                current or aged (lastScreenedAt: one for the wallet,     *)
(*                whatever mints it holds later), the list version it was  *)
(*                made for, and the retry backoff.  settled is history:    *)
(*                the mints that screen asked about which the wallet has   *)
(*                kept since and to which no send was refused for the role *)
(*   eligible[m]  the cached answer of isEligible, and its age in polls    *)
(*   pending, attempts   blacklistings decided and not yet made            *)
(*   phase, flush, tasks the poll: pairs still to flush, wallets to screen *)
(*                each with the entries read for it; a screen goes on when  *)
(*                its poll was given up (orphan), and when its record of    *)
(*                the wallet is no longer the tracked one (not known)       *)
(*   sender[p]    whose add_to_blacklist is under way: the flush's, the    *)
(*                screen's, or that of a poll that has been given up       *)
(***************************************************************************)
EXTENDS Integers, FiniteSets

CONSTANTS
  Mints, Wallets,
  Exempt,              \* SCREENER_EXEMPT
  HasVersion,          \* the static list has a version, the Range API none
  MAX_SEND_ATTEMPTS,
  Changes,             \* the kinds of outside change the instance makes ...
  MaxChanges,          \* ... and how many at most
  MaxFaults            \* bound on failed or lost calls and restarts

ASSUME ScreenerAssumption ==
  /\ Exempt \subseteq Wallets
  /\ HasVersion \in BOOLEAN
  /\ MAX_SEND_ATTEMPTS \in Nat \ {0} /\ MaxChanges \in Nat /\ MaxFaults \in Nat

VARIABLES entry, holds, role, checks, late, list,
          wallets, eligible, pending, attempts, phase, flush, tasks, sender,
          changes, faults

chain  == <<entry, holds, role, checks, late>>
memory == <<wallets, eligible, pending, attempts, phase, flush, tasks, sender>>
vars   == <<chain, list, memory, changes, faults>>

Pairs == Mints \X Wallets

Untracked == [tracked |-> FALSE, holdings |-> {}, settled |-> {}, screened |-> "never",
              version |-> 0, backoff |-> FALSE]
Unknown == [why |-> "unknown", age |-> 0]

FreshMemory ==
  /\ wallets = [w \in Wallets |-> Untracked]
  /\ eligible = [m \in Mints |-> Unknown]
  /\ pending = {} /\ attempts = [p \in Pairs |-> 0]
  /\ phase = "idle" /\ flush = {} /\ tasks = {}
  /\ sender = [p \in Pairs |-> "nobody"]

Init ==
  /\ entry = [p \in Pairs |-> "none"]
  /\ holds \in SUBSET Pairs
  /\ role = [m \in Mints |-> TRUE] /\ checks = [m \in Mints |-> TRUE] /\ late = {}
  /\ list \in [version : {1}, flagged : SUBSET Wallets]
  /\ FreshMemory
  /\ changes = 0 /\ faults = 0

MayFail == faults < MaxFaults

-----------------------------------------------------------------------------
(* One poll.                                                               *)

\* Mutant: an answer about the role serves for ever.
IsEligibleOnce(m, failed) ==
  LET known == eligible[m]
  IN  IF ~checks[m] THEN {[why |-> "policy", age |-> 0]}
      ELSE IF known.why \in {"eligible", "no_role"} THEN {known}
      ELSE {[why |-> IF ~failed /\ role[m] THEN "eligible" ELSE "no_role", age |-> 0]}

\* The answers isEligible may give: a known answer about the role serves for
\* ROLE_RECHECK_MS, and a role that cannot be read stays as it was.
IsEligible(m, failed) ==
  LET known == eligible[m]
  IN  IF ~checks[m] THEN {[why |-> "policy", age |-> 0]}
      ELSE (IF known.why \in {"eligible", "no_role"} /\ known.age = 0
              THEN {[known EXCEPT !.age = 1]} ELSE {})
           \cup {[why |-> IF (IF failed THEN known.why = "eligible" ELSE role[m])
                            THEN "eligible" ELSE "no_role", age |-> 0]}

\* Wallets appear with their first holding, keep their record, and with it the
\* time of their screen, while they have one and are forgotten with the last.
Track(w, holdings) ==
  IF holdings = {} THEN Untracked
  ELSE [wallets[w] EXCEPT !.tracked = TRUE, !.holdings = holdings, !.settled = @ \cap holdings]

\* An unreadable keeper leaves the poll without effect.
ReadHoldings ==
  /\ phase = "idle"
  /\ \E failed \in SUBSET Mints :
       /\ faults + Cardinality(failed) <= MaxFaults
       /\ faults' = faults + Cardinality(failed)
       /\ eligible' \in [Mints -> UNION {IsEligible(m, m \in failed) : m \in Mints}]
       /\ \A m \in Mints : eligible'[m] \in IsEligible(m, m \in failed)
  /\ wallets' = [w \in Wallets |->
       Track(w, {m \in Mints : eligible'[m].why = "eligible" /\ <<m, w>> \in holds})]
  /\ tasks' = {[t EXCEPT !.known = @ /\ wallets'[t.wallet].tracked] : t \in tasks}
  /\ phase' = "flush" /\ flush' = pending
  /\ UNCHANGED <<chain, list, pending, attempts, sender, changes>>

IsDue(w) ==
  /\ wallets[w].tracked /\ ~wallets[w].backoff
  /\ \/ wallets[w].screened # "current"
     \/ HasVersion /\ wallets[w].version # list.version

Screened(w, version, read) ==
  [wallets[w] EXCEPT !.screened = "current", !.version = version,
                     !.settled = wallets[w].holdings \cap read, !.backoff = FALSE]

\* screenDue: exempt wallets count as screened; for the others every entry is
\* read, and the poll is put off when the chain does not answer.
ScreenDue ==
  /\ phase = "flush" /\ flush = {} /\ \A p \in Pairs : sender[p] # "flush"
  /\ LET due == {w \in Wallets : IsDue(w)}
     IN  /\ wallets' = [w \in Wallets |->
              IF w \in due \cap Exempt THEN Screened(w, list.version, Mints) ELSE wallets[w]]
         /\ \/ /\ tasks' = tasks \cup
                    {[wallet |-> w, version |-> list.version, orphan |-> FALSE, known |-> TRUE,
                      entries |-> [m \in wallets[w].holdings |-> entry[<<m, w>>]]]
                       : w \in due \ Exempt}
               /\ phase' = "screen" /\ UNCHANGED faults
            \/ /\ due \ Exempt # {} /\ MayFail
               /\ phase' = "idle" /\ faults' = faults + 1 /\ UNCHANGED tasks
  /\ UNCHANGED <<chain, list, eligible, pending, attempts, flush, sender, changes>>

\* Mutant: the poll does not wait for the sends it started.
EndPollEarly ==
  /\ phase = "screen"
  /\ \A t \in tasks : t.orphan
  /\ phase' = "idle"
  /\ UNCHANGED <<chain, list, wallets, eligible, pending, attempts, flush, tasks,
                 sender, changes, faults>>

EndPoll ==
  /\ phase = "screen"
  /\ \A t \in tasks : t.orphan
  /\ \A p \in Pairs : sender[p] # "screen"
  /\ phase' = "idle"
  /\ UNCHANGED <<chain, list, wallets, eligible, pending, attempts, flush, tasks,
                 sender, changes, faults>>

-----------------------------------------------------------------------------
(* Screening one wallet.                                                   *)

\* blacklist(p) as far as its first await: nothing while a send of this pair
\* is under way, and nothing to do for a wallet that left the mint.
Held(p)  == p[1] \in wallets[p[2]].holdings
Sends(P) == {p \in P : sender[p] = "nobody" /\ Held(p)}
Start(P, who) ==
  /\ sender' = [p \in Pairs |-> IF p \in Sends(P) THEN who ELSE sender[p]]
  /\ attempts' = [p \in Pairs |->
       IF p \notin pending' THEN 0
       ELSE IF p \in Sends(P) /\ attempts[p] < MAX_SEND_ATTEMPTS THEN attempts[p] + 1
       ELSE attempts[p]]

\* Mutant: an inactive entry does not keep a wallet from being screened.
OpenUnlessActive(t) == {m \in DOMAIN t.entries : t.entries[m] # "active"}

\* The mints on which the wallet has no entry, active or removed.
Open(t) == {m \in DOMAIN t.entries : t.entries[m] = "none"}

ScreenOne(t) ==
  LET w == t.wallet
      flagged == {<<m, w>> : m \in Open(t)} \ pending
      Done == wallets' = [wallets EXCEPT ![w] =
                IF t.known THEN Screened(w, t.version, DOMAIN t.entries) ELSE @]
  IN  /\ t \in tasks /\ tasks' = tasks \ {t}
      /\ \/ /\ Open(t) = {} \/ w \notin list.flagged        \* skipped, or clean
            /\ Done
            /\ UNCHANGED <<pending, attempts, sender, faults>>
         \/ /\ Open(t) # {} /\ MayFail                      \* the provider fails
            /\ wallets' = [wallets EXCEPT ![w].backoff = @ \/ t.known]
            /\ faults' = faults + 1
            /\ UNCHANGED <<pending, attempts, sender>>
         \/ /\ Open(t) # {} /\ w \in list.flagged           \* flagged
            /\ Done
            /\ pending' = pending \cup {p \in flagged : Held(p) \/ sender[p] # "nobody"}
            /\ Start(flagged, IF t.orphan THEN "orphan" ELSE "screen")
            /\ UNCHANGED faults
      /\ UNCHANGED <<chain, list, eligible, phase, flush, changes>>

\* flushPending goes through the blacklistings that earlier polls left, one
\* after the other; it neither reads the entry again nor asks the provider.
FlushPending(p) ==
  /\ phase = "flush" /\ p \in flush /\ \A q \in Pairs : sender[q] # "flush"
  /\ flush' = flush \ {p}
  /\ pending' = IF Held(p) \/ (sender[p] # "nobody" /\ wallets[p[2]].tracked)
                  THEN pending ELSE pending \ {p}
  /\ Start({p}, "flush")
  /\ UNCHANGED <<chain, list, wallets, eligible, phase, tasks, changes, faults>>

-----------------------------------------------------------------------------
(* add_to_blacklist (chain.ts, and the program behind it).                 *)

\* What the program answers, in the order of its account constraints.
Answer(p) ==
  IF ~role[p[1]] THEN "no_role"
  ELSE IF p \notin holds THEN "account_gone"
  ELSE IF entry[p] = "active" THEN "already_blacklisted" ELSE "sent"

\* The entry becomes active, a removed one too.
Land(p) ==
  entry' = IF Answer(p) = "sent" THEN [entry EXCEPT ![p] = "active"] ELSE entry

\* Mutant: giving up on a send does not make its wallet due again.
OutcomeForgets(p, kind) ==
  IF kind = "no_role"
    THEN /\ pending' = pending \ {p}
         /\ eligible' = [eligible EXCEPT ![p[1]] = [why |-> "no_role", age |-> 0]]
         /\ wallets' = [wallets EXCEPT ![p[2]].settled = @ \ {p[1]}]
    ELSE /\ pending' = IF kind \in {"sent", "already_blacklisted"} \/ attempts[p] >= MAX_SEND_ATTEMPTS
                         THEN pending \ {p} ELSE pending
         /\ UNCHANGED <<eligible, wallets>>

\* The switch over the outcomes.  A failed send stays pending until its last
\* attempt, and then waits for the next screen of its wallet.
Outcome(p, kind) ==
  LET drop == pending \ {p}
      spent == p \in pending /\ attempts[p] >= MAX_SEND_ATTEMPTS
  IN  CASE kind \in {"sent", "already_blacklisted"} ->
             pending' = drop /\ UNCHANGED <<eligible, wallets>>
        [] kind = "no_role" ->
             /\ pending' = drop
             /\ eligible' = [eligible EXCEPT ![p[1]] = [why |-> "no_role", age |-> 0]]
             /\ wallets' = [wallets EXCEPT ![p[2]].settled = @ \ {p[1]}]
        [] OTHER ->
             /\ pending' = IF spent THEN drop ELSE pending
             /\ wallets' = [wallets EXCEPT ![p[2]].screened =
                  IF spent /\ wallets[p[2]].tracked THEN "never" ELSE @]
             /\ UNCHANGED eligible

Settle(p) ==
  /\ sender' = [sender EXCEPT ![p] = "nobody"]
  /\ attempts' = [q \in Pairs |-> IF q \in pending' THEN attempts[q] ELSE 0]

AddToBlacklist(p) ==
  /\ sender[p] # "nobody"
  /\ Land(p)
  /\ Outcome(p, Answer(p))
  /\ Settle(p)
  /\ UNCHANGED <<holds, role, checks, late, list, phase, flush, tasks, changes, faults>>

\* Every attempt of the send fails, or only its answers are lost: the entry may
\* have been written all the same, or be written later.
SendFails(p) ==
  /\ sender[p] # "nobody" /\ MayFail
  /\ Land(p) \/ UNCHANGED entry
  /\ Outcome(p, "failed")
  /\ Settle(p)
  /\ late' = late \cup {p}
  /\ faults' = faults + 1
  /\ UNCHANGED <<holds, role, checks, list, phase, flush, tasks, changes>>

\* A status read that fails throws out of blacklist, the transaction still in
\* the network, and with it the poll ends; the rest of the batch goes on.
SendThrows(p) ==
  /\ sender[p] # "nobody" /\ MayFail
  /\ Land(p) \/ UNCHANGED entry
  /\ IF sender[p] = "orphan"
       THEN sender' = [sender EXCEPT ![p] = "nobody"] /\ UNCHANGED <<phase, flush, tasks>>
       ELSE /\ sender' = [q \in Pairs |-> IF q = p THEN "nobody"
                           ELSE IF sender[q] = "screen" THEN "orphan" ELSE sender[q]]
            /\ phase' = "idle" /\ flush' = {}
            /\ tasks' = {[t EXCEPT !.orphan = TRUE] : t \in tasks}
  /\ late' = late \cup {p}
  /\ faults' = faults + 1
  /\ UNCHANGED <<holds, role, checks, list, wallets, eligible, pending, attempts, changes>>

\* A send that nobody waits for any more lands, or its blockhash expires.
LandsLate(p) ==
  /\ p \in late
  /\ Land(p)
  /\ UNCHANGED <<holds, role, checks, late, list, memory, changes, faults>>

LateExpires(p) ==
  /\ p \in late
  /\ late' = late \ {p}
  /\ UNCHANGED <<entry, holds, role, checks, list, memory, changes, faults>>

-----------------------------------------------------------------------------
(* Time, crashes, and everyone else.                                       *)

\* SCREENER_RESCREEN_MS passes; a backoff ends.
Age(w) ==
  /\ wallets[w].screened = "current"
  /\ wallets' = [wallets EXCEPT ![w].screened = "aged"]
  /\ UNCHANGED <<chain, list, eligible, pending, attempts, phase, flush, tasks, sender,
                 changes, faults>>

BackoffEnds(w) ==
  /\ wallets[w].backoff
  /\ wallets' = [wallets EXCEPT ![w].backoff = FALSE]
  /\ UNCHANGED <<chain, list, eligible, pending, attempts, phase, flush, tasks, sender,
                 changes, faults>>

\* The process keeps nothing on disk; the sends on their way may still land.
Restart ==
  /\ MayFail /\ faults' = faults + 1
  /\ wallets' = [w \in Wallets |-> Untracked]
  /\ eligible' = [m \in Mints |-> Unknown]
  /\ pending' = {} /\ attempts' = [p \in Pairs |-> 0]
  /\ phase' = "idle" /\ flush' = {} /\ tasks' = {}
  /\ sender' = [p \in Pairs |-> "nobody"]
  /\ late' = late \cup {p \in Pairs : sender[p] # "nobody"}
  /\ UNCHANGED <<entry, holds, role, checks, list, changes>>

Change(kind) ==
  /\ kind \in Changes /\ changes < MaxChanges /\ changes' = changes + 1
  /\ UNCHANGED <<memory, faults>>

\* An operator with a role of its own blacklists a wallet, or removes it.
Operator(p) ==
  /\ Change("entry")
  /\ \/ p \in holds /\ entry[p] # "active" /\ entry' = [entry EXCEPT ![p] = "active"]
     \/ entry[p] = "active" /\ entry' = [entry EXCEPT ![p] = "inactive"]
  /\ UNCHANGED <<holds, role, checks, late, list>>

\* A holder opens an account, or closes it.
Holder(p) ==
  /\ Change("holders")
  /\ holds' = IF p \in holds THEN holds \ {p} ELSE holds \cup {p}
  /\ UNCHANGED <<entry, role, checks, late, list>>

\* The issuer grants or revokes the role, or edits the mint's policy.
Issuer(m) ==
  \/ /\ Change("role") /\ role' = [role EXCEPT ![m] = ~@]
     /\ UNCHANGED <<entry, holds, checks, late, list>>
  \/ /\ Change("policy") /\ checks' = [checks EXCEPT ![m] = ~@]
     /\ UNCHANGED <<entry, holds, role, late, list>>

\* The list file is edited (one that does not parse is ignored); the Range
\* score of a wallet moves.
EditList ==
  /\ Change("list")
  /\ \E S \in SUBSET Wallets : list' = [version |-> list.version + 1, flagged |-> S]
  /\ UNCHANGED chain

Next ==
  \/ ReadHoldings \/ ScreenDue \/ EndPoll \/ Restart \/ EditList
  \/ \E t \in tasks : ScreenOne(t)
  \/ \E p \in Pairs :
       \/ FlushPending(p)
       \/ AddToBlacklist(p) \/ SendFails(p) \/ SendThrows(p)
       \/ LandsLate(p) \/ LateExpires(p)
       \/ Operator(p) \/ Holder(p)
  \/ \E m \in Mints : Issuer(m)
  \/ \E w \in Wallets : Age(w) \/ BackoffEnds(w)

\* The poll loop runs, calls return, timers fire.
Fairness ==
  /\ WF_vars(ReadHoldings) /\ WF_vars(ScreenDue) /\ WF_vars(EndPoll)
  /\ WF_vars(\E t \in tasks : ScreenOne(t))
  /\ WF_vars(\E p \in Pairs : FlushPending(p))
  /\ \A p \in Pairs : WF_vars(AddToBlacklist(p))
  /\ \A w \in Wallets : WF_vars(Age(w)) /\ WF_vars(BackoffEnds(w))

Spec == Init /\ [][Next]_vars /\ Fairness

-----------------------------------------------------------------------------
(* Properties.                                                             *)

\* The pairs that are somewhere between a screen and its transaction.
OnTheWay(p) ==
  \/ p \in pending \/ p \in flush \/ sender[p] # "nobody" \/ p \in late
  \/ \E t \in tasks : t.wallet = p[2] /\ p[1] \in Open(t)

\* The memory keeps its types; a poll flushes at most one pair at a time, and
\* a send of its own is under way only while it lasts.
TypeOK ==
  /\ entry \in [Pairs -> {"none", "inactive", "active"}]
  /\ pending \subseteq Pairs /\ flush \subseteq Pairs /\ late \subseteq Pairs
  /\ \A w \in Wallets :
       /\ wallets[w].settled \subseteq wallets[w].holdings /\ wallets[w].holdings \subseteq Mints
       /\ wallets[w].tracked <=> wallets[w].holdings # {}
  /\ \A p \in Pairs : attempts[p] \in 0..MAX_SEND_ATTEMPTS /\ (p \notin pending => attempts[p] = 0)
  /\ \A p \in Pairs : sender[p] = "flush" => phase = "flush"
  /\ \A p \in Pairs : sender[p] = "screen" => phase = "screen"
  /\ Cardinality({p \in Pairs : sender[p] = "flush"}) <= 1

\* A wallet that the provider flags, screened for the present list, has an
\* entry, active or removed, on every mint that screen settled, or a send to it
\* is still pending: no failure, no late or lost answer and no overlapping poll
\* forgets it (screener.ts: given up "until the next screen of this wallet", with
\* lastScreenedAt cleared).  A mint that the wallet joins or comes back to, and
\* one whose send was refused for a missing role, are not settled: lastScreenedAt
\* stays, and the wallet is not due for them before SCREENER_RESCREEN_MS or a list
\* edit.  Of those only FlaggedGetsEntry speaks.
ScreenedStands ==
  \A w \in Wallets \ Exempt :
    (/\ wallets[w].screened = "current" /\ wallets[w].version = list.version
     /\ HasVersion /\ w \in list.flagged)
    => \A m \in wallets[w].settled : entry[<<m, w>>] # "none" \/ <<m, w>> \in pending

\* A removal by an operator that meets nothing on its way to the wallet stands:
\* the screener never takes the pair up again (screener.ts: "the screener
\* leaves it alone").
RemovalStands ==
  [][\A p \in Pairs :
       entry[p] = "inactive" /\ ~OnTheWay(p) => entry'[p] = "active" \/ ~OnTheWay(p)']_vars

\* A flagged holder of an eligible mint ends up with an entry: failed sends,
\* provider errors, restarts, a role that comes back and a mint that the
\* wallet joined later only delay it, the last two by as much as the rescreen
\* interval (screener.ts isDue).
FlaggedGetsEntry ==
  \A p \in Pairs :
    (<>[](p[2] \in list.flagged \ Exempt /\ p \in holds /\ role[p[1]] /\ checks[p[1]]))
      => <>(entry[p] # "none")

\* docs/thawgate/SANCTIONS.md: the screener "treats an inactive entry as an
\* operator override and never re-adds that wallet", so no retry of a
\* blacklisting starts on a wallet that an operator has removed meanwhile.
RetryRespectsRemoval ==
  [][\A p \in Pairs :
       sender[p] = "nobody" /\ sender'[p] = "flush" => entry[p] # "inactive"]_vars
=============================================================================
