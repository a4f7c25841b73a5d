--------------------------- MODULE Screener_proofs ---------------------------
(***************************************************************************)
(* Proofs about Screener, for any mints, wallets, exemptions and bounds.   *)
(* The inductive invariant adds to the checked ones what the screens under *)
(* way carry with them: the list version they screen for is not of the     *)
(* future, and an entry they found is there still.                         *)
(***************************************************************************)
EXTENDS Screener, FiniteSetTheorems, TLAPS

Cells == {"none", "inactive", "active"}

WalletType ==
  [tracked: BOOLEAN, holdings: SUBSET Mints, settled: SUBSET Mints,
   screened: {"never", "current", "aged"}, version: Nat, backoff: BOOLEAN]
TaskType ==
  [wallet: Wallets, version: Nat, orphan: BOOLEAN, known: BOOLEAN,
   entries: UNION {[S -> Cells] : S \in SUBSET Mints}]
SenderType == {"nobody", "flush", "screen", "orphan"}

Types ==
  /\ entry \in [Pairs -> Cells]
  /\ list \in [version: Nat, flagged: SUBSET Wallets]
  /\ wallets \in [Wallets -> WalletType]
  /\ pending \subseteq Pairs /\ flush \subseteq Pairs /\ late \subseteq Pairs
  /\ attempts \in [Pairs -> 0 .. MAX_SEND_ATTEMPTS]
  /\ phase \in {"idle", "flush", "screen"}
  /\ tasks \subseteq TaskType
  /\ sender \in [Pairs -> SenderType]

\* A tracked wallet holds something, and what a screen settled it holds still.
Tracking ==
  \A w \in Wallets :
    wallets[w].settled \subseteq wallets[w].holdings /\ (wallets[w].tracked <=> wallets[w].holdings # {})

\* The attempts are those of pending pairs.
Counting == \A p \in Pairs : p \notin pending => attempts[p] = 0

\* A poll's sends and screens end before it does, or are orphans; it flushes
\* one pair at a time.
Polling ==
  /\ \A p \in Pairs : sender[p] = "flush" => phase = "flush"
  /\ \A p \in Pairs : sender[p] = "screen" => phase = "screen"
  /\ \A p, q \in Pairs : sender[p] = "flush" /\ sender[q] = "flush" => p = q
  /\ \A t \in tasks : ~t.orphan => phase = "screen"

\* Nothing was screened for a list that is yet to come.
Versions ==
  /\ \A w \in Wallets : wallets[w].version <= list.version
  /\ \A t \in tasks : t.version <= list.version

\* An entry that was found when the poll read the entries is still there.
EntriesStand ==
  \A t \in tasks : \A m \in DOMAIN t.entries :
    t.entries[m] # "none" => entry[<<m, t.wallet>>] # "none"

Inv == Types /\ Tracking /\ Counting /\ Polling /\ Versions /\ EntriesStand /\ ScreenedStands

-----------------------------------------------------------------------------
(* What the parts of an action do to the state.                            *)

\* No entry is ever erased: a removal leaves it inactive.
EntriesGrow ==
  /\ entry' \in [Pairs -> Cells]
  /\ \A p \in Pairs : entry[p] # "none" => entry'[p] # "none"

\* A transaction that lands, or does not, erases no entry.
LEMMA LandGrows ==
  ASSUME NEW p \in Pairs, Types, Land(p) \/ UNCHANGED entry
  PROVE  EntriesGrow
BY DEF Types, Land, EntriesGrow, Cells

\* The entries that screens found stay true while entries only grow and screens
\* keep theirs.
LEMMA EntriesKept ==
  ASSUME Types, EntriesStand, EntriesGrow,
         \A t \in tasks' : \E u \in tasks : u.wallet = t.wallet /\ u.entries = t.entries
  PROVE  EntriesStand'
<1>. SUFFICES ASSUME NEW t \in tasks', NEW m \in DOMAIN t.entries, t.entries[m] # "none"
              PROVE  entry'[<<m, t.wallet>>] # "none"
  BY DEF EntriesStand
<1>1. PICK u \in tasks : u.wallet = t.wallet /\ u.entries = t.entries
  OBVIOUS
<1>2. <<m, u.wallet>> \in Pairs
  BY <1>1 DEF Types, TaskType, Pairs
<1>. QED  BY <1>1, <1>2 DEF EntriesStand, EntriesGrow

\* A wallet's screen stays good while its record forgets no pair that is neither
\* written nor pending.
LEMMA StandsKept ==
  ASSUME Types, ScreenedStands, EntriesGrow, list' = list,
         \A w \in Wallets \ Exempt : wallets'[w].screened = "current" =>
           /\ wallets[w].screened = "current" /\ wallets'[w].version = wallets[w].version
           /\ \A m \in wallets'[w].settled :
                /\ m \in wallets[w].settled /\ m \in Mints
                /\ <<m, w>> \in pending => <<m, w>> \in pending' \/ entry'[<<m, w>>] # "none"
  PROVE  ScreenedStands'
<1>. SUFFICES ASSUME NEW w \in Wallets \ Exempt,
                     wallets'[w].screened = "current", wallets'[w].version = list'.version,
                     HasVersion, w \in list'.flagged,
                     NEW m \in wallets'[w].settled
              PROVE  entry'[<<m, w>>] # "none" \/ <<m, w>> \in pending'
  BY DEF ScreenedStands
<1>1. m \in wallets[w].settled /\ <<m, w>> \in Pairs
  BY DEF Pairs
<1>2. entry[<<m, w>>] # "none" \/ <<m, w>> \in pending
  BY <1>1 DEF ScreenedStands
<1>. QED  BY <1>1, <1>2 DEF EntriesGrow

\* The outcome of a send drops its pair only when the entry is there, when the
\* mint no longer counts as settled, or when the wallet is due again.
LEMMA OutcomeKeeps ==
  ASSUME NEW p \in Pairs, NEW kind, Types, Tracking, Outcome(p, kind)
  PROVE  /\ pending' \subseteq pending /\ pending \ {p} \subseteq pending'
         /\ wallets' \in [Wallets -> WalletType]
         /\ \A w \in Wallets :
              /\ wallets'[w].holdings = wallets[w].holdings
              /\ wallets'[w].tracked = wallets[w].tracked
              /\ wallets'[w].version = wallets[w].version
              /\ wallets'[w].settled \subseteq wallets[w].settled
              /\ wallets'[w].screened = "current" => wallets[w].screened = "current"
         /\ p \in pending' \/ p \notin pending \/ kind \in {"sent", "already_blacklisted"}
              \/ p[1] \notin wallets'[p[2]].settled \/ wallets'[p[2]].screened = "never"
<1>0. p[1] \in Mints /\ p[2] \in Wallets
  BY DEF Pairs
<1>1. CASE kind \in {"sent", "already_blacklisted"}
  <2>1. pending' = pending \ {p} /\ wallets' = wallets
    BY <1>1 DEF Outcome
  <2>. QED  BY <1>1, <2>1 DEF Types
<1>2. CASE kind = "no_role"
  <2>1. /\ pending' = pending \ {p}
        /\ wallets' = [wallets EXCEPT ![p[2]].settled = @ \ {p[1]}]
    BY <1>2 DEF Outcome
  <2>. QED  BY <1>0, <2>1 DEF Types, WalletType
<1>3. CASE kind \notin {"sent", "already_blacklisted", "no_role"}
  <2>. DEFINE spent == p \in pending /\ attempts[p] >= MAX_SEND_ATTEMPTS
  <2>1. /\ pending' = IF spent THEN pending \ {p} ELSE pending
        /\ wallets' = [wallets EXCEPT ![p[2]].screened =
                IF spent /\ wallets[p[2]].tracked THEN "never" ELSE @]
    BY <1>3 DEF Outcome
  <2>2. wallets' \in [Wallets -> WalletType]
    BY <1>0, <2>1 DEF Types, WalletType
  <2>3. p[1] \in wallets[p[2]].settled => wallets[p[2]].tracked
    BY <1>0 DEF Tracking, Types, WalletType
  <2>. QED  BY <1>0, <2>1, <2>2, <2>3 DEF Types, WalletType
<1>. QED  BY <1>1, <1>2, <1>3

\* Starting sends counts an attempt for the pending pairs at most up to the limit.
LEMMA StartKeeps ==
  ASSUME NEW P, NEW who \in SenderType, Types, Counting, Start(P, who)
  PROVE  /\ sender' \in [Pairs -> SenderType]
         /\ attempts' \in [Pairs -> 0 .. MAX_SEND_ATTEMPTS]
         /\ Counting'
         /\ \A q \in Pairs : sender'[q] = sender[q] \/ (sender'[q] = who /\ q \in P)
BY ScreenerAssumption DEF Types, Counting, Start, Sends

\* Settling a send leaves the attempts of the pairs that are still pending.
LEMMA SettleKeeps ==
  ASSUME NEW p \in Pairs, Types, Settle(p)
  PROVE  /\ sender' = [sender EXCEPT ![p] = "nobody"]
         /\ sender' \in [Pairs -> SenderType]
         /\ attempts' \in [Pairs -> 0 .. MAX_SEND_ATTEMPTS]
         /\ Counting'
BY ScreenerAssumption DEF Types, Counting, Settle, SenderType

-----------------------------------------------------------------------------
(* Initial states, and the poll.                                           *)

\* The process starts with no memory: nothing tracked, nothing under way.
LEMMA FreshInv ==
  ASSUME FreshMemory, entry \in [Pairs -> Cells], late \subseteq Pairs,
         list \in [version: Nat, flagged: SUBSET Wallets]
  PROVE  Inv
<1>1. /\ wallets = [w \in Wallets |-> Untracked] /\ tasks = {} /\ pending = {} /\ flush = {}
      /\ attempts = [p \in Pairs |-> 0] /\ phase = "idle" /\ sender = [p \in Pairs |-> "nobody"]
  BY DEF FreshMemory
<1>2. Untracked \in WalletType
  BY DEF Untracked, WalletType
<1>3. Types
  BY <1>1, <1>2, ScreenerAssumption DEF Types, SenderType
<1>4. Tracking /\ Counting /\ Polling
  BY <1>1 DEF Tracking, Counting, Polling, Untracked
<1>5. Versions
  BY <1>1, <1>3 DEF Versions, Untracked, Types
<1>6. EntriesStand /\ ScreenedStands
  BY <1>1 DEF EntriesStand, ScreenedStands, Untracked
<1>. QED  BY <1>3, <1>4, <1>5, <1>6 DEF Inv

\* The initial state satisfies the invariant.
LEMMA InitInv == Init => Inv
<1>. SUFFICES ASSUME Init PROVE Inv
  OBVIOUS
<1>1. /\ entry \in [Pairs -> Cells] /\ late \subseteq Pairs
      /\ list \in [version: Nat, flagged: SUBSET Wallets]
  BY DEF Init, Cells
<1>. QED  BY <1>1, FreshInv DEF Init

\* A restart forgets everything; its sends may still land.
LEMMA RestartKeeps == Inv /\ Restart => Inv'
<1>. SUFFICES ASSUME Inv, Restart PROVE Inv'
  OBVIOUS
<1>1. /\ entry' \in [Pairs -> Cells] /\ late' \subseteq Pairs
      /\ list' \in [version: Nat, flagged: SUBSET Wallets]
  BY DEF Restart, Inv, Types
<1>2. /\ wallets' = [w \in Wallets |-> Untracked] /\ tasks' = {} /\ pending' = {} /\ flush' = {}
      /\ attempts' = [p \in Pairs |-> 0] /\ phase' = "idle" /\ sender' = [p \in Pairs |-> "nobody"]
  BY DEF Restart
<1>3. Untracked \in WalletType
  BY DEF Untracked, WalletType
<1>4. Types'
  BY <1>1, <1>2, <1>3, ScreenerAssumption DEF Types, SenderType
<1>5. Tracking' /\ Counting' /\ Polling'
  BY <1>2 DEF Tracking, Counting, Polling, Untracked
<1>6. Versions'
  BY <1>1, <1>2 DEF Versions, Untracked
<1>7. EntriesStand' /\ ScreenedStands'
  BY <1>2 DEF EntriesStand, ScreenedStands, Untracked
<1>. QED  BY <1>4, <1>5, <1>6, <1>7 DEF Inv

\* Reading the holders changes what is tracked; what a screen saw only shrinks.
LEMMA ReadHoldingsKeeps == Inv /\ ReadHoldings => Inv'
<1>. SUFFICES ASSUME Inv, ReadHoldings PROVE Inv'
  OBVIOUS
<1>. DEFINE H(w) == {m \in Mints : eligible'[m].why = "eligible" /\ <<m, w>> \in holds}
<1>1. /\ wallets' = [w \in Wallets |-> Track(w, H(w))]
      /\ tasks' = {[t EXCEPT !.known = @ /\ wallets'[t.wallet].tracked] : t \in tasks}
      /\ phase = "idle" /\ phase' = "flush" /\ flush' = pending
      /\ entry' = entry /\ late' = late /\ list' = list /\ pending' = pending
      /\ attempts' = attempts /\ sender' = sender
  BY DEF ReadHoldings, chain
<1>2. ASSUME NEW w \in Wallets
      PROVE  /\ wallets'[w] \in WalletType
             /\ wallets'[w].settled \subseteq wallets'[w].holdings
             /\ wallets'[w].tracked <=> wallets'[w].holdings # {}
             /\ wallets'[w].version <= list.version
             /\ wallets'[w].screened = "current" =>
                  /\ wallets[w].screened = "current" /\ wallets'[w].version = wallets[w].version
                  /\ wallets'[w].settled \subseteq wallets[w].settled
  <2>1. wallets[w] \in WalletType /\ H(w) \subseteq Mints /\ wallets'[w] = Track(w, H(w))
    BY <1>1 DEF Inv, Types
  <2>2. CASE H(w) = {}
    <3>1. wallets'[w] = Untracked
      BY <2>1, <2>2 DEF Track
    <3>. QED  BY <3>1 DEF Untracked, WalletType, Inv, Types
  <2>3. CASE H(w) # {}
    <3>. HIDE DEF H
    <3>1. wallets'[w] = [wallets[w] EXCEPT !.tracked = TRUE, !.holdings = H(w), !.settled = @ \cap H(w)]
      BY <2>1, <2>3 DEF Track
    <3>2. wallets[w].version <= list.version
      BY DEF Inv, Versions
    <3>3. wallets'[w] \in WalletType
      BY <2>1, <3>1 DEF WalletType
    <3>4. /\ wallets'[w].holdings = H(w) /\ wallets'[w].tracked = TRUE
          /\ wallets'[w].settled = wallets[w].settled \cap H(w)
          /\ wallets'[w].screened = wallets[w].screened /\ wallets'[w].version = wallets[w].version
      BY <2>1, <3>1 DEF WalletType
    <3>. QED  BY <2>3, <3>2, <3>3, <3>4
  <2>. QED  BY <2>2, <2>3
<1>. HIDE DEF H
<1>3. ASSUME NEW t \in tasks'
      PROVE  t \in TaskType /\ \E u \in tasks : /\ u.wallet = t.wallet /\ u.entries = t.entries
                                              /\ u.version = t.version /\ u.orphan = t.orphan
  <2>1. PICK u \in tasks : t = [u EXCEPT !.known = @ /\ wallets'[u.wallet].tracked]
    BY <1>1
  <2>2. u \in TaskType
    BY DEF Inv, Types
  <2>3. wallets'[u.wallet].tracked \in BOOLEAN
    BY <1>2, <2>2 DEF TaskType, WalletType
  <2>. QED  BY <2>1, <2>2, <2>3 DEF TaskType
<1>4. wallets' \in [Wallets -> WalletType]
  <2>1. wallets' = [w \in Wallets |-> wallets'[w]]
    BY <1>1
  <2>. QED  BY <2>1, <1>2
<1>5. Types'
  BY <1>1, <1>3, <1>4 DEF Inv, Types
<1>6. Tracking' /\ Counting'
  BY <1>1, <1>2 DEF Inv, Tracking, Counting
<1>7. Polling'
  <2>1. \A t \in tasks' : t.orphan
    <3>. TAKE t \in tasks'
    <3>1. PICK u \in tasks : u.orphan = t.orphan
      BY <1>3
    <3>2. u.orphan
      BY <1>1 DEF Inv, Polling
    <3>. QED  BY <3>1, <3>2
  <2>. QED  BY <1>1, <2>1 DEF Inv, Polling
<1>8. Versions'
  BY <1>1, <1>2, <1>3 DEF Inv, Versions
<1>9. EntriesGrow
  BY <1>1 DEF EntriesGrow, Inv, Types
<1>10. EntriesStand'
  BY <1>3, <1>9, EntriesKept DEF Inv
<1>11. ScreenedStands'
  <2>1. \A w \in Wallets : wallets'[w].settled \subseteq Mints
    BY <1>4 DEF WalletType
  <2>. QED  BY <1>1, <1>2, <1>9, <2>1, StandsKept DEF Inv
<1>. QED  BY <1>5, <1>6, <1>7, <1>8, <1>10, <1>11 DEF Inv

\* Screening takes exempt wallets as done and reads the entries of the others.
LEMMA ScreenDueKeeps == Inv /\ ScreenDue => Inv'
<1>. SUFFICES ASSUME Inv, ScreenDue PROVE Inv'
  OBVIOUS
<1>. DEFINE due == {w \in Wallets : IsDue(w)}
            new == {[wallet |-> w, version |-> list.version, orphan |-> FALSE, known |-> TRUE,
                      entries |-> [m \in wallets[w].holdings |-> entry[<<m, w>>]]]
                       : w \in due \ Exempt}
<1>1. /\ wallets' = [w \in Wallets |->
              IF w \in due \cap Exempt THEN Screened(w, list.version, Mints) ELSE wallets[w]]
      /\ (tasks' = tasks \cup new /\ phase' = "screen") \/ (tasks' = tasks /\ phase' = "idle")
      /\ phase = "flush" /\ flush = {} /\ flush' = flush
      /\ entry' = entry /\ late' = late /\ list' = list /\ pending' = pending
      /\ attempts' = attempts /\ sender' = sender
      /\ \A p \in Pairs : sender[p] # "flush"
  BY DEF ScreenDue, chain
<1>2. ASSUME NEW w \in Wallets
      PROVE  /\ wallets'[w] \in WalletType
             /\ wallets'[w].settled \subseteq wallets'[w].holdings
             /\ wallets'[w].tracked <=> wallets'[w].holdings # {}
             /\ wallets'[w].version <= list.version
             /\ w \notin Exempt => wallets'[w] = wallets[w]
  <2>1. wallets[w] \in WalletType /\ list.version \in Nat
    BY DEF Inv, Types
  <2>2. CASE w \in due \cap Exempt
    <3>1. wallets'[w] = [wallets[w] EXCEPT !.screened = "current", !.version = list.version,
                          !.settled = wallets[w].holdings \cap Mints, !.backoff = FALSE]
      BY <1>1, <2>2 DEF Screened
    <3>2. wallets'[w] \in WalletType
      BY <2>1, <3>1 DEF WalletType
    <3>3. /\ wallets'[w].holdings = wallets[w].holdings /\ wallets'[w].tracked = wallets[w].tracked
          /\ wallets'[w].settled = wallets[w].holdings \cap Mints /\ wallets'[w].version = list.version
      BY <2>1, <3>1 DEF WalletType
    <3>. QED  BY <2>1, <2>2, <3>2, <3>3 DEF Inv, Tracking
  <2>3. CASE w \notin due \cap Exempt
    BY <1>1, <2>1, <2>3 DEF Inv, Tracking, Versions
  <2>. QED  BY <2>2, <2>3
<1>3. ASSUME NEW t \in new
      PROVE  /\ t \in TaskType /\ t.version = list.version
             /\ \A m \in DOMAIN t.entries : t.entries[m] # "none" => entry[<<m, t.wallet>>] # "none"
  <2>1. PICK w \in Wallets :
          t = [wallet |-> w, version |-> list.version, orphan |-> FALSE, known |-> TRUE,
               entries |-> [m \in wallets[w].holdings |-> entry[<<m, w>>]]]
    OBVIOUS
  <2>2. wallets[w].holdings \subseteq Mints /\ list.version \in Nat
    BY DEF Inv, Types, WalletType
  <2>3. [m \in wallets[w].holdings |-> entry[<<m, w>>]] \in [wallets[w].holdings -> Cells]
    BY <2>2 DEF Inv, Types, Pairs
  <2>4. t.entries \in UNION {[S -> Cells] : S \in SUBSET Mints}
    BY <2>1, <2>2, <2>3
  <2>. QED  BY <2>1, <2>2, <2>4 DEF TaskType
<1>. HIDE DEF new, due
<1>4. wallets' \in [Wallets -> WalletType]
  <2>1. wallets' = [w \in Wallets |-> wallets'[w]]
    BY <1>1
  <2>. QED  BY <2>1, <1>2
<1>5. Types'
  BY <1>1, <1>3, <1>4 DEF Inv, Types
<1>6. Tracking' /\ Counting'
  BY <1>1, <1>2 DEF Inv, Tracking, Counting
<1>7. Polling'
  BY <1>1 DEF Inv, Polling
<1>8. Versions'
  <2>1. list.version \in Nat
    BY DEF Inv, Types
  <2>. QED  BY <1>1, <1>2, <1>3, <2>1 DEF Inv, Versions
<1>9. EntriesStand'
  BY <1>1, <1>3 DEF Inv, EntriesStand
<1>10. ScreenedStands'
  BY <1>1, <1>2 DEF Inv, ScreenedStands
<1>. QED  BY <1>5, <1>6, <1>7, <1>8, <1>9, <1>10 DEF Inv

\* A poll ends when its screens and its sends have.
LEMMA EndPollKeeps == Inv /\ EndPoll => Inv'
<1>. SUFFICES ASSUME Inv, EndPoll PROVE Inv'
  OBVIOUS
<1>1. /\ phase = "screen" /\ phase' = "idle" /\ \A t \in tasks : t.orphan
      /\ \A p \in Pairs : sender[p] # "screen"
      /\ UNCHANGED <<entry, late, list, wallets, pending, attempts, flush, tasks, sender>>
  BY DEF EndPoll, chain
<1>2. Types' /\ Tracking' /\ Counting' /\ Versions' /\ EntriesStand' /\ ScreenedStands'
  BY <1>1 DEF Inv, Types, Tracking, Counting, Versions, EntriesStand, ScreenedStands
<1>3. Polling'
  BY <1>1 DEF Inv, Polling
<1>. QED  BY <1>2, <1>3 DEF Inv

-----------------------------------------------------------------------------
(* Screens and sends.                                                      *)

\* A flagged wallet's screen leaves each mint without an entry pending, when
\* the wallet still holds it or a send of the pair is under way.
LEMMA ScreenOneKeeps == \A t \in tasks : Inv /\ ScreenOne(t) => Inv'
<1>. SUFFICES ASSUME NEW t \in tasks, Inv, ScreenOne(t) PROVE Inv'
  OBVIOUS
<1>. DEFINE w == t.wallet
            flagged == {<<m, w>> : m \in Open(t)} \ pending
            Done == wallets' = [wallets EXCEPT ![w] =
                      IF t.known THEN Screened(w, t.version, DOMAIN t.entries) ELSE @]
            Skips == /\ Open(t) = {} \/ w \notin list.flagged
                     /\ Done /\ UNCHANGED <<pending, attempts, sender>>
            Fails == /\ wallets' = [wallets EXCEPT ![w].backoff = @ \/ t.known]
                     /\ UNCHANGED <<pending, attempts, sender>>
            Flags == /\ Done
                     /\ pending' = pending \cup {p \in flagged : Held(p) \/ sender[p] # "nobody"}
                     /\ Start(flagged, IF t.orphan THEN "orphan" ELSE "screen")
<1>1. /\ tasks' = tasks \ {t}
      /\ Skips \/ Fails \/ Flags
      /\ entry' = entry /\ late' = late /\ list' = list /\ phase' = phase /\ flush' = flush
  BY DEF ScreenOne, chain
<1>2. /\ t \in TaskType /\ w \in Wallets /\ DOMAIN t.entries \subseteq Mints /\ t.version \in Nat
      /\ wallets[w] \in WalletType /\ t.version <= list.version /\ t.known \in BOOLEAN
      /\ \A m \in DOMAIN t.entries : t.entries[m] \in Cells
  BY DEF Inv, Types, TaskType, Versions
<1>3. flagged \subseteq Pairs
  BY <1>2 DEF Open, Pairs
<1>4. /\ wallets' \in [Wallets -> WalletType]
      /\ \A v \in Wallets \ {w} : wallets'[v] = wallets[v]
      /\ wallets'[w].holdings = wallets[w].holdings
      /\ wallets'[w].tracked = wallets[w].tracked
      /\ wallets'[w].settled \subseteq wallets[w].holdings
      /\ wallets'[w].version <= list.version
      /\ \/ wallets'[w].screened = wallets[w].screened /\ wallets'[w].version = wallets[w].version
            /\ wallets'[w].settled = wallets[w].settled
         \/ Done /\ wallets'[w].settled = wallets[w].holdings \cap DOMAIN t.entries
  <2>. DEFINE done == [wallets[w] EXCEPT !.screened = "current", !.version = t.version,
                         !.settled = wallets[w].holdings \cap DOMAIN t.entries, !.backoff = FALSE]
  <2>0. wallets \in [Wallets -> WalletType] /\ wallets[w].settled \subseteq wallets[w].holdings
        /\ wallets[w].version <= list.version
    BY <1>2 DEF Inv, Types, Tracking, Versions
  <2>1. CASE Done /\ t.known
    <3>1. wallets' = [wallets EXCEPT ![w] = done]
      BY <2>1 DEF Screened
    <3>2. done \in WalletType
      BY <1>2 DEF WalletType
    <3>3. /\ done.holdings = wallets[w].holdings /\ done.tracked = wallets[w].tracked
          /\ done.settled = wallets[w].holdings \cap DOMAIN t.entries /\ done.version = t.version
      BY <1>2 DEF WalletType
    <3>. HIDE DEF done
    <3>. QED  BY <1>2, <2>0, <2>1, <3>1, <3>2, <3>3
  <2>2. CASE Done /\ ~t.known
    <3>1. wallets' = wallets
      BY <2>0, <2>2
    <3>. QED  BY <1>2, <2>0, <3>1
  <2>3. CASE Fails
    <3>1. wallets' = [wallets EXCEPT ![w] = [wallets[w] EXCEPT !.backoff = wallets[w].backoff \/ t.known]]
      BY <2>3
    <3>2. [wallets[w] EXCEPT !.backoff = wallets[w].backoff \/ t.known] \in WalletType
      BY <1>2 DEF WalletType
    <3>. QED  BY <1>2, <2>0, <3>1, <3>2 DEF WalletType
  <2>. QED  BY <1>1, <2>1, <2>2, <2>3
<1>5. /\ pending \subseteq pending' /\ pending' \subseteq Pairs
      /\ attempts' \in [Pairs -> 0 .. MAX_SEND_ATTEMPTS]
      /\ sender' \in [Pairs -> SenderType]
      /\ Counting'
      /\ \A p \in Pairs : sender'[p] = sender[p] \/ sender'[p] = "orphan"
                         \/ (sender'[p] = "screen" /\ ~t.orphan)
  <2>. DEFINE who == IF t.orphan THEN "orphan" ELSE "screen"
  <2>1. CASE pending' = pending /\ attempts' = attempts /\ sender' = sender
    BY <2>1 DEF Inv, Types, Counting
  <2>2. CASE Flags
    <3>1. who \in SenderType /\ (who = "orphan" \/ (who = "screen" /\ ~t.orphan))
      BY DEF SenderType
    <3>2. Types /\ Counting /\ Start(flagged, who)
      BY <2>2 DEF Inv
    <3>. HIDE DEF who
    <3>3. /\ sender' \in [Pairs -> SenderType] /\ Counting'
          /\ attempts' \in [Pairs -> 0 .. MAX_SEND_ATTEMPTS]
          /\ \A q \in Pairs : sender'[q] = sender[q] \/ (sender'[q] = who /\ q \in flagged)
      BY <3>1, <3>2, StartKeeps
    <3>. QED  BY <1>3, <2>2, <3>1, <3>3 DEF Inv, Types
  <2>. QED  BY <1>1, <2>1, <2>2
<1>6. Types'
  BY <1>1, <1>4, <1>5 DEF Inv, Types
<1>7. Tracking'
  BY <1>2, <1>4 DEF Inv, Tracking
<1>8. Polling'
  BY <1>1, <1>5 DEF Inv, Polling
<1>9. Versions'
  BY <1>1, <1>2, <1>4 DEF Inv, Versions
<1>10. EntriesStand'
  BY <1>1 DEF Inv, EntriesStand
<1>11. ScreenedStands'
  <2>. SUFFICES ASSUME NEW v \in Wallets \ Exempt,
                       wallets'[v].screened = "current", wallets'[v].version = list.version,
                       HasVersion, v \in list.flagged,
                       NEW m \in wallets'[v].settled
                PROVE  entry[<<m, v>>] # "none" \/ <<m, v>> \in pending'
    BY <1>1 DEF ScreenedStands
  <2>1. CASE /\ wallets'[v].screened = wallets[v].screened
             /\ wallets'[v].version = wallets[v].version /\ wallets'[v].settled = wallets[v].settled
    BY <1>5, <2>1 DEF Inv, ScreenedStands
  <2>2. CASE v = w /\ Done /\ wallets'[w].settled = wallets[w].holdings \cap DOMAIN t.entries
    <3>1. m \in wallets[w].holdings /\ m \in DOMAIN t.entries
      BY <2>2
    <3>2. CASE m \notin Open(t)
      <4>1. t.entries[m] # "none"
        BY <3>1, <3>2 DEF Open
      <4>. QED  BY <2>2, <3>1, <4>1 DEF Inv, EntriesStand
    <3>3. CASE m \in Open(t)
      <4>1. CASE Flags
        <5>1. <<m, w>>[1] = m /\ <<m, w>>[2] = w
          OBVIOUS
        <5>2. Held(<<m, w>>)
          BY <3>1, <5>1 DEF Held
        <5>3. <<m, w>> \in pending \/ <<m, w>> \in flagged
          BY <3>3
        <5>4. pending' = pending \cup {p \in flagged : Held(p) \/ sender[p] # "nobody"}
          BY <4>1
        <5>. HIDE DEF flagged
        <5>. QED  BY <2>2, <5>2, <5>3, <5>4
      <4>2. CASE Skips
        BY <2>2, <3>3, <4>2
      <4>3. CASE Fails
        <5>1. wallets'[w].screened = wallets[w].screened /\ wallets'[w].version = wallets[w].version
              /\ wallets'[w].settled = wallets[w].settled
          <6>1. wallets' = [wallets EXCEPT ![w] = [wallets[w] EXCEPT !.backoff = wallets[w].backoff \/ t.known]]
            BY <4>3
          <6>. QED  BY <1>2, <6>1 DEF Inv, Types, WalletType
        <5>. QED  BY <1>5, <2>2, <5>1 DEF Inv, ScreenedStands
      <4>. QED  BY <1>1, <4>1, <4>2, <4>3
    <3>. QED  BY <3>2, <3>3
  <2>3. CASE v # w
    <3>1. wallets'[v] = wallets[v]
      BY <1>4, <2>3
    <3>. QED  BY <1>5, <3>1 DEF Inv, ScreenedStands
  <2>. QED  BY <1>4, <2>1, <2>2, <2>3
<1>. QED  BY <1>5, <1>6, <1>7, <1>8, <1>9, <1>10, <1>11 DEF Inv

\* A pair that the flush drops is one its wallet no longer holds.
LEMMA FlushPendingKeeps == \A p \in Pairs : Inv /\ FlushPending(p) => Inv'
<1>. SUFFICES ASSUME NEW p \in Pairs, Inv, FlushPending(p) PROVE Inv'
  OBVIOUS
<1>1. /\ phase = "flush" /\ \A q \in Pairs : sender[q] # "flush"
      /\ flush' = flush \ {p}
      /\ pending' = pending \/ (pending' = pending \ {p} /\ ~Held(p))
      /\ Start({p}, "flush")
      /\ UNCHANGED <<entry, late, list, wallets, phase, tasks>>
  BY DEF FlushPending, chain
<1>2. "flush" \in SenderType /\ Types /\ Counting
  BY DEF SenderType, Inv
<1>3. /\ sender' \in [Pairs -> SenderType] /\ Counting'
      /\ attempts' \in [Pairs -> 0 .. MAX_SEND_ATTEMPTS]
      /\ \A q \in Pairs : sender'[q] = sender[q] \/ (sender'[q] = "flush" /\ q \in {p})
  BY <1>1, <1>2, StartKeeps
<1>4. Types'
  BY <1>1, <1>3 DEF Inv, Types
<1>5. Tracking' /\ Versions' /\ EntriesStand'
  BY <1>1 DEF Inv, Tracking, Versions, EntriesStand
<1>6. Polling'
  BY <1>1, <1>3 DEF Inv, Polling
<1>7. EntriesGrow
  BY <1>1 DEF EntriesGrow, Inv, Types
<1>8. ScreenedStands'
  <2>1. ASSUME NEW w \in Wallets, NEW m \in wallets[w].settled
        PROVE  m \in Mints /\ (<<m, w>> \in pending => <<m, w>> \in pending')
    <3>1. m \in wallets[w].holdings /\ m \in Mints
      BY DEF Inv, Tracking, Types, WalletType
    <3>2. <<m, w>> = p => Held(p)
      BY <3>1 DEF Held
    <3>. QED  BY <1>1, <3>1, <3>2
  <2>. QED  BY <1>1, <1>7, <2>1, StandsKept DEF Inv
<1>. QED  BY <1>3, <1>4, <1>5, <1>6, <1>8 DEF Inv

\* What an answered or failed send does to the memory, with a transaction that
\* may have landed: the invariant holds on.
LEMMA SendKeeps ==
  ASSUME NEW p \in Pairs, NEW kind, Inv,
         Land(p) \/ UNCHANGED entry,
         kind \in {"sent", "already_blacklisted"} => entry'[p] # "none",
         Outcome(p, kind), Settle(p), late' \subseteq Pairs, UNCHANGED <<list, phase, flush, tasks>>
  PROVE  Inv'
<1>1. EntriesGrow
  BY LandGrows DEF Inv
<1>2. /\ pending' \subseteq pending /\ pending \ {p} \subseteq pending'
      /\ wallets' \in [Wallets -> WalletType]
      /\ \A w \in Wallets :
           /\ wallets'[w].holdings = wallets[w].holdings
           /\ wallets'[w].tracked = wallets[w].tracked
           /\ wallets'[w].version = wallets[w].version
           /\ wallets'[w].settled \subseteq wallets[w].settled
           /\ wallets'[w].screened = "current" => wallets[w].screened = "current"
      /\ p \in pending' \/ p \notin pending \/ kind \in {"sent", "already_blacklisted"}
           \/ p[1] \notin wallets'[p[2]].settled \/ wallets'[p[2]].screened = "never"
  BY OutcomeKeeps DEF Inv
<1>3. /\ sender' = [sender EXCEPT ![p] = "nobody"]
      /\ sender' \in [Pairs -> SenderType] /\ attempts' \in [Pairs -> 0 .. MAX_SEND_ATTEMPTS]
      /\ Counting'
  BY SettleKeeps DEF Inv
<1>4. Types'
  BY <1>1, <1>2, <1>3 DEF Inv, Types, EntriesGrow
<1>5. Tracking'
  BY <1>2 DEF Inv, Tracking
<1>6. Versions'
  BY <1>2 DEF Inv, Versions
<1>7. Polling'
  BY <1>3 DEF Inv, Polling, Types
<1>8. EntriesStand'
  BY <1>1, EntriesKept DEF Inv
<1>9. ScreenedStands'
  <2>1. ASSUME NEW w \in Wallets, wallets'[w].screened = "current", NEW m \in wallets'[w].settled
        PROVE  /\ m \in wallets[w].settled /\ m \in Mints
               /\ <<m, w>> \in pending => <<m, w>> \in pending' \/ entry'[<<m, w>>] # "none"
    <3>1. m \in wallets[w].settled /\ m \in Mints
      BY <1>2 DEF WalletType
    <3>2. <<m, w>> = p => m = p[1] /\ w = p[2]
      OBVIOUS
    <3>. QED  BY <1>2, <2>1, <3>1, <3>2
  <2>. QED  BY <1>1, <1>2, <2>1, StandsKept DEF Inv
<1>. QED  BY <1>3, <1>4, <1>5, <1>6, <1>7, <1>8, <1>9 DEF Inv

\* The program's own answers: a send that is done leaves an active entry.
LEMMA AddToBlacklistKeeps == \A p \in Pairs : Inv /\ AddToBlacklist(p) => Inv'
<1>. SUFFICES ASSUME NEW p \in Pairs, Inv, AddToBlacklist(p) PROVE Inv'
  OBVIOUS
<1>1. /\ Land(p) /\ Outcome(p, Answer(p)) /\ Settle(p) /\ UNCHANGED <<list, phase, flush, tasks>>
      /\ late' \subseteq Pairs
  BY DEF AddToBlacklist, Inv, Types
<1>2. Answer(p) \in {"sent", "already_blacklisted"} => entry'[p] # "none"
  BY <1>1 DEF Land, Answer, Inv, Types
<1>. QED  BY <1>1, <1>2, SendKeeps

\* A failed send stays pending, or makes its wallet due.
LEMMA SendFailsKeeps == \A p \in Pairs : Inv /\ SendFails(p) => Inv'
<1>. SUFFICES ASSUME NEW p \in Pairs, Inv, SendFails(p) PROVE Inv'
  OBVIOUS
<1>1. /\ Land(p) \/ UNCHANGED entry
      /\ Outcome(p, "failed") /\ Settle(p) /\ UNCHANGED <<list, phase, flush, tasks>>
      /\ late' \subseteq Pairs
  BY DEF SendFails, Inv, Types
<1>2. "failed" \notin {"sent", "already_blacklisted"}
  OBVIOUS
<1>. QED  BY <1>1, <1>2, SendKeeps

\* A poll that is given up turns its screens and sends into orphans.
LEMMA SendThrowsKeeps == \A p \in Pairs : Inv /\ SendThrows(p) => Inv'
<1>. SUFFICES ASSUME NEW p \in Pairs, Inv, SendThrows(p) PROVE Inv'
  OBVIOUS
<1>. DEFINE Alone == sender' = [sender EXCEPT ![p] = "nobody"] /\ UNCHANGED <<phase, flush, tasks>>
            GivenUp == /\ sender[p] # "orphan"
                       /\ sender' = [q \in Pairs |-> IF q = p THEN "nobody"
                                      ELSE IF sender[q] = "screen" THEN "orphan" ELSE sender[q]]
                       /\ phase' = "idle" /\ flush' = {}
                       /\ tasks' = {[t EXCEPT !.orphan = TRUE] : t \in tasks}
<1>1. /\ Land(p) \/ UNCHANGED entry
      /\ Alone \/ GivenUp
      /\ UNCHANGED <<list, wallets, pending, attempts>>
      /\ sender[p] # "nobody" /\ late' \subseteq Pairs
  BY DEF SendThrows, Inv, Types
<1>2. EntriesGrow
  BY <1>1, LandGrows DEF Inv
<1>3. ASSUME NEW t \in tasks'
      PROVE  t \in TaskType /\ \E u \in tasks : /\ u.wallet = t.wallet /\ u.entries = t.entries
                                              /\ u.version = t.version
  <2>1. CASE Alone
    BY <2>1 DEF Inv, Types
  <2>2. CASE GivenUp
    <3>1. PICK u \in tasks : t = [u EXCEPT !.orphan = TRUE]
      BY <2>2
    <3>2. u \in TaskType
      BY DEF Inv, Types
    <3>. QED  BY <3>1, <3>2 DEF TaskType
  <2>. QED  BY <1>1, <2>1, <2>2
<1>4. Types'
  BY <1>1, <1>2, <1>3 DEF Inv, Types, EntriesGrow, SenderType
<1>5. Tracking' /\ Counting'
  BY <1>1 DEF Inv, Tracking, Counting
<1>6. Versions'
  BY <1>1, <1>3 DEF Inv, Versions
<1>7. EntriesStand'
  BY <1>2, <1>3, EntriesKept DEF Inv
<1>8. Polling'
  <2>1. CASE Alone
    BY <2>1 DEF Inv, Polling, Types
  <2>2. CASE GivenUp
    <3>1. \A t \in tasks' : t.orphan
      <4>. TAKE t \in tasks'
      <4>1. PICK u \in tasks : t = [u EXCEPT !.orphan = TRUE]
        BY <2>2
      <4>2. u \in TaskType
        BY DEF Inv, Types
      <4>. QED  BY <4>1, <4>2 DEF TaskType
    <3>2. \A q \in Pairs : sender'[q] \in {"nobody", "orphan", "flush"}
                          /\ (sender'[q] = "flush" => sender[q] = "flush" /\ q # p)
      BY <2>2 DEF Inv, Types, SenderType
    <3>3. \A q \in Pairs : sender'[q] # "flush"
      <4>. SUFFICES ASSUME NEW q \in Pairs, sender'[q] = "flush" PROVE FALSE
        OBVIOUS
      <4>1. sender[q] = "flush" /\ q # p
        BY <3>2
      <4>2. sender[p] # "flush" /\ phase = "flush"
        BY <4>1 DEF Inv, Polling
      <4>3. sender[p] = "screen"
        BY <1>1, <2>2, <4>2 DEF Inv, Types, SenderType
      <4>. QED  BY <4>2, <4>3 DEF Inv, Polling
    <3>4. \A q \in Pairs : sender'[q] # "screen"
      BY <3>2
    <3>. QED  BY <3>1, <3>3, <3>4 DEF Polling
  <2>. QED  BY <1>1, <2>1, <2>2
<1>9. ScreenedStands'
  <2>1. \A w \in Wallets : wallets[w].settled \subseteq Mints
    BY DEF Inv, Types, WalletType
  <2>. QED  BY <1>1, <1>2, <2>1, StandsKept DEF Inv
<1>. QED  BY <1>4, <1>5, <1>6, <1>7, <1>8, <1>9 DEF Inv

-----------------------------------------------------------------------------
(* Time and everyone else.                                                 *)

\* A screen that ages, or a backoff that ends, changes no other field.
LEMMA AgeKeeps == \A w \in Wallets : Inv /\ (Age(w) \/ BackoffEnds(w)) => Inv'
<1>. SUFFICES ASSUME NEW w \in Wallets, Inv, Age(w) \/ BackoffEnds(w) PROVE Inv'
  OBVIOUS
<1>1. UNCHANGED <<entry, late, list, pending, attempts, phase, flush, tasks, sender>>
  BY DEF Age, BackoffEnds, chain
<1>2. /\ wallets' \in [Wallets -> WalletType]
      /\ \A v \in Wallets :
           /\ wallets'[v].settled = wallets[v].settled /\ wallets'[v].holdings = wallets[v].holdings
           /\ wallets'[v].tracked = wallets[v].tracked /\ wallets'[v].version = wallets[v].version
           /\ wallets'[v].screened = "current" => wallets[v].screened = "current"
  <2>1. CASE Age(w)
    BY <2>1 DEF Age, Inv, Types, WalletType
  <2>2. CASE BackoffEnds(w)
    BY <2>2 DEF BackoffEnds, Inv, Types, WalletType
  <2>. QED  BY <2>1, <2>2
<1>3. Types'
  BY <1>1, <1>2 DEF Inv, Types
<1>4. Tracking' /\ Counting' /\ Polling' /\ Versions' /\ EntriesStand'
  BY <1>1, <1>2 DEF Inv, Tracking, Counting, Polling, Versions, EntriesStand
<1>5. EntriesGrow
  BY <1>1 DEF EntriesGrow, Inv, Types
<1>6. ScreenedStands'
  <2>1. \A v \in Wallets : wallets'[v].settled \subseteq Mints
    BY <1>2 DEF WalletType
  <2>. QED  BY <1>1, <1>2, <1>5, <2>1, StandsKept DEF Inv
<1>. QED  BY <1>3, <1>4, <1>6 DEF Inv

\* Operators, holders, issuers and sends that land or expire late change the
\* chain only, and erase no entry.
OutsideStep ==
  \/ \E p \in Pairs : Operator(p) \/ Holder(p) \/ LandsLate(p) \/ LateExpires(p)
  \/ \E m \in Mints : Issuer(m)

LEMMA OutsideKeeps == Inv /\ OutsideStep => Inv'
<1>. SUFFICES ASSUME Inv, OutsideStep PROVE Inv'
  OBVIOUS
<1>1. /\ UNCHANGED <<list, wallets, pending, attempts, phase, flush, tasks, sender>>
      /\ late' \subseteq late
  BY DEF OutsideStep, Operator, Holder, Issuer, LandsLate, LateExpires, Change, memory
<1>2. EntriesGrow
  <2>1. ASSUME NEW p \in Pairs, LandsLate(p) PROVE EntriesGrow
    BY <2>1, LandGrows DEF LandsLate, Inv
  <2>. QED  BY <2>1 DEF OutsideStep, Operator, Holder, Issuer, LateExpires, EntriesGrow, Inv, Types, Cells
<1>3. Types'
  BY <1>1, <1>2 DEF Inv, Types, EntriesGrow
<1>4. Tracking' /\ Counting' /\ Polling' /\ Versions'
  BY <1>1 DEF Inv, Tracking, Counting, Polling, Versions
<1>5. EntriesStand'
  BY <1>1, <1>2, EntriesKept DEF Inv
<1>6. ScreenedStands'
  <2>1. \A v \in Wallets : wallets[v].settled \subseteq Mints
    BY DEF Inv, Types, WalletType
  <2>. QED  BY <1>1, <1>2, <2>1, StandsKept DEF Inv
<1>. QED  BY <1>3, <1>4, <1>5, <1>6 DEF Inv

\* With an edited list every screen is one for an older version.
LEMMA EditListKeeps == Inv /\ EditList => Inv'
<1>. SUFFICES ASSUME Inv, EditList PROVE Inv'
  OBVIOUS
<1>1. UNCHANGED <<entry, late, wallets, pending, attempts, phase, flush, tasks, sender>>
  BY DEF EditList, Change, memory, chain
<1>2. PICK S \in SUBSET Wallets : list' = [version |-> list.version + 1, flagged |-> S]
  BY DEF EditList
<1>3. list.version \in Nat /\ wallets \in [Wallets -> WalletType] /\ tasks \subseteq TaskType
  BY DEF Inv, Types
<1>4. \A w \in Wallets : wallets[w].version \in Nat /\ wallets[w].version < list'.version
  BY <1>2, <1>3 DEF Inv, Versions, WalletType
<1>5. Types'
  BY <1>1, <1>2, <1>3 DEF Inv, Types
<1>6. Tracking' /\ Counting' /\ Polling' /\ EntriesStand'
  BY <1>1 DEF Inv, Tracking, Counting, Polling, EntriesStand
<1>7. Versions'
  BY <1>1, <1>2, <1>3 DEF Inv, Versions, WalletType, TaskType
<1>8. ScreenedStands'
  BY <1>1, <1>2, <1>3, <1>4 DEF ScreenedStands
<1>. QED  BY <1>5, <1>6, <1>7, <1>8 DEF Inv

-----------------------------------------------------------------------------
(* The invariant, and what follows from it.                                *)

\* Every step keeps the invariant.
LEMMA InvStep == Inv /\ [Next]_vars => Inv'
<1>. SUFFICES ASSUME Inv, [Next]_vars PROVE Inv'
  OBVIOUS
<1>1. CASE UNCHANGED vars
  BY <1>1 DEF vars, memory, chain, Inv, Types, Tracking, Counting, Polling, Versions,
              EntriesStand, ScreenedStands
<1>2. CASE ReadHoldings
  BY <1>2, ReadHoldingsKeeps
<1>3. CASE ScreenDue
  BY <1>3, ScreenDueKeeps
<1>4. CASE EndPoll
  BY <1>4, EndPollKeeps
<1>5. CASE Restart
  BY <1>5, RestartKeeps
<1>6. CASE EditList
  BY <1>6, EditListKeeps
<1>7. CASE \E t \in tasks : ScreenOne(t)
  BY <1>7, ScreenOneKeeps
<1>8. CASE \E p \in Pairs : FlushPending(p)
  BY <1>8, FlushPendingKeeps
<1>9. CASE \E p \in Pairs : AddToBlacklist(p)
  BY <1>9, AddToBlacklistKeeps
<1>10. CASE \E p \in Pairs : SendFails(p)
  BY <1>10, SendFailsKeeps
<1>11. CASE \E p \in Pairs : SendThrows(p)
  BY <1>11, SendThrowsKeeps
<1>12. CASE OutsideStep
  BY <1>12, OutsideKeeps
<1>14. CASE \E w \in Wallets : Age(w) \/ BackoffEnds(w)
  BY <1>14, AgeKeeps
<1>. QED  BY <1>1, <1>2, <1>3, <1>4, <1>5, <1>6, <1>7, <1>8, <1>9, <1>10, <1>11, <1>12, <1>14
     DEF Next, OutsideStep

\* The invariant holds in every reachable state.
THEOREM Invariance == Spec => []Inv
<1>1. Init => Inv
  BY InitInv
<1>2. Inv /\ [Next]_vars => Inv'
  BY InvStep
<1>. QED  BY <1>1, <1>2, PTL DEF Spec

\* The checked type invariant follows: of the sends that flush at most one is
\* under way, because any two of them are of the same pair.
LEMMA InvTypeOK == Inv => TypeOK
<1>. SUFFICES ASSUME Inv PROVE TypeOK
  OBVIOUS
<1>. DEFINE F == {p \in Pairs : sender[p] = "flush"}
<1>1. Cardinality(F) <= 1
  <2>1. CASE F = {}
    <3>1. Cardinality(F) = 0
      BY <2>1, FS_EmptySet
    <3>. QED  BY <3>1
  <2>2. CASE F # {}
    <3>1. PICK p \in F : TRUE
      BY <2>2
    <3>2. F = {p}
      BY <3>1 DEF Inv, Polling
    <3>3. Cardinality({p}) = 1
      BY FS_Singleton
    <3>. QED  BY <3>2, <3>3
  <2>. QED  BY <2>1, <2>2
<1>2. /\ entry \in [Pairs -> {"none", "inactive", "active"}]
      /\ pending \subseteq Pairs /\ flush \subseteq Pairs /\ late \subseteq Pairs
  BY DEF Inv, Types, Cells
<1>3. \A w \in Wallets :
       /\ wallets[w].settled \subseteq wallets[w].holdings /\ wallets[w].holdings \subseteq Mints
       /\ wallets[w].tracked <=> wallets[w].holdings # {}
  BY DEF Inv, Types, WalletType, Tracking
<1>4. \A p \in Pairs : attempts[p] \in 0..MAX_SEND_ATTEMPTS /\ (p \notin pending => attempts[p] = 0)
  BY DEF Inv, Types, Counting
<1>5. /\ \A p \in Pairs : sender[p] = "flush" => phase = "flush"
      /\ \A p \in Pairs : sender[p] = "screen" => phase = "screen"
  BY DEF Inv, Polling
<1>. QED  BY <1>1, <1>2, <1>3, <1>4, <1>5 DEF TypeOK

\* The memory keeps its types; a poll flushes at most one pair at a time and
\* its own sends end before it does, for any number of mints and wallets.
THEOREM TypeCorrect == Spec => []TypeOK
BY Invariance, InvTypeOK, PTL

\* No failure, late or lost answer, overlapping poll or restart makes the
\* screener forget a flagged wallet on a mint that its screen settled: the entry
\* is there or the pair is pending, until the wallet is due again.  A mint joined
\* since, and one whose send was refused for the role, are not settled.
THEOREM FlaggedStands == Spec => []ScreenedStands
<1>1. Inv => ScreenedStands
  BY DEF Inv
<1>. QED  BY <1>1, Invariance, PTL

-----------------------------------------------------------------------------
(* A removal stands.                                                       *)

\* Nothing takes up a pair that no poll holds, while every screen has the
\* entries it was given.
LEMMA StaysOff ==
  ASSUME NEW p \in Pairs, p \notin pending', p \notin flush', sender'[p] = "nobody", p \notin late',
         \A t \in tasks' : t.wallet = p[2] =>
            \/ p[1] \notin Open(t)
            \/ \E u \in tasks : u.wallet = t.wallet /\ u.entries = t.entries,
         ~OnTheWay(p)
  PROVE  ~OnTheWay(p)'
BY DEF OnTheWay, Open

\* No action takes a removed pair up, unless it is on the way already; only an
\* operator makes its entry active.
LEMMA RemovalStep ==
  ASSUME Inv, Next, NEW p \in Pairs, entry[p] = "inactive", ~OnTheWay(p)
  PROVE  ~OnTheWay(p)'
<1>0. /\ p \notin pending /\ p \notin flush /\ sender[p] = "nobody" /\ p \notin late
      /\ \A t \in tasks : t.wallet = p[2] => p[1] \notin Open(t)
      /\ sender \in [Pairs -> SenderType] /\ tasks \subseteq TaskType
      /\ p[1] \in Mints /\ p[2] \in Wallets /\ p = <<p[1], p[2]>>
  BY DEF OnTheWay, Inv, Types, Pairs
<1>1. CASE ReadHoldings
  <2>1. \A t \in tasks' : \E u \in tasks : u.wallet = t.wallet /\ u.entries = t.entries
    BY <1>0, <1>1 DEF ReadHoldings, TaskType
  <2>2. flush' = pending /\ pending' = pending /\ sender' = sender /\ late' = late
    BY <1>1 DEF ReadHoldings, chain
  <2>. QED  BY <1>0, <2>1, <2>2, StaysOff
<1>2. CASE ScreenDue
  <2>1. pending' = pending /\ flush' = flush /\ sender' = sender /\ late' = late
    BY <1>2 DEF ScreenDue, chain
  <2>2. ASSUME NEW t \in tasks', t \notin tasks, t.wallet = p[2]
        PROVE  p[1] \notin Open(t)
    <3>1. PICK w \in Wallets :
            t = [wallet |-> w, version |-> list.version, orphan |-> FALSE, known |-> TRUE,
                 entries |-> [m \in wallets[w].holdings |-> entry[<<m, w>>]]]
      BY <1>2, <2>2 DEF ScreenDue
    <3>2. w = p[2] /\ t.entries = [m \in wallets[w].holdings |-> entry[<<m, w>>]]
      BY <2>2, <3>1
    <3>3. ASSUME p[1] \in Open(t) PROVE FALSE
      <4>1. p[1] \in wallets[w].holdings /\ t.entries[p[1]] = "none"
        BY <3>2, <3>3 DEF Open
      <4>2. t.entries[p[1]] = entry[p]
        BY <1>0, <3>2, <4>1
      <4>. QED  BY <4>1, <4>2
    <3>. QED  BY <3>3
  <2>. QED  BY <1>0, <2>1, <2>2, StaysOff
<1>3. CASE EndPoll
  BY <1>0, <1>3, StaysOff DEF EndPoll, chain
<1>4. CASE Restart
  BY <1>0, <1>4, StaysOff DEF Restart
<1>5. CASE EditList
  BY <1>0, <1>5, StaysOff DEF EditList, Change, memory, chain
<1>6. CASE \E t \in tasks : ScreenOne(t)
  <2>1. PICK t \in tasks : ScreenOne(t)
    BY <1>6
  <2>. DEFINE flagged == {<<m, t.wallet>> : m \in Open(t)} \ pending
  <2>2. p \notin flagged
    BY <1>0
  <2>3. /\ tasks' \subseteq tasks /\ flush' = flush /\ late' = late
        /\ \/ pending' = pending /\ sender' = sender
           \/ /\ pending' = pending \cup {q \in flagged : Held(q) \/ sender[q] # "nobody"}
              /\ Start(flagged, IF t.orphan THEN "orphan" ELSE "screen")
    BY <2>1 DEF ScreenOne, chain
  <2>. HIDE DEF flagged
  <2>4. p \notin pending' /\ sender'[p] = "nobody"
    BY <1>0, <2>2, <2>3 DEF Start, Sends
  <2>. QED  BY <1>0, <2>3, <2>4, StaysOff
<1>7. CASE \E q \in Pairs : FlushPending(q)
  <2>1. PICK q \in Pairs : FlushPending(q)
    BY <1>7
  <2>2. q # p
    BY <1>0, <2>1 DEF FlushPending
  <2>3. p \notin pending' /\ p \notin flush' /\ sender'[p] = "nobody" /\ tasks' = tasks
        /\ late' = late
    BY <1>0, <2>1, <2>2 DEF FlushPending, Start, Sends, chain
  <2>. QED  BY <1>0, <2>3, StaysOff
<1>8. CASE \E q \in Pairs : AddToBlacklist(q) \/ SendFails(q)
  <2>1. PICK q \in Pairs : /\ sender[q] # "nobody" /\ late' \subseteq late \cup {q}
                           /\ Settle(q) /\ (Outcome(q, Answer(q)) \/ Outcome(q, "failed"))
    BY <1>8 DEF AddToBlacklist, SendFails
  <2>2. pending' \subseteq pending
    BY <2>1, OutcomeKeeps DEF Inv
  <2>3. sender'[p] = "nobody" /\ flush' = flush /\ tasks' = tasks /\ p \notin late'
    BY <1>0, <1>8, <2>1 DEF AddToBlacklist, SendFails, Settle
  <2>. QED  BY <1>0, <2>2, <2>3, StaysOff
<1>9. CASE \E q \in Pairs : SendThrows(q)
  <2>1. pending' = pending /\ flush' \subseteq flush /\ sender'[p] = "nobody" /\ p \notin late'
    BY <1>0, <1>9 DEF SendThrows
  <2>2. \A t \in tasks' : \E u \in tasks : u.wallet = t.wallet /\ u.entries = t.entries
    BY <1>0, <1>9 DEF SendThrows, TaskType
  <2>. QED  BY <1>0, <2>1, <2>2, StaysOff
<1>10. CASE OutsideStep
  BY <1>0, <1>10, StaysOff
     DEF OutsideStep, Operator, Holder, Issuer, LandsLate, LateExpires, Change, memory
<1>11. CASE \E w \in Wallets : Age(w) \/ BackoffEnds(w)
  BY <1>0, <1>11, StaysOff DEF Age, BackoffEnds, chain
<1>. QED  BY <1>1, <1>2, <1>3, <1>4, <1>5, <1>6, <1>7, <1>8, <1>9, <1>10, <1>11
     DEF Next, OutsideStep

\* A removal by an operator stands: whatever else happens, the screener never
\* takes up a removed pair that nothing of it was on the way to.
THEOREM RemovalRespected == Spec => RemovalStands
<1>1. Inv /\ [Next]_vars =>
        [\A p \in Pairs : entry[p] = "inactive" /\ ~OnTheWay(p)
            => entry'[p] = "active" \/ ~OnTheWay(p)']_vars
  BY RemovalStep
<1>. QED  BY <1>1, Invariance, PTL DEF Spec, RemovalStands

=============================================================================
