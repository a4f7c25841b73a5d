------------------------------- MODULE Pages -------------------------------
(***************************************************************************)
(* The console's pages that read a mint somebody names: /decisions,        *)
(* /reserves and the mint card of /issuer (frontend/src/pages).  Naming a  *)
(* mint runs the page's effect, whose reads answer in any order, also after*)
(* another mint was named; a decision row has a live check of its own; the *)
(* mint card simulates, sends, and reads its status again.                 *)
(*                                                                         *)
(* External: the chain, reduced to how much each mint may still mint, and  *)
(* the keeper's HTTP API.  The connected wallet stays the same.            *)
(***************************************************************************)
EXTENDS Naturals, FiniteSets

CONSTANTS
  Names,      \* what may be typed as a mint: mints, and texts that are none
  Unit,       \* the base units of one token of each mint
  Rows,       \* the token accounts in the keeper's view of a mint
  Typed,      \* the amounts typed, in whole tokens
  Rooms,      \* the base units a mint may still mint, before it refuses
  MaxNamings, \* bound on the mints named after the first
  MaxMints    \* bound on the mint card's transactions

VARIABLES
  page,    \* "decisions", "reserves", "mint" or "none"
  named,   \* the mint in the URL, or in the card's field
  reads,   \* reads under way
  shown,   \* what the page holds, by part: the answers not cleared since
  row,     \* each decision row's own check
  job,     \* the mint card's handler
  room,    \* on chain: how many more base units each mint may mint
  namings,
  minted,  \* history: the transactions the chain took
  late     \* history: a mint was named under a running handler or refresh

page_vars == <<page, named, reads, shown, row, job, room, namings, minted, late>>

Keys  == DOMAIN Unit
Parts == {"policy", "credential", "keeper", "facts", "lastTx", "snapshot", "blocked", "status", "outcome"}

\* about: the effect run, the row or the refresh that asked.
Read(part, key, about) == [part |-> part, mint |-> key, about |-> about]
Page == "page"

\* Of the facts, chain: the accounts whose owners only the chain was read for;
\* unknown: those whose owners the keeper has not judged yet.
Says(key, result) == [mint |-> key, result |-> result, chain |-> {}, unknown |-> {}]
SaysFacts(key, chain, unknown) == [mint |-> key, result |-> "ok", chain |-> chain, unknown |-> unknown]
Has(part, result)       == \E s \in shown[part] : s.result = result

NoJob == [pc |-> "idle", key |-> "none", typed |-> 0, base |-> 0, refreshes |-> "none"]
Busy  == job.pc # "idle"

-----------------------------------------------------------------------------
(* The effects.                                                            *)

FirstReads(p, key) ==
  IF key \notin Keys THEN {}
  ELSE {Read(part, key, Page) :
          part \in CASE p = "decisions" -> {"policy", "keeper"}
                     [] p = "reserves"  -> {"snapshot", "blocked"}
                     [] p = "mint"      -> {"status"}
                     [] OTHER           -> {}}

PagesInit(pages) ==
  /\ page \in pages /\ named \in (IF page = "none" THEN {CHOOSE m \in Keys : TRUE} ELSE Names)
  /\ reads = FirstReads(page, named)
  /\ shown = [p \in Parts |-> {}]
  /\ row = [a \in Rows |-> "unmounted"]
  /\ job = NoJob
  /\ room \in [Keys -> IF page = "mint" THEN Rooms ELSE {0}]
  /\ namings = 0 /\ minted = {} /\ late = FALSE

\* Mutant: an effect run that is over still takes its answers.
KeepsAsking(rs) == rs

\* The cleanup of an effect run (live = false), and the unmounting of its
\* rows: their answers are dropped as they come.  The card's refresh belongs
\* to none.
Outliving(rs) == {r \in rs : r.about = "refresh"}

\* A mint is named, or shown again (reload): the effect clears the page and
\* reads anew.
Name(key) ==
  /\ page # "none" /\ namings < MaxNamings /\ namings' = namings + 1
  /\ page = "mint" => key # named
  /\ named' = key
  /\ reads' = Outliving(reads) \cup FirstReads(page, key)
  /\ shown' = [p \in Parts |-> {}]
  /\ row' = [a \in Rows |-> "unmounted"]
  /\ late' = (late \/ Busy \/ \E r \in reads : r.about = "refresh")
  /\ UNCHANGED <<page, job, room, minted>>

Answers(read, answer, next) ==
  /\ read \in reads
  /\ shown' = [shown EXCEPT ![read.part] = IF read.part = "lastTx" THEN @ \cup {answer} ELSE {answer}]
  /\ reads' = (reads \ {read}) \cup next

-----------------------------------------------------------------------------
(* /decisions.                                                             *)

\* The rows are there while the keeper's view and the policy are.
Mounted(s) == \E k \in s["keeper"], p \in s["policy"] : k.result = "ok" /\ p.result \in {"lists", "sas"}

FromChain(s, a) == \E f \in s["facts"] : a \in f.chain

\* Mutant: a row looks at its facts only when it is mounted.
RecheckOnMount(a, s) == row[a] = "unmounted" /\ Mounted(s) /\ FromChain(s, a)

\* The row's effect: facts from the chain are checked live straight away, as
\* the row mounts or as they arrive.
Recheck(a, s) == Mounted(s) /\ FromChain(s, a) /\ row[a] \in {"unmounted", "null"}

\* A row after the render with `shown'`, and the checks it starts.
Rendered == [a \in Rows |-> IF Recheck(a, shown') THEN "running"
                            ELSE IF row[a] = "unmounted" /\ Mounted(shown') THEN "null" ELSE row[a]]
Explains(key) == {Read("live", key, a) : a \in {x \in Rows : Recheck(x, shown')}}

\* getPolicy, and the credential account it names.
PolicyAnswers(read) ==
  /\ read.part = "policy"
  /\ \E result \in {"lists", "sas", "null"} :
       /\ Answers(read, Says(read.mint, result),
                  (IF result = "sas" THEN {Read("credential", read.mint, Page)} ELSE {})
                    \cup Explains(read.mint))
  /\ row' = Rendered
  /\ UNCHANGED <<page, named, job, room, namings, minted, late>>

\* The keeper's view; then the owners' facts, and the last transactions one
\* account at a time.
KeeperAnswers(read) ==
  /\ read.part = "keeper"
  /\ \E result \in {"ok", "untracked", "unreachable"}, first \in Rows :
       Answers(read, Says(read.mint, result),
               (IF result = "ok" THEN {Read("facts", read.mint, Page),
                                       Read("lastTx", read.mint, first)} ELSE {})
                 \cup Explains(read.mint))
  /\ row' = Rendered
  /\ UNCHANGED <<page, named, job, room, namings, minted, late>>

\* ownerFacts; when it fails the page goes on with no facts.
FactsAnswer(read) ==
  /\ read.part = "facts"
  /\ \/ \E chain, unknown \in SUBSET Rows :
          chain \cap unknown = {} /\ Answers(read, SaysFacts(read.mint, chain, unknown), Explains(read.mint))
     \/ Answers(read, Says(read.mint, "failed"), {})
  /\ row' = Rendered
  /\ UNCHANGED <<page, named, job, room, namings, minted, late>>

LastTxAnswers(read) ==
  LET rest == Rows \ ({s.result : s \in shown["lastTx"]} \cup {read.about})
  IN  /\ read.part = "lastTx"
      /\ Answers(read, Says(read.mint, read.about), IF rest = {} THEN {} ELSE {Read("lastTx", read.mint, CHOOSE a \in rest : TRUE)})
      /\ UNCHANGED <<page, named, row, job, room, namings, minted, late>>

\* The button of a row without a check, and the answer to the check: explain
\* decides, or not (permissionless thaws are off, the simulation failed).
recheck(a) ==
  /\ row[a] = "null"
  /\ row' = [row EXCEPT ![a] = "running"]
  /\ reads' = reads \cup {Read("live", named, a)}
  /\ UNCHANGED <<page, named, shown, job, room, namings, minted, late>>

LiveAnswers(read) ==
  /\ read \in reads /\ read.part = "live"
  /\ reads' = reads \ {read}
  /\ \E result \in {"explained", "undecided", "error"} : row' = [row EXCEPT ![read.about] = result]
  /\ UNCHANGED <<page, named, shown, job, room, namings, minted, late>>

-----------------------------------------------------------------------------
(* What /reserves, the credential line and the mint card's status read.    *)

PartAnswers(read) ==
  /\ read.part \in {"credential", "snapshot", "blocked"}
  /\ \E result \in {"ok", "failed"} : Answers(read, Says(read.mint, result), {})
  /\ UNCHANGED <<page, named, row, job, room, namings, minted, late>>

\* loadStatus, for the effect or a refresh; when it fails the status stays.
StatusAnswers(read) ==
  /\ read.part = "status"
  /\ \/ Answers(read, Says(read.mint, "ok"), {})
     \/ read \in reads /\ reads' = reads \ {read} /\ UNCHANGED shown
  /\ UNCHANGED <<page, named, row, job, room, namings, minted, late>>

-----------------------------------------------------------------------------
(* The mint card.                                                          *)

\* mintNow reads the amount in the decimals of the status it has.
mintNow(typed) ==
  /\ page = "mint" /\ ~Busy /\ Has("status", "ok") /\ Cardinality(minted) < MaxMints
  /\ LET status == CHOOSE s \in shown["status"] : TRUE
         base   == typed * Unit[status.mint]
     IN  /\ job' = IF named \notin Keys \/ base = 0 THEN job
                   ELSE [pc |-> "simulate", key |-> named, typed |-> typed, base |-> base, refreshes |-> named]
         /\ shown' = [shown EXCEPT !["outcome"] =
                        IF named \notin Keys THEN @ ELSE IF base = 0 THEN {Says(named, "error")} ELSE {}]
  /\ UNCHANGED <<page, named, reads, row, room, namings, minted, late>>

Ends(outcome) ==
  /\ job' = [NoJob EXCEPT !.key = job.key, !.typed = job.typed, !.base = job.base]
  /\ shown' = [shown EXCEPT !["outcome"] = {outcome}]

\* A refusal ends here, and nothing is sent; its instructions are kept.
Simulated ==
  /\ job.pc = "simulate"
  /\ \/ /\ job.base <= room[job.key]
        /\ job' = [job EXCEPT !.pc = "send"] /\ UNCHANGED shown
     \/ job.base > room[job.key] /\ Ends(Says(job.key, "refused"))
     \/ Ends(Says(job.key, "error"))
  /\ UNCHANGED <<page, named, reads, row, room, namings, minted, late>>

Refresh == IF job.refreshes \in Keys THEN {Read("status", job.refreshes, "refresh")} ELSE {}
Tx      == [mint |-> job.key, typed |-> job.typed, base |-> job.base, how |-> job.pc, n |-> Cardinality(minted)]

\* The transaction lands and is confirmed; or the wallet, the preflight or the
\* confirmation fails, and then it may have landed all the same.
SendAnswers ==
  /\ job.pc \in {"send", "record"}
  /\ \/ /\ job.base <= room[job.key]
        /\ room' = [room EXCEPT ![job.key] = @ - job.base] /\ minted' = minted \cup {Tx}
        /\ \/ Ends(Says(job.key, "minted")) /\ reads' = reads \cup Refresh
           \/ Ends(Says(job.key, "error")) /\ UNCHANGED reads
     \/ /\ job.pc = "record" /\ job.base > room[job.key]
        /\ Ends(Says(job.key, "recorded")) /\ reads' = reads \cup Refresh
        /\ UNCHANGED <<room, minted>>
     \/ Ends(Says(job.key, "error")) /\ UNCHANGED <<reads, room, minted>>
  /\ UNCHANGED <<page, named, row, namings, late>>

\* "Send anyway": what was refused goes out without preflight.
recordRefusal ==
  /\ page = "mint" /\ ~Busy /\ Has("outcome", "refused") /\ Has("status", "ok") /\ Cardinality(minted) < MaxMints
  /\ job' = [job EXCEPT !.pc = "record", !.refreshes = named]
  /\ UNCHANGED <<page, named, reads, shown, row, room, namings, minted, late>>

\* The attestor posts, others mint.
RoomChanges ==
  /\ page = "mint"
  /\ \E m \in Keys, r \in Rooms : room' = [room EXCEPT ![m] = r]
  /\ UNCHANGED <<page, named, reads, shown, row, job, namings, minted, late>>

-----------------------------------------------------------------------------
ReadAnswers(read) ==
  \/ PolicyAnswers(read) \/ KeeperAnswers(read) \/ FactsAnswer(read)
  \/ LastTxAnswers(read) \/ LiveAnswers(read) \/ PartAnswers(read) \/ StatusAnswers(read)

PagesNext ==
  \/ \E key \in Names : Name(key)
  \/ \E read \in reads : ReadAnswers(read)
  \/ \E a \in Rows : recheck(a)
  \/ \E typed \in Typed : mintNow(typed)
  \/ Simulated \/ SendAnswers \/ recordRefusal \/ RoomChanges

-----------------------------------------------------------------------------
(* Properties.                                                             *)

\* The parts of a page, its reads and the card's handler are of mints.
PagesTypeOK ==
  /\ page \in {"none", "decisions", "reserves", "mint"} /\ named \in Names
  /\ \A r \in reads : r.part \in Parts \cup {"live"} /\ r.mint \in Keys /\ r.about \in Rows \cup {Page, "refresh"}
  /\ \A p \in Parts : \A s \in shown[p] : s.mint \in Keys /\ s.chain \cup s.unknown \subseteq Rows
  /\ row \in [Rows -> {"unmounted", "null", "running", "explained", "undecided", "error"}]
  /\ job.pc \in {"idle", "simulate", "send", "record"} /\ (Busy => job.key \in Keys)
  /\ room \in [Keys -> Nat]

\* Whatever the order of the answers, what a page holds is of the mint it
\* names; the mint card may hold something of the mint before if another was
\* typed while it was at work (DecisionsPage.tsx, ReservesPage.tsx, MintCard:
\* the `live` flag of their effects).
ShownIsOfTheMint ==
  late \/ \A p \in Parts : \A s \in shown[p] : s.mint = named

\* What the mint card mints is what was typed, in the decimals of the mint it
\* mints, a refusal sent anyway included, unless another mint was typed while
\* the card was at work (IssuerPage.tsx mintNow, recordRefusal).
AmountsAsTyped ==
  late \/ \A tx \in minted : tx.base = tx.typed * Unit[tx.mint]

\* The decision a row shows: the keeper's verdict, or for facts from the chain
\* the live check's.
Judged(a) ==
  \E f \in shown["facts"] :
    f.result = "ok" /\ (IF a \in f.chain THEN row[a] = "explained" ELSE a \notin f.unknown)

\* A row that stays without one, and says so: the keeper has not judged its
\* owner yet, or the live check failed or came to nothing.
Unjudged(a) == row[a] \in {"undecided", "error"} \/ \E f \in shown["facts"] : a \in f.unknown

\* Every row comes to a decision, in whatever order the policy, the keeper's
\* view and the facts arrive; unless a read fails, the mint is named anew, or
\* the row says that there is none: an owner the keeper tracks and has not
\* judged yet is never checked live by itself (DecisionsPage.tsx: "The keeper
\* has no verdict for this owner ...: decide it live straight away").
RowsAreJudged ==
  \A a \in Rows :
    Mounted(shown) ~> (Judged(a) \/ Unjudged(a) \/ Has("facts", "failed") \/ ~Mounted(shown))
=============================================================================
