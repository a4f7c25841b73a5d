------------------------------- MODULE Wizard -------------------------------
(***************************************************************************)
(* The console's issuer page (frontend/src/pages/IssuerPage.tsx): the      *)
(* wizard that makes a mint in four steps, saved per wallet, and the card  *)
(* that attests a holder.  A step asks the chain whether it landed before  *)
(* it is sent again; a transaction whose confirmation failed may yet land; *)
(* the page may be reloaded and the wallet switched in the middle.  The    *)
(* buttons wait for the steps of the run shown, Retry waits for nothing:   *)
(* handlers may run side by side, and write into the run shown.            *)
(*                                                                         *)
(* External: the chain, reduced to what the page looks at: per mint the    *)
(* config and reserve attestation accounts and the SAS part of the policy  *)
(* enable_token_acl wrote, and the self-issued credential of each wallet,  *)
(* named by that wallet, with the holder's attestation under it.           *)
(***************************************************************************)
EXTENDS Integers, FiniteSets

CONSTANTS
  Wallets,       \* the issuer's wallets
  MaxMints,      \* bound on generated mint keypairs
  Modes,         \* the SAS modes the issuer tries
  MaxHandlers,   \* bound on handlers under way at once
  MaxMishaps     \* bound on failed reads, failed and lost transactions, page
                 \* reloads, fresh starts and wallet switches

ASSUME WizardAssumption ==
  /\ MaxMints \in Nat \ {0} /\ MaxMishaps \in Nat /\ MaxHandlers \in Nat \ {0}
  /\ Wallets \cap {"none", "given", "absent"} = {}
  /\ Modes \subseteq {"off", "existing", "create"}

VARIABLES
  chain,       \* per mint: made (initialize), backed (setup), policy (enable_token_acl)
  credentials, \* the wallets whose credential and schema exist
  attested,    \* those of them under whose credential the holder is attested
  flights,     \* transactions in the network
  wallet,      \* the connected wallet
  progress,    \* the saved run of each wallet
  keypair,     \* the mint keypair in memory, NoMint if none
  generated,   \* keypairs generated so far
  task,        \* the handlers under way
  card,        \* the attest card: its status, its signer and the credential
  mishaps,
  lost,        \* history: mints whose keypair was forgotten
  crossed      \* history: a wallet was switched under a running step

chain_vars == <<chain, credentials, attested, flights>>
page_vars  == <<wallet, progress, keypair, generated, task, card>>
vars       == <<chain_vars, page_vars, mishaps, lost, crossed>>

Mints  == 1 .. MaxMints
Slots  == 1 .. MaxHandlers
NoMint == 0
Steps  == {"initialize", "setup", "credential", "enable"}

\* Progress: mint, policy (the form's SAS mode), sas (what the policy will
\* use: a wallet names its self-issued credential), policyDone, steps.
fresh == [mint |-> NoMint, policy |-> "create", sas |-> "none", policyDone |-> FALSE,
          steps |-> [s \in Steps |-> "todo"]]

CardToDo == [status |-> "todo", by |-> "none", under |-> "none"]

NoTask == [fn |-> "none", step |-> "none", pc |-> "none", mint |-> NoMint, sas |-> "none", wallet |-> "none"]

Init ==
  /\ chain = [m \in Mints |-> [made |-> FALSE, backed |-> FALSE, policy |-> "absent"]]
  /\ credentials = {} /\ attested = {} /\ flights = {}
  /\ wallet \in Wallets
  /\ progress = [w \in Wallets |-> fresh]
  /\ keypair = NoMint /\ generated = 0
  /\ task = [h \in Slots |-> NoTask] /\ card = CardToDo
  /\ mishaps = 0
  /\ lost = {} /\ crossed = FALSE

-----------------------------------------------------------------------------
(* What the page shows.                                                    *)

run  == progress[wallet]
Done(step) == run.steps[step] = "done"
Failed(step) == run.steps[step] = "failed"
busy == \E s \in Steps : run.steps[s] = "running"
coinDone == Done("initialize") /\ Done("setup")
policyLocked == ~coinDone \/ run.policyDone \/ busy

\* setProgress and setStep: they write the run of the wallet connected now.
SetProgress(p) == progress' = [progress EXCEPT ![wallet] = p]
WithStep(p, step, status) == [p EXCEPT !.steps[step] = status]

Mishap == mishaps < MaxMishaps /\ mishaps' = mishaps + 1

-----------------------------------------------------------------------------
(* The handlers up to their first await.                                   *)

\* What a handler keeps from the render its button was pressed in.
Handler(fn, step, mint) ==
  [fn |-> fn, step |-> step, pc |-> "asking", mint |-> mint, sas |-> run.sas, wallet |-> wallet]

Alive(h) == task[h].fn # "none"
HasRoom  == \E h \in Slots : ~Alive(h)
FreeSlot == CHOOSE h \in Slots : ~Alive(h)

\* runStep: the step is marked running, then the chain is asked.
Ask(fn, step) ==
  /\ HasRoom
  /\ task' = [task EXCEPT ![FreeSlot] = Handler(fn, step, run.mint)]
  /\ SetProgress(WithStep(run, step, "running"))

\* The button of step 1 gives way to Retry.
CoinOffered ==
  \/ ~coinDone /\ ~busy
  \/ Failed("initialize") \/ Failed("setup")

createCoin ==
  /\ CoinOffered
  /\ Ask("createCoin", IF Done("initialize") THEN "setup" ELSE "initialize")
  /\ UNCHANGED <<chain_vars, wallet, keypair, generated, card, mishaps, lost, crossed>>

setPolicy(mode) ==
  /\ ~policyLocked /\ run.policy # mode
  /\ SetProgress([run EXCEPT !.policy = mode])
  /\ UNCHANGED <<chain_vars, wallet, keypair, generated, task, card, mishaps, lost, crossed>>

\* Mutant: the form's choice goes into the policy as it is.
SasAsChosen(mode) == mode

SasOf(mode) == IF mode = "off" THEN "none" ELSE "given"

\* The card is there with a run that issues its own credential, and forgets
\* what it did when it goes.
CardGoes == card' = CardToDo

\* The accounts of an existing credential are found or not; finding them is
\* taken for granted here.
savePolicy ==
  /\ IF run.policy = "create"
       THEN /\ ~policyLocked \/ Failed("credential")
            /\ Ask("savePolicy", "credential") /\ UNCHANGED card
       ELSE /\ ~policyLocked
            /\ SetProgress([run EXCEPT !.sas = SasOf(run.policy), !.policyDone = TRUE])
            /\ CardGoes /\ UNCHANGED task
  /\ UNCHANGED <<chain_vars, wallet, keypair, generated, mishaps, lost, crossed>>

changePolicy ==
  /\ run.policyDone /\ ~Done("enable") /\ ~busy
  /\ SetProgress([run EXCEPT !.policyDone = FALSE])
  /\ UNCHANGED <<chain_vars, wallet, keypair, generated, task, card, mishaps, lost, crossed>>

\* The button waits for the coin and the policy; Retry does not.
enable ==
  /\ run.mint # NoMint
  /\ \/ Failed("enable")
     \/ ~Done("enable") /\ coinDone /\ run.policyDone /\ ~busy
  /\ Ask("enable", "enable")
  /\ UNCHANGED <<chain_vars, wallet, keypair, generated, card, mishaps, lost, crossed>>

startOver ==
  /\ ~busy /\ (run.mint # NoMint \/ run.policyDone)
  /\ Mishap
  /\ SetProgress(fresh) /\ CardGoes
  /\ keypair' = NoMint /\ lost' = lost \cup ({keypair} \ {NoMint})
  /\ UNCHANGED <<chain_vars, wallet, generated, task, crossed>>

-----------------------------------------------------------------------------
(* runStep.                                                                *)

\* Mutant: any mint's config counts.
LandedForAnyMint(t) ==
  CASE t.step = "initialize" -> \E n \in Mints : chain[n].made
    [] t.step = "setup"      -> chain[t.mint].backed
    [] t.step = "enable"     -> chain[t.mint].policy # "absent"
    [] t.step = "credential" -> t.wallet \in credentials

\* What each step asks of the chain.
landed(t) ==
  CASE t.step = "initialize" -> t.mint # NoMint /\ chain[t.mint].made
    [] t.step = "setup"      -> chain[t.mint].backed
    [] t.step = "enable"     -> chain[t.mint].policy # "absent"
    [] t.step = "credential" -> t.wallet \in credentials

Goes(h, t) == task' = [task EXCEPT ![h] = t]

\* After a step: createCoin goes on to setup, savePolicy fixes the policy.
StepDone(h) ==
  LET t == task[h]
  IN  CASE t.step = "initialize" ->
             /\ Goes(h, [t EXCEPT !.step = "setup", !.pc = "asking"])
             /\ SetProgress(WithStep(WithStep(run, "initialize", "done"), "setup", "running"))
        [] t.step = "credential" ->
             /\ Goes(h, NoTask)
             /\ SetProgress([WithStep(run, "credential", "done") EXCEPT !.sas = t.wallet, !.policyDone = TRUE])
        [] OTHER -> Goes(h, NoTask) /\ SetProgress(WithStep(run, t.step, "done"))

StepFailed(h) == Goes(h, NoTask) /\ SetProgress(WithStep(run, task[h].step, "failed"))

\* sdk.reserves(null) throws: a setup without a mint fails here.
Answer(h) ==
  /\ task[h].pc = "asking"
  /\ CASE task[h].step = "setup" /\ task[h].mint = NoMint -> StepFailed(h)
       [] landed(task[h]) -> StepDone(h)
       [] OTHER -> Goes(h, [task[h] EXCEPT !.pc = "sending"]) /\ UNCHANGED progress
  /\ UNCHANGED <<chain_vars, wallet, keypair, generated, card, mishaps, lost, crossed>>

Tx(do, mint, sas, by) == [do |-> do, mint |-> mint, sas |-> sas, by |-> by]

Sent(h, tx) ==
  /\ Goes(h, [task[h] EXCEPT !.pc = "waiting", !.mint = tx.mint])
  /\ flights' = flights \cup {tx}
  /\ UNCHANGED <<chain, credentials, attested>>

\* Mutant: every try generates a keypair.
SendInitializeAnew(h) ==
  /\ task[h].pc = "sending" /\ task[h].step = "initialize"
  /\ generated < MaxMints
  /\ keypair' = generated + 1 /\ generated' = generated + 1
  /\ SetProgress([run EXCEPT !.mint = generated + 1])
  /\ Sent(h, Tx("initialize", generated + 1, "none", task[h].wallet))
  /\ UNCHANGED <<wallet, card, mishaps, lost, crossed>>

\* The keypair in memory is used again if it is the mint of the render; a new
\* one's address is saved before the transaction goes out.
SendInitialize(h) ==
  /\ task[h].pc = "sending" /\ task[h].step = "initialize"
  /\ LET reuse == task[h].mint # NoMint /\ keypair = task[h].mint
         m == IF reuse THEN task[h].mint ELSE generated + 1
     IN  /\ m \in Mints
         /\ keypair' = m /\ generated' = IF reuse THEN generated ELSE m
         /\ IF reuse THEN UNCHANGED progress ELSE SetProgress([run EXCEPT !.mint = m])
         /\ Sent(h, Tx("initialize", m, "none", task[h].wallet))
  /\ UNCHANGED <<wallet, card, mishaps, lost, crossed>>

SendStep(h) ==
  /\ task[h].pc = "sending" /\ task[h].step # "initialize"
  /\ Sent(h, Tx(task[h].step, task[h].mint, task[h].sas, task[h].wallet))
  /\ UNCHANGED <<wallet, progress, keypair, generated, card, mishaps, lost, crossed>>

TaskTx(t) == Tx(t.step, t.mint, IF t.step = "initialize" THEN "none" ELSE t.sas, t.wallet)

\* The transaction was confirmed.
Confirmed(h) ==
  /\ task[h].pc = "waiting" /\ TaskTx(task[h]) \notin flights /\ landed(task[h])
  /\ StepDone(h)
  /\ UNCHANGED <<chain_vars, wallet, keypair, generated, card, mishaps, lost, crossed>>

\* It was refused or dropped, ...
Refused(h) ==
  /\ task[h].pc = "waiting" /\ TaskTx(task[h]) \notin flights /\ ~landed(task[h])
  /\ StepFailed(h)
  /\ UNCHANGED <<chain_vars, wallet, keypair, generated, card, mishaps, lost, crossed>>

\* ... or a read, the wallet or the confirmation failed: what was sent is
\* still in the network.
TaskFails(h) ==
  /\ Alive(h) /\ Mishap
  /\ StepFailed(h)
  /\ UNCHANGED <<chain_vars, wallet, keypair, generated, card, lost, crossed>>

-----------------------------------------------------------------------------
(* The network and the programs, external to the page.                     *)

Effect(tx) ==
  CASE tx.do = "initialize" ->
         /\ chain' = [chain EXCEPT ![tx.mint].made = TRUE]
         /\ UNCHANGED <<credentials, attested>>
    [] tx.do = "setup" ->
         /\ chain' = [chain EXCEPT ![tx.mint].backed = chain[tx.mint].made]
         /\ UNCHANGED <<credentials, attested>>
    [] tx.do = "enable" ->
         /\ chain' = [chain EXCEPT ![tx.mint].policy =
                        IF chain[tx.mint].made /\ @ = "absent" THEN tx.sas ELSE @]
         /\ UNCHANGED <<credentials, attested>>
    [] tx.do = "credential" -> credentials' = credentials \cup {tx.by} /\ UNCHANGED <<chain, attested>>
    [] tx.do = "attest" ->
         /\ attested' = attested \cup ({tx.by} \cap {tx.sas} \cap credentials)
         /\ UNCHANGED <<chain, credentials>>

Land(tx) ==
  /\ tx \in flights
  /\ flights' = flights \ {tx}
  /\ Effect(tx)
  /\ UNCHANGED <<page_vars, mishaps, lost, crossed>>

Drop(tx) ==
  /\ tx \in flights /\ Mishap
  /\ flights' = flights \ {tx}
  /\ UNCHANGED <<chain, credentials, attested, page_vars, lost, crossed>>

-----------------------------------------------------------------------------
(* The page itself.                                                        *)

\* Mutant: a running step is restored as running, and nothing runs it.
RestoreAsIs(p) == p

\* restore: a step that was running is to do again.
restore(p) == [p EXCEPT !.steps = [s \in Steps |-> IF p.steps[s] = "running" THEN "todo" ELSE p.steps[s]]]

Forgotten == lost' = lost \cup ({keypair} \ {NoMint})

Reload ==
  /\ Mishap
  /\ SetProgress(restore(run))
  /\ keypair' = NoMint /\ Forgotten
  /\ task' = [h \in Slots |-> NoTask] /\ CardGoes
  /\ UNCHANGED <<chain_vars, wallet, generated, crossed>>

\* The handlers under way go on, with the other wallet's run.  The card stays
\* as it is, and shows what it did, if the other wallet's run has one too.
SwitchWallet(w) ==
  /\ Mishap /\ w # wallet
  /\ wallet' = w
  /\ progress' = [progress EXCEPT ![w] = restore(@)]
  /\ keypair' = NoMint /\ Forgotten
  /\ crossed' = (crossed \/ \E h \in Slots : Alive(h))
  /\ IF progress[w].sas \in Wallets THEN UNCHANGED card ELSE CardGoes
  /\ UNCHANGED <<chain_vars, generated, task>>

-----------------------------------------------------------------------------
(* AttestCard: existing, attest, and existing again after an error.        *)

AttestTx == Tx("attest", NoMint, card.under, card.by)

cardAttest ==
  /\ card.status \notin {"sending", "waiting"}
  /\ run.sas \in Wallets
  /\ card' = [status |-> IF run.sas \in attested THEN "done" ELSE "sending", by |-> wallet, under |-> run.sas]
  /\ UNCHANGED <<chain_vars, wallet, progress, keypair, generated, task, mishaps, lost, crossed>>

cardSend ==
  /\ card.status = "sending"
  /\ card' = [card EXCEPT !.status = "waiting"]
  /\ flights' = flights \cup {AttestTx}
  /\ UNCHANGED <<chain, credentials, attested, wallet, progress, keypair, generated, task,
                 mishaps, lost, crossed>>

\* Confirmed or refused; an error, too, ends in a look at the chain, which may
\* fail in its turn.
cardAnswer ==
  LET found == IF card.under \in attested THEN "done" ELSE "failed"
  IN  /\ card.status = "waiting"
      /\ \/ AttestTx \notin flights /\ card' = [card EXCEPT !.status = found] /\ UNCHANGED mishaps
         \/ Mishap /\ \E status \in {found, "failed"} : card' = [card EXCEPT !.status = status]
      /\ UNCHANGED <<chain_vars, wallet, progress, keypair, generated, task, lost, crossed>>

-----------------------------------------------------------------------------
\* A handler's next step, once what it waits for has come.
GoesOn(h) == Answer(h) \/ SendInitialize(h) \/ SendStep(h) \/ Confirmed(h) \/ Refused(h)

HandlerNext ==
  \/ createCoin \/ savePolicy \/ changePolicy \/ enable \/ startOver
  \/ \E mode \in Modes : setPolicy(mode)
  \/ \E h \in Slots : GoesOn(h) \/ TaskFails(h)
  \/ cardAttest \/ cardSend \/ cardAnswer

Next ==
  \/ HandlerNext
  \/ \E tx \in flights : Land(tx) \/ Drop(tx)
  \/ Reload
  \/ \E w \in Wallets : SwitchWallet(w)

\* An answer or an error always comes, a transaction lands or is dropped, and
\* the issuer goes on with what the page offers.
Fairness ==
  /\ WF_vars(\E h \in Slots : GoesOn(h))
  /\ WF_vars(\E tx \in flights : Land(tx))
  /\ WF_vars(createCoin)
  /\ SF_vars(savePolicy) /\ SF_vars(enable)

Spec == Init /\ [][Next]_vars /\ Fairness

-----------------------------------------------------------------------------
Statuses == {"todo", "running", "done", "failed"}

\* The saved runs, the card and the chain keep their shape.
TypeOK ==
  /\ chain \in [Mints -> [made: BOOLEAN, backed: BOOLEAN,
                          policy: {"absent", "none", "given"} \cup Wallets]]
  /\ credentials \subseteq Wallets /\ attested \subseteq Wallets
  /\ wallet \in Wallets
  /\ progress \in [Wallets -> [mint: Mints \cup {NoMint}, policy: {"off", "existing", "create"},
                               sas: {"none", "given"} \cup Wallets, policyDone: BOOLEAN,
                               steps: [Steps -> Statuses]]]
  /\ keypair \in Mints \cup {NoMint} /\ generated \in 0 .. MaxMints
  /\ card \in [status: {"todo", "sending", "waiting", "done", "failed"},
               by: {"none"} \cup Wallets, under: {"none"} \cup Wallets]
  /\ lost \subseteq Mints /\ crossed \in BOOLEAN

\* A step that a wallet's run calls done is on chain, for the mint and the
\* wallet of that run, whatever was retried, lost, dropped or reloaded; unless a
\* wallet was switched under a running step (IssuerPage.tsx runStep, restore).
\* An attestation that the card calls done is on chain under the credential its
\* button was pressed with: after a switch to another run with a credential of
\* its own, the card shows it beside that one (AttestCard).
DoneIsOnChain ==
  /\ ~crossed => \A w \in Wallets :
       LET p == progress[w]
       IN  /\ p.steps["initialize"] = "done" => p.mint # NoMint /\ chain[p.mint].made
           /\ p.steps["setup"] = "done" => chain[p.mint].backed
           /\ p.steps["enable"] = "done" => chain[p.mint].policy # "absent"
           /\ p.steps["credential"] = "done" => w \in credentials
  /\ card.status = "done" => card.under \in attested

\* While the page keeps its keypair, retries make one mint: of the mints on
\* chain at most one was not forgotten by a reload, a fresh start or another
\* wallet (IssuerPage.tsx: "a retry in this session reuses it"); unless a wallet
\* was switched under a running step, after which a second handler of step 1 may
\* run beside the first and replace its keypair.
RetryKeepsMint == ~crossed => Cardinality({m \in Mints : chain[m].made} \ lost) <= 1

\* An issuer who goes on gets there, after any failures and reloads: the mint
\* is made, backed and gated (IssuerPage.tsx: "so a failed or interrupted run
\* resumes").
Completes ==
  [](~crossed) =>
    \A w \in Wallets : <>[](wallet = w) => <>(progress[w].steps["enable"] = "done")
=============================================================================
