--------------------------- MODULE Console_proofs ---------------------------
(***************************************************************************)
(* Proofs about Console, for any wallets, mints, rows, amounts and bounds. *)
(* The wizard and the pages share nothing, so each has an invariant of its *)
(* own.  The wizard's says, while no wallet was switched under a running   *)
(* step, whose mint its handlers work on: they are of the connected wallet *)
(* and of different steps, each shown as running; until the coin is        *)
(* initialized there is only the one that does it; and the keypair in      *)
(* memory, that of the run, is the only mint ever sent out and not         *)
(* forgotten.  The pages' says that, as long as no mint was named under a  *)
(* running handler, everything that is read, held or at work is of the     *)
(* mint named.                                                             *)
(***************************************************************************)
EXTENDS Console, FiniteSetTheorems, TLAPS

-----------------------------------------------------------------------------
(* The wizard.                                                             *)

Sas       == {"none", "given"} \cup Wallets
RunType   == [mint: Mints \cup {NoMint}, policy: {"off", "existing", "create"},
              sas: Sas, policyDone: BOOLEAN, steps: [Steps -> Statuses]]
ChainType == [made: BOOLEAN, backed: BOOLEAN, policy: {"absent", "none", "given"} \cup Wallets]
TaskType  == [fn: {"none", "createCoin", "savePolicy", "enable"}, step: Steps \cup {"none"},
              pc: {"none", "asking", "sending", "waiting"}, mint: Mints \cup {NoMint},
              sas: Sas, wallet: Wallets \cup {"none"}]
TxType    == [do: Steps \cup {"attest"}, mint: Mints \cup {NoMint}, sas: Sas, by: Wallets]
CardType  == [status: {"todo", "sending", "waiting", "done", "failed"},
              by: {"none"} \cup Wallets, under: {"none"} \cup Wallets]

Types ==
  /\ chain \in [Mints -> ChainType]
  /\ credentials \subseteq Wallets /\ attested \subseteq Wallets
  /\ flights \subseteq TxType
  /\ wallet \in Wallets
  /\ progress \in [Wallets -> RunType]
  /\ keypair \in Mints \cup {NoMint} /\ generated \in 0 .. MaxMints
  /\ task \in [Slots -> TaskType]
  /\ \A h \in Slots : /\ Alive(h) <=> task[h].pc # "none"
                      /\ Alive(h) => task[h].step \in Steps /\ task[h].wallet \in Wallets
  /\ card \in CardType /\ (card.status # "todo" => card.by \in Wallets /\ card.under \in Wallets)
  /\ lost \subseteq Mints /\ crossed \in BOOLEAN

\* A mint is backed after it is made.
BackedAreMade == \A m \in Mints : chain[m].backed => chain[m].made

\* The mints ever sent out are the one in memory or forgotten; the one in
\* memory is the run's.
OneMint ==
  /\ \A m \in Mints : chain[m].made => m \in lost \cup {keypair}
  /\ \A tx \in flights : tx.do = "initialize" => tx.mint # NoMint /\ tx.mint \in lost \cup {keypair}
  /\ keypair # NoMint => run.mint = keypair

\* Of a run whose coin is not initialized nothing that comes after was tried.
InOrder ==
  \A w \in Wallets : progress[w].steps["initialize"] # "done" =>
    \A s \in Steps \ {"initialize"} : progress[w].steps[s] = "todo"

\* The handlers under way are those of the connected wallet: they work on its
\* mint, at different steps, each of them shown as running.
OwnTasks ==
  /\ \A h \in Slots : Alive(h) =>
       /\ task[h].wallet = wallet /\ task[h].mint = run.mint
       /\ run.steps[task[h].step] = "running"
       /\ task[h].step = "initialize" <=> ~Done("initialize")
  /\ \A g, h \in Slots : Alive(g) /\ Alive(h) /\ task[g].step = task[h].step => g = h

Uncrossed == OneMint /\ InOrder /\ OwnTasks

WizardInv ==
  /\ Types /\ BackedAreMade
  /\ ~crossed => Uncrossed
  /\ DoneIsOnChain

-----------------------------------------------------------------------------
(* The wizard: what its helpers do.                                        *)

\* Writing a run changes that of the connected wallet only.
LEMMA SetProgressIs ==
  ASSUME progress \in [Wallets -> RunType], wallet \in Wallets, NEW r \in RunType, SetProgress(r)
  PROVE  /\ progress' \in [Wallets -> RunType] /\ progress'[wallet] = r
         /\ \A w \in Wallets \ {wallet} : progress'[w] = progress[w]
BY DEF SetProgress

\* Marking a step changes that step only.
LEMMA WithStepIs ==
  ASSUME NEW r \in RunType, NEW step \in Steps, NEW status \in Statuses
  PROVE  /\ WithStep(r, step, status) \in RunType
         /\ WithStep(r, step, status).mint = r.mint /\ WithStep(r, step, status).sas = r.sas
         /\ WithStep(r, step, status).steps[step] = status
         /\ \A s \in Steps \ {step} : WithStep(r, step, status).steps[s] = r.steps[s]
BY DEF WithStep, RunType

\* A run that is fresh has tried nothing.
LEMMA FreshIs ==
  fresh \in RunType /\ fresh.mint = NoMint /\ \A s \in Steps : fresh.steps[s] = "todo"
BY DEF fresh, RunType, Statuses, Sas

\* No handler at work.
LEMMA NoTaskIs == NoTask \in TaskType /\ NoTask.fn = "none" /\ NoTask.pc = "none"
BY DEF NoTask, TaskType, Sas

\* A handler starts in a slot that is free.
LEMMA FreeSlotIs == HasRoom => FreeSlot \in Slots /\ ~Alive(FreeSlot)
BY DEF HasRoom, FreeSlot

\* The card has nothing to show.
LEMMA CardToDoIs == CardToDo \in CardType /\ CardToDo.status = "todo"
BY DEF CardToDo, CardType

\* A restored run shows nothing as running; what was done is done.
LEMMA RestoreIs ==
  ASSUME NEW r \in RunType
  PROVE  /\ restore(r) \in RunType /\ restore(r).mint = r.mint /\ restore(r).sas = r.sas
         /\ \A s \in Steps : restore(r).steps[s] = IF r.steps[s] = "running" THEN "todo" ELSE r.steps[s]
BY DEF restore, RunType, Statuses

\* The invariant of the initial state.
LEMMA WizardInit == Init => WizardInv
<1>. SUFFICES ASSUME Init PROVE WizardInv
  OBVIOUS
<1>0. /\ chain = [m \in Mints |-> [made |-> FALSE, backed |-> FALSE, policy |-> "absent"]]
      /\ credentials = {} /\ attested = {} /\ flights = {} /\ wallet \in Wallets
      /\ progress = [w \in Wallets |-> fresh]
      /\ keypair = NoMint /\ generated = 0 /\ task = [h \in Slots |-> NoTask] /\ card = CardToDo
      /\ lost = {} /\ crossed = FALSE
  BY DEF Init
<1>1. task \in [Slots -> TaskType] /\ \A h \in Slots : ~Alive(h) /\ task[h].pc = "none"
  BY <1>0, NoTaskIs DEF Alive
<1>2. card \in CardType /\ card.status = "todo"
  BY <1>0, CardToDoIs
<1>3. progress \in [Wallets -> RunType]
  BY <1>0, FreshIs
<1>4. chain \in [Mints -> ChainType]
  BY <1>0 DEF ChainType
<1>5. generated \in 0 .. MaxMints /\ keypair \in Mints \cup {NoMint}
  BY <1>0, WizardAssumption
<1>6. Types
  BY <1>0, <1>1, <1>2, <1>3, <1>4, <1>5 DEF Types
<1>7. BackedAreMade /\ OneMint
  BY <1>0 DEF BackedAreMade, OneMint
<1>8. InOrder /\ OwnTasks
  BY <1>0, <1>1, FreshIs DEF InOrder, OwnTasks, Steps
<1>9. DoneIsOnChain
  BY <1>0, <1>2, FreshIs DEF DoneIsOnChain, Steps
<1>. QED  BY <1>6, <1>7, <1>8, <1>9 DEF WizardInv, Uncrossed

-----------------------------------------------------------------------------
(* The wizard: the handlers.                                               *)

Handled == <<chain_vars, wallet, keypair, generated, lost, crossed>>

\* The first half of a step: it is marked as running for the run's mint.
LEMMA AskKeeps ==
  ASSUME WizardInv, NEW fn \in {"createCoin", "savePolicy", "enable"}, NEW step \in Steps,
         Ask(fn, step), UNCHANGED Handled, UNCHANGED card,
         ~crossed => run.steps[step] # "running" /\ (step = "initialize" <=> ~Done("initialize"))
  PROVE  WizardInv'
<1>0. /\ Types /\ BackedAreMade /\ (~crossed => Uncrossed) /\ DoneIsOnChain
      /\ UNCHANGED <<chain, credentials, attested, flights, wallet, keypair, generated, card, lost, crossed>>
      /\ run \in RunType /\ run = progress[wallet] /\ wallet \in Wallets
      /\ progress \in [Wallets -> RunType] /\ task \in [Slots -> TaskType]
  BY DEF WizardInv, Handled, chain_vars, Types, run
<1>. DEFINE r == WithStep(run, step, "running")
            t == Handler(fn, step, run.mint)
<1>1. /\ r \in RunType /\ r.mint = run.mint /\ r.steps[step] = "running"
      /\ \A s \in Steps \ {step} : r.steps[s] = run.steps[s]
  BY <1>0 DEF WithStep, RunType, Statuses
<1>2. SetProgress(r)
  BY DEF Ask
<1>k. PICK k \in Slots : ~Alive(k) /\ task' = [task EXCEPT ![k] = t]
  BY FreeSlotIs DEF Ask
<1>3. /\ t \in TaskType /\ t.fn = fn /\ t.step = step /\ t.pc = "asking"
      /\ t.mint = run.mint /\ t.wallet = wallet
  BY <1>0 DEF Handler, TaskType, RunType
<1>. HIDE DEF r, t
<1>4. /\ progress' \in [Wallets -> RunType] /\ progress'[wallet] = r
      /\ \A w \in Wallets \ {wallet} : progress'[w] = progress[w]
  BY <1>0, <1>1, <1>2, SetProgressIs
<1>5. run' = r
  BY <1>0, <1>4 DEF run
<1>6. /\ task' \in [Slots -> TaskType] /\ task'[k] = t /\ Alive(k)'
      /\ \A h \in Slots \ {k} : task'[h] = task[h] /\ (Alive(h)' <=> Alive(h))
  BY <1>0, <1>3, <1>k DEF Alive
<1>7. Types'
  BY <1>0, <1>3, <1>4, <1>6 DEF Types
<1>8. BackedAreMade'
  BY <1>0 DEF BackedAreMade
<1>9. ASSUME ~crossed PROVE Uncrossed'
  <2>0. OneMint /\ InOrder /\ OwnTasks
    BY <1>0, <1>9 DEF Uncrossed
  <2>1. OneMint'
    BY <1>0, <1>1, <1>5, <2>0 DEF OneMint
  <2>2. InOrder'
    BY <1>0, <1>1, <1>4, <1>9, <2>0 DEF InOrder, Done, Steps
  <2>3. ASSUME NEW h \in Slots, Alive(h)'
        PROVE  /\ task'[h].wallet = wallet' /\ task'[h].mint = run'.mint
               /\ run'.steps[task'[h].step] = "running"
               /\ task'[h].step = "initialize" <=> ~Done("initialize")'
               /\ h # k => task'[h].step # task'[k].step
    <3>1. Done("initialize")' <=> Done("initialize")
      BY <1>0, <1>1, <1>5, <1>9 DEF Done, Steps
    <3>2. CASE h = k
      BY <1>0, <1>1, <1>3, <1>5, <1>6, <1>9, <3>1, <3>2
    <3>3. CASE h # k
      <4>1. /\ task[h].wallet = wallet /\ task[h].mint = run.mint /\ run.steps[task[h].step] = "running"
            /\ task[h].step = "initialize" <=> ~Done("initialize")
            /\ task[h].step \in Steps
        BY <1>0, <1>6, <2>0, <2>3, <3>3 DEF OwnTasks, Types
      <4>2. task[h].step # step
        BY <1>9, <4>1
      <4>. QED  BY <1>0, <1>1, <1>3, <1>5, <1>6, <3>1, <3>3, <4>1, <4>2
    <3>. QED  BY <3>2, <3>3
  <2>4. \A g, h \in Slots : (Alive(g) /\ Alive(h) /\ task[g].step = task[h].step)' => g = h
    BY <1>6, <2>0, <2>3 DEF OwnTasks
  <2>5. OwnTasks'
    BY <2>3, <2>4 DEF OwnTasks
  <2>. QED  BY <2>1, <2>2, <2>5 DEF Uncrossed
<1>10. DoneIsOnChain'
  BY <1>0, <1>1, <1>4 DEF DoneIsOnChain, Steps
<1>. QED  BY <1>0, <1>7, <1>8, <1>9, <1>10 DEF WizardInv

\* Edits of the form touch neither the mint nor the steps.
LEMMA EditKeeps ==
  ASSUME WizardInv, NEW r \in RunType, r.mint = run.mint, r.steps = run.steps,
         SetProgress(r), UNCHANGED Handled, UNCHANGED task, UNCHANGED card \/ CardGoes
  PROVE  WizardInv'
<1>0. /\ Types /\ BackedAreMade /\ (~crossed => Uncrossed) /\ DoneIsOnChain
      /\ UNCHANGED <<chain, credentials, attested, flights, wallet, keypair, generated, task, lost, crossed>>
      /\ run = progress[wallet] /\ wallet \in Wallets
      /\ progress \in [Wallets -> RunType]
  BY DEF WizardInv, Handled, chain_vars, Types, run
<1>1. /\ progress' \in [Wallets -> RunType] /\ progress'[wallet] = r
      /\ \A w \in Wallets \ {wallet} : progress'[w] = progress[w]
  BY <1>0, SetProgressIs
<1>2. run' = r
  BY <1>0, <1>1 DEF run
<1>3. /\ card' \in CardType /\ (card'.status # "todo" => card'.by \in Wallets /\ card'.under \in Wallets)
      /\ card'.status = "done" => card'.under \in attested
  BY <1>0, CardToDoIs DEF CardGoes, Types, DoneIsOnChain
<1>4. Types'
  BY <1>0, <1>1, <1>3 DEF Types, Alive
<1>5. BackedAreMade'
  BY <1>0 DEF BackedAreMade
<1>6. ~crossed' => Uncrossed'
  BY <1>0, <1>1, <1>2 DEF Uncrossed, OneMint, InOrder, OwnTasks, Done, Alive
<1>7. DoneIsOnChain'
  BY <1>0, <1>1, <1>3 DEF DoneIsOnChain
<1>. QED  BY <1>4, <1>5, <1>6, <1>7 DEF WizardInv

\* The chain has what the step makes: it is done, and the coin's first step
\* goes on to its second.
LEMMA StepDoneKeeps ==
  ASSUME WizardInv, NEW k \in Slots, Alive(k), landed(task[k]), StepDone(k),
         UNCHANGED Handled, UNCHANGED card
  PROVE  WizardInv'
<1>. DEFINE t == task[k]
<1>0. /\ Types /\ BackedAreMade /\ (~crossed => Uncrossed) /\ DoneIsOnChain
      /\ UNCHANGED <<chain, credentials, attested, flights, wallet, keypair, generated, card, lost, crossed>>
      /\ run \in RunType /\ run = progress[wallet] /\ wallet \in Wallets
      /\ progress \in [Wallets -> RunType] /\ task \in [Slots -> TaskType]
      /\ t \in TaskType /\ t.step \in Steps /\ t.wallet \in Wallets /\ t.fn # "none"
  BY DEF WizardInv, Handled, chain_vars, Types, run, Alive
<1>. DEFINE d == WithStep(run, t.step, "done")
<1>1. /\ d \in RunType /\ d.mint = run.mint /\ d.steps[t.step] = "done"
      /\ \A s \in Steps \ {t.step} : d.steps[s] = run.steps[s]
  <2>. HIDE DEF t
  <2>. QED  BY <1>0 DEF WithStep, RunType, Statuses
<1>2. PICK r \in RunType, n \in TaskType :
         /\ SetProgress(r) /\ r.mint = run.mint /\ r.steps[t.step] = "done" /\ Goes(k, n)
         /\ \/ /\ t.step = "initialize" /\ r.steps["setup"] = "running"
               /\ \A s \in Steps \ {"initialize", "setup"} : r.steps[s] = run.steps[s]
               /\ n.fn = t.fn /\ n.pc = "asking" /\ n.step = "setup" /\ n.mint = t.mint /\ n.wallet = t.wallet
            \/ /\ t.step # "initialize" /\ n.fn = "none" /\ n.pc = "none"
               /\ \A s \in Steps \ {t.step} : r.steps[s] = run.steps[s]
  <2>1. CASE t.step = "initialize"
    <3>. DEFINE e == WithStep(d, "setup", "running")
                n == [t EXCEPT !.step = "setup", !.pc = "asking"]
    <3>1. /\ e \in RunType /\ e.mint = d.mint /\ e.steps["setup"] = "running"
          /\ \A s \in Steps \ {"setup"} : e.steps[s] = d.steps[s]
      <4>. HIDE DEF d
      <4>. QED  BY <1>1, WithStepIs DEF Statuses, Steps
    <3>2. SetProgress(e) /\ Goes(k, n)
      BY <2>1 DEF StepDone
    <3>3. /\ n \in TaskType /\ n.fn = t.fn /\ n.pc = "asking" /\ n.step = "setup" /\ n.mint = t.mint
          /\ n.wallet = t.wallet
      BY <1>0 DEF TaskType, Steps
    <3>. HIDE DEF e, d, t, n
    <3>. QED  BY <1>1, <2>1, <3>1, <3>2, <3>3 DEF Steps
  <2>2. CASE t.step = "credential"
    <3>. DEFINE e == [d EXCEPT !.sas = t.wallet, !.policyDone = TRUE]
    <3>1. SetProgress(e) /\ Goes(k, NoTask)
      BY <2>2 DEF StepDone
    <3>2. e \in RunType /\ e.mint = d.mint /\ e.steps = d.steps
      <4>. HIDE DEF d
      <4>. QED  BY <1>0, <1>1 DEF RunType, Sas
    <3>. HIDE DEF e, d, t
    <3>. QED  BY <1>1, <2>2, <3>1, <3>2, NoTaskIs
  <2>3. CASE t.step \notin {"initialize", "credential"}
    <3>1. SetProgress(d) /\ Goes(k, NoTask)
      BY <2>3 DEF StepDone
    <3>. HIDE DEF d, t
    <3>. QED  BY <1>1, <2>3, <3>1, NoTaskIs
  <2>. QED  BY <2>1, <2>2, <2>3
<1>3. /\ progress' \in [Wallets -> RunType] /\ progress'[wallet] = r
      /\ \A w \in Wallets \ {wallet} : progress'[w] = progress[w]
  BY <1>0, <1>2, SetProgressIs
<1>4. run' = r
  BY <1>0, <1>3 DEF run
<1>5. /\ task' \in [Slots -> TaskType] /\ task'[k] = n /\ (Alive(k)' <=> n.fn # "none")
      /\ \A h \in Slots \ {k} : task'[h] = task[h] /\ (Alive(h)' <=> Alive(h))
  BY <1>0, <1>2 DEF Goes, Alive
<1>6. Types'
  <2>1. Alive(k)' => t.step = "initialize" /\ task'[k].pc = "asking" /\ task'[k].step = "setup"
                       /\ task'[k].wallet = t.wallet
    BY <1>2, <1>5
  <2>2. ~Alive(k)' => task'[k].pc = "none"
    BY <1>0, <1>2, <1>5
  <2>. HIDE DEF t
  <2>. QED  BY <1>0, <1>3, <1>5, <2>1, <2>2 DEF Types, Steps
<1>7. BackedAreMade'
  BY <1>0 DEF BackedAreMade
<1>8. ASSUME ~crossed
      PROVE  /\ Uncrossed /\ t.wallet = wallet /\ t.mint = run.mint /\ run.steps[t.step] = "running"
             /\ t.step = "initialize" <=> run.steps["initialize"] # "done"
             /\ \A h \in Slots \ {k} : Alive(h) =>
                  /\ task[h].wallet = wallet /\ task[h].mint = run.mint
                  /\ run.steps[task[h].step] = "running" /\ task[h].step \in Steps \ {t.step}
                  /\ task[h].step = "initialize" <=> run.steps["initialize"] # "done"
  BY <1>0, <1>8 DEF Uncrossed, OwnTasks, Done, Types
<1>. HIDE DEF t
<1>9. ASSUME ~crossed PROVE Uncrossed'
  <2>0. OneMint /\ InOrder /\ OwnTasks
    BY <1>8, <1>9 DEF Uncrossed
  <2>1. OneMint'
    BY <1>0, <1>2, <1>4, <2>0 DEF OneMint
  <2>2. InOrder'
    <3>1. r.steps["initialize"] # "done" => \A s \in Steps \ {"initialize"} : r.steps[s] = "todo"
      BY <1>0, <1>2, <1>8, <1>9, <2>0 DEF InOrder, Steps
    <3>. QED  BY <1>3, <2>0, <3>1 DEF InOrder
  <2>3. Done("initialize")'
    BY <1>2, <1>4, <1>8, <1>9 DEF Done, Steps
  <2>4. ASSUME NEW h \in Slots, Alive(h)'
        PROVE  /\ task'[h].wallet = wallet' /\ task'[h].mint = run'.mint
               /\ run'.steps[task'[h].step] = "running"
               /\ task'[h].step # "initialize"
               /\ h # k => ~Alive(k)'
    <3>1. CASE h = k
      BY <1>0, <1>2, <1>4, <1>5, <1>8, <1>9, <2>4, <3>1
    <3>2. CASE h # k
      <4>1. t.step # "initialize"
        BY <1>5, <1>8, <1>9, <2>4, <3>2
      <4>. QED  BY <1>0, <1>2, <1>4, <1>5, <1>8, <1>9, <2>4, <3>2, <4>1
    <3>. QED  BY <3>1, <3>2
  <2>5. \A g, h \in Slots : (Alive(g) /\ Alive(h) /\ task[g].step = task[h].step)' => g = h
    BY <1>5, <2>0, <2>4 DEF OwnTasks
  <2>6. OwnTasks'
    BY <2>3, <2>4, <2>5 DEF OwnTasks
  <2>. QED  BY <2>1, <2>2, <2>6 DEF Uncrossed
<1>10. DoneIsOnChain'
  <2>. SUFFICES ASSUME ~crossed, NEW w \in Wallets
                PROVE  /\ progress'[w].steps["initialize"] = "done" =>
                             progress'[w].mint # NoMint /\ chain[progress'[w].mint].made
                       /\ progress'[w].steps["setup"] = "done" => chain[progress'[w].mint].backed
                       /\ progress'[w].steps["enable"] = "done" => chain[progress'[w].mint].policy # "absent"
                       /\ progress'[w].steps["credential"] = "done" => w \in credentials
    BY <1>0 DEF DoneIsOnChain
  <2>1. CASE w # wallet
    BY <1>0, <1>3, <2>1 DEF DoneIsOnChain
  <2>2. CASE w = wallet
    <3>1. t.mint = run.mint /\ t.wallet = wallet
      BY <1>8
    <3>2. landed(t)
      BY DEF t
    <3>3. CASE t.step = "initialize"
      BY <1>0, <1>2, <1>3, <2>2, <3>1, <3>2, <3>3 DEF DoneIsOnChain, landed, Steps
    <3>4. CASE t.step = "setup"
      BY <1>0, <1>2, <1>3, <2>2, <3>1, <3>2, <3>4 DEF DoneIsOnChain, landed, Steps
    <3>5. CASE t.step = "enable"
      BY <1>0, <1>2, <1>3, <2>2, <3>1, <3>2, <3>5 DEF DoneIsOnChain, landed, Steps
    <3>6. CASE t.step = "credential"
      BY <1>0, <1>2, <1>3, <2>2, <3>1, <3>2, <3>6 DEF DoneIsOnChain, landed, Steps
    <3>. QED  BY <1>0, <3>3, <3>4, <3>5, <3>6 DEF Steps
  <2>. QED  BY <2>1, <2>2
<1>. QED  BY <1>0, <1>6, <1>7, <1>9, <1>10 DEF WizardInv

\* A step that failed is shown so, and its handler is over.
LEMMA StepFailedKeeps ==
  ASSUME WizardInv, NEW k \in Slots, Alive(k), StepFailed(k), UNCHANGED Handled, UNCHANGED card
  PROVE  WizardInv'
<1>. DEFINE step == task[k].step
<1>0. /\ Types /\ BackedAreMade /\ (~crossed => Uncrossed) /\ DoneIsOnChain
      /\ UNCHANGED <<chain, credentials, attested, flights, wallet, keypair, generated, card, lost, crossed>>
      /\ run \in RunType /\ run = progress[wallet] /\ wallet \in Wallets
      /\ progress \in [Wallets -> RunType] /\ task \in [Slots -> TaskType] /\ step \in Steps
  BY DEF WizardInv, Handled, chain_vars, Types, run
<1>. DEFINE r == WithStep(run, step, "failed")
<1>1. SetProgress(r) /\ task' = [task EXCEPT ![k] = NoTask]
  BY DEF StepFailed, Goes
<1>. HIDE DEF step
<1>2. /\ r \in RunType /\ r.mint = run.mint /\ r.steps[step] = "failed"
      /\ \A s \in Steps \ {step} : r.steps[s] = run.steps[s]
  BY <1>0 DEF WithStep, RunType, Statuses
<1>. HIDE DEF r
<1>3. /\ progress' \in [Wallets -> RunType] /\ progress'[wallet] = r
      /\ \A w \in Wallets \ {wallet} : progress'[w] = progress[w]
  BY <1>0, <1>1, <1>2, SetProgressIs
<1>4. run' = r
  BY <1>0, <1>3 DEF run
<1>5. /\ task' \in [Slots -> TaskType] /\ ~Alive(k)' /\ task'[k].pc = "none"
      /\ \A h \in Slots \ {k} : task'[h] = task[h] /\ (Alive(h)' <=> Alive(h))
  BY <1>0, <1>1, NoTaskIs DEF Alive
<1>6. Types'
  BY <1>0, <1>3, <1>5 DEF Types
<1>7. BackedAreMade'
  BY <1>0 DEF BackedAreMade
<1>8. ASSUME ~crossed PROVE Uncrossed'
  <2>0. OneMint /\ InOrder /\ OwnTasks
    BY <1>0, <1>8 DEF Uncrossed
  <2>1. step = "initialize" <=> ~Done("initialize")
    BY <2>0 DEF OwnTasks, step
  <2>2. Done("initialize")' <=> Done("initialize")
    BY <1>2, <1>4, <2>1 DEF Done, Steps
  <2>3. OneMint'
    BY <1>0, <1>2, <1>4, <2>0 DEF OneMint
  <2>4. InOrder'
    BY <1>0, <1>2, <1>3, <2>0, <2>1 DEF InOrder, Done, Steps
  <2>5. ASSUME NEW h \in Slots, Alive(h)'
        PROVE  /\ h # k /\ task'[h] = task[h] /\ Alive(h)
               /\ task[h].step \in Steps \ {step}
    BY <1>0, <1>5, <2>0, <2>5 DEF OwnTasks, Types, step
  <2>6. OwnTasks'
    BY <1>0, <1>2, <1>4, <2>0, <2>2, <2>5 DEF OwnTasks
  <2>. QED  BY <2>3, <2>4, <2>6 DEF Uncrossed
<1>9. DoneIsOnChain'
  BY <1>0, <1>2, <1>3 DEF DoneIsOnChain, Steps
<1>. QED  BY <1>0, <1>6, <1>7, <1>8, <1>9 DEF WizardInv

\* A handler that goes on with its own step, and leaves the page alone.
LEMMA TaskGoesOn ==
  ASSUME WizardInv, NEW k \in Slots, Alive(k), NEW n \in TaskType, Goes(k, n),
         n.pc # "none", n.fn = task[k].fn, n.step = task[k].step, n.mint = task[k].mint,
         n.wallet = task[k].wallet,
         flights' \subseteq TxType,
         \A tx \in flights' : tx.do = "initialize" => tx \in flights,
         UNCHANGED <<chain, credentials, attested, wallet, progress, keypair, generated, card, lost, crossed>>
  PROVE  WizardInv'
<1>0. /\ Types /\ BackedAreMade /\ (~crossed => Uncrossed) /\ DoneIsOnChain
      /\ task \in [Slots -> TaskType] /\ run' = run
  BY DEF WizardInv, Types, run
<1>1. /\ task' \in [Slots -> TaskType] /\ task'[k] = n
      /\ \A h \in Slots : /\ Alive(h)' <=> Alive(h)
                          /\ task'[h].step = task[h].step /\ task'[h].mint = task[h].mint
                          /\ task'[h].wallet = task[h].wallet
                          /\ h # k => task'[h] = task[h]
  BY <1>0 DEF Goes, Alive
<1>2. Types'
  BY <1>0, <1>1 DEF Types
<1>3. BackedAreMade'
  BY <1>0 DEF BackedAreMade
<1>4. ASSUME ~crossed PROVE Uncrossed'
  <2>0. OneMint /\ InOrder /\ OwnTasks
    BY <1>0, <1>4 DEF Uncrossed
  <2>1. OneMint'
    BY <1>0, <2>0 DEF OneMint
  <2>2. InOrder'
    BY <2>0 DEF InOrder
  <2>3. Done("initialize")' <=> Done("initialize")
    BY <1>0 DEF Done
  <2>4. OwnTasks'
    BY <1>0, <1>1, <2>0, <2>3 DEF OwnTasks
  <2>. QED  BY <2>1, <2>2, <2>4 DEF Uncrossed
<1>5. DoneIsOnChain'
  BY <1>0 DEF DoneIsOnChain
<1>. QED  BY <1>2, <1>3, <1>4, <1>5 DEF WizardInv

\* The buttons of the wizard, up to their first await.
LEMMA ButtonsKeep ==
  WizardInv /\ (createCoin \/ savePolicy \/ changePolicy \/ enable \/ \E mode \in Modes : setPolicy(mode))
    => WizardInv'
<1>. SUFFICES ASSUME WizardInv,
                     createCoin \/ savePolicy \/ changePolicy \/ enable \/ \E mode \in Modes : setPolicy(mode)
              PROVE  WizardInv'
  OBVIOUS
<1>0. /\ run \in RunType /\ wallet \in Wallets /\ run = progress[wallet]
      /\ ~busy => \A s \in Steps : run.steps[s] # "running"
      /\ ~crossed => (~Done("initialize") => \A s \in Steps \ {"initialize"} : run.steps[s] = "todo")
  BY DEF WizardInv, Types, run, busy, Uncrossed, InOrder, Done
<1>1. CASE createCoin
  <2>. DEFINE step == IF Done("initialize") THEN "setup" ELSE "initialize"
  <2>1. Ask("createCoin", step) /\ CoinOffered /\ UNCHANGED Handled /\ UNCHANGED card
    BY <1>1 DEF createCoin, Handled
  <2>2. step \in Steps /\ (step = "initialize" <=> ~Done("initialize"))
    BY DEF Steps
  <2>3. ~crossed => run.steps[step] # "running"
    BY <1>0, <2>1 DEF CoinOffered, Failed, Done, Steps
  <2>. HIDE DEF step
  <2>. QED  BY <2>1, <2>2, <2>3, AskKeeps
<1>2. CASE savePolicy
  <2>1. UNCHANGED Handled
    BY <1>2 DEF savePolicy, Handled
  <2>2. CASE run.policy = "create"
    <3>1. Ask("savePolicy", "credential") /\ UNCHANGED card /\ (~policyLocked \/ Failed("credential"))
      BY <1>2, <2>2 DEF savePolicy
    <3>2. ~crossed => run.steps["credential"] # "running" /\ Done("initialize")
      BY <1>0, <3>1 DEF policyLocked, coinDone, Failed, Done, Steps
    <3>. QED  BY <2>1, <3>1, <3>2, AskKeeps DEF Steps
  <2>3. CASE run.policy # "create"
    <3>. DEFINE r == [run EXCEPT !.sas = SasOf(run.policy), !.policyDone = TRUE]
    <3>1. SetProgress(r) /\ task' = task /\ CardGoes
      BY <1>2, <2>3 DEF savePolicy
    <3>2. r \in RunType /\ r.mint = run.mint /\ r.steps = run.steps
      BY <1>0 DEF RunType, SasOf, Sas
    <3>. HIDE DEF r
    <3>. QED  BY <2>1, <3>1, <3>2, EditKeeps
  <2>. QED  BY <2>2, <2>3
<1>3. CASE changePolicy
  <2>. DEFINE r == [run EXCEPT !.policyDone = FALSE]
  <2>1. SetProgress(r) /\ task' = task /\ UNCHANGED Handled /\ UNCHANGED card
    BY <1>3 DEF changePolicy, Handled
  <2>2. r \in RunType /\ r.mint = run.mint /\ r.steps = run.steps
    BY <1>0 DEF RunType
  <2>. HIDE DEF r
  <2>. QED  BY <2>1, <2>2, EditKeeps
<1>4. CASE enable
  <2>1. /\ UNCHANGED Handled /\ UNCHANGED card /\ Ask("enable", "enable")
        /\ Failed("enable") \/ (coinDone /\ ~busy)
    BY <1>4 DEF enable, Handled
  <2>2. ~crossed => run.steps["enable"] # "running" /\ Done("initialize")
    BY <1>0, <2>1 DEF coinDone, Failed, Done, Steps
  <2>. QED  BY <2>1, <2>2, AskKeeps DEF Steps
<1>5. CASE \E mode \in Modes : setPolicy(mode)
  <2>1. PICK mode \in Modes : setPolicy(mode)
    BY <1>5
  <2>. DEFINE r == [run EXCEPT !.policy = mode]
  <2>2. SetProgress(r) /\ task' = task /\ UNCHANGED Handled /\ UNCHANGED card
    BY <2>1 DEF setPolicy, Handled
  <2>3. r \in RunType /\ r.mint = run.mint /\ r.steps = run.steps
    BY <1>0, WizardAssumption DEF RunType
  <2>. HIDE DEF r
  <2>. QED  BY <2>2, <2>3, EditKeeps
<1>. QED  BY <1>1, <1>2, <1>3, <1>4, <1>5

\* Starting over forgets the keypair with the run.
LEMMA StartOverKeeps == WizardInv /\ startOver => WizardInv'
<1>. SUFFICES ASSUME WizardInv, startOver PROVE WizardInv'
  OBVIOUS
<1>0. /\ Types /\ BackedAreMade /\ (~crossed => Uncrossed) /\ DoneIsOnChain
      /\ UNCHANGED <<chain, credentials, attested, flights, wallet, generated, task, crossed>>
      /\ keypair' = NoMint /\ lost' = lost \cup ({keypair} \ {NoMint}) /\ card' = CardToDo
      /\ run = progress[wallet] /\ wallet \in Wallets /\ progress \in [Wallets -> RunType]
      /\ ~busy /\ SetProgress(fresh)
  BY DEF WizardInv, Types, startOver, chain_vars, run, CardGoes
<1>1. /\ progress' \in [Wallets -> RunType] /\ progress'[wallet] = fresh
      /\ \A w \in Wallets \ {wallet} : progress'[w] = progress[w]
  BY <1>0, SetProgressIs, FreshIs
<1>2. \A h \in Slots : Alive(h)' <=> Alive(h)
  BY <1>0 DEF Alive
<1>3. Types'
  BY <1>0, <1>1, <1>2, CardToDoIs DEF Types
<1>4. BackedAreMade'
  BY <1>0 DEF BackedAreMade
<1>5. ASSUME ~crossed PROVE Uncrossed'
  <2>0. OneMint /\ InOrder /\ OwnTasks
    BY <1>0, <1>5 DEF Uncrossed
  <2>1. OneMint'
    BY <1>0, <2>0 DEF OneMint, Mints, NoMint, Types
  <2>2. InOrder'
    BY <1>0, <1>1, <2>0, FreshIs DEF InOrder, Steps
  <2>3. \A h \in Slots : ~Alive(h)'
    BY <1>0, <1>2, <2>0 DEF OwnTasks, busy, Types
  <2>4. OwnTasks'
    BY <2>3 DEF OwnTasks
  <2>. QED  BY <2>1, <2>2, <2>4 DEF Uncrossed
<1>6. DoneIsOnChain'
  BY <1>0, <1>1, FreshIs, CardToDoIs DEF DoneIsOnChain, Steps
<1>. QED  BY <1>0, <1>3, <1>4, <1>5, <1>6 DEF WizardInv

\* The chain answers a step: it is done, it fails, or it is to be sent.
LEMMA AnswersKeep ==
  \A k \in Slots : WizardInv /\ (Answer(k) \/ Confirmed(k) \/ Refused(k) \/ TaskFails(k)) => WizardInv'
<1>. SUFFICES ASSUME NEW k \in Slots, WizardInv, Answer(k) \/ Confirmed(k) \/ Refused(k) \/ TaskFails(k)
              PROVE  WizardInv'
  OBVIOUS
<1>0. UNCHANGED Handled /\ UNCHANGED card /\ Alive(k)
  BY DEF Answer, Confirmed, Refused, TaskFails, Handled, WizardInv, Types
<1>1. CASE StepFailed(k)
  BY <1>0, <1>1, StepFailedKeeps
<1>2. CASE landed(task[k]) /\ StepDone(k)
  BY <1>0, <1>2, StepDoneKeeps
<1>3. CASE Goes(k, [task[k] EXCEPT !.pc = "sending"]) /\ UNCHANGED progress
  <2>. DEFINE n == [task[k] EXCEPT !.pc = "sending"]
  <2>1. /\ n \in TaskType /\ n.pc = "sending" /\ n.fn = task[k].fn /\ n.step = task[k].step
        /\ n.mint = task[k].mint /\ n.wallet = task[k].wallet
    BY DEF WizardInv, Types, TaskType
  <2>2. /\ UNCHANGED <<chain, credentials, attested, wallet, progress, keypair, generated, card, lost, crossed>>
        /\ flights' = flights /\ flights \subseteq TxType
    BY <1>0, <1>3 DEF Handled, chain_vars, WizardInv, Types
  <2>. HIDE DEF n
  <2>3. Goes(k, n)
    BY <1>3 DEF n
  <2>. QED  BY <1>0, <2>1, <2>2, <2>3, TaskGoesOn
<1>. QED  BY <1>1, <1>2, <1>3 DEF Answer, Confirmed, Refused, TaskFails

\* The address of the mint is saved before the transaction goes out; a new
\* keypair is made only when the page has none.
LEMMA SendInitializeKeeps == \A k \in Slots : WizardInv /\ SendInitialize(k) => WizardInv'
<1>. SUFFICES ASSUME NEW k \in Slots, WizardInv, SendInitialize(k) PROVE WizardInv'
  OBVIOUS
<1>. DEFINE t     == task[k]
            reuse == t.mint # NoMint /\ keypair = t.mint
            m     == IF reuse THEN t.mint ELSE generated + 1
            r     == IF reuse THEN run ELSE [run EXCEPT !.mint = m]
            tx    == Tx("initialize", m, "none", t.wallet)
            n     == [t EXCEPT !.pc = "waiting", !.mint = m]
<1>0. /\ Types /\ BackedAreMade /\ (~crossed => Uncrossed) /\ DoneIsOnChain
      /\ run \in RunType /\ run = progress[wallet] /\ wallet \in Wallets
      /\ progress \in [Wallets -> RunType] /\ task \in [Slots -> TaskType]
      /\ t \in TaskType /\ Alive(k) /\ t.wallet \in Wallets /\ t.fn # "none"
  BY DEF WizardInv, Types, run, SendInitialize, Alive
<1>1. /\ t.pc = "sending" /\ t.step = "initialize"
      /\ m \in Mints /\ keypair' = m /\ generated' = (IF reuse THEN generated ELSE m)
      /\ flights' = flights \cup {tx} /\ Goes(k, n)
      /\ UNCHANGED <<chain, credentials, attested, wallet, card, lost, crossed>>
  BY DEF SendInitialize, Sent, Tx
<1>2. progress' = [progress EXCEPT ![wallet] = r]
  BY <1>0 DEF SendInitialize, SetProgress
<1>3. generated' \in 0 .. MaxMints
  BY <1>0, <1>1, WizardAssumption DEF Types, Mints
<1>. HIDE DEF reuse
<1>4. r \in RunType /\ r.steps = run.steps /\ (~reuse => r.mint = m) /\ (reuse => r.mint = run.mint)
  BY <1>0, <1>1 DEF RunType
<1>. USE DEF reuse
<1>5. ~crossed => r.mint = m
  BY <1>0, <1>4 DEF Uncrossed, OwnTasks
<1>6. tx \in TxType /\ tx.do = "initialize" /\ tx.mint = m
  BY <1>0, <1>1 DEF Tx, TxType, Steps, Sas
<1>7. n \in TaskType /\ n.fn = t.fn /\ n.step = "initialize" /\ n.pc = "waiting" /\ n.mint = m /\ n.wallet = t.wallet
  BY <1>0, <1>1 DEF TaskType
<1>8. ~crossed => keypair \in {NoMint, m}
  BY <1>0 DEF Uncrossed, OneMint, OwnTasks
<1>. HIDE DEF reuse, m, r, tx, n
<1>9. /\ progress' \in [Wallets -> RunType] /\ progress'[wallet] = r
      /\ \A w \in Wallets \ {wallet} : progress'[w] = progress[w]
  BY <1>0, <1>2, <1>4
<1>10. run' = r
  BY <1>1, <1>9 DEF run
<1>11. /\ task' \in [Slots -> TaskType] /\ task'[k] = n /\ Alive(k)'
       /\ \A h \in Slots \ {k} : task'[h] = task[h] /\ (Alive(h)' <=> Alive(h))
  BY <1>0, <1>1, <1>7 DEF Goes, Alive
<1>. HIDE DEF t
<1>12. Types'
  BY <1>0, <1>1, <1>3, <1>6, <1>7, <1>9, <1>11 DEF Types, Steps
<1>13. BackedAreMade'
  BY <1>0, <1>1 DEF BackedAreMade
<1>14. ASSUME ~crossed
       PROVE  /\ OneMint /\ InOrder /\ run.steps["initialize"] = "running" /\ t.wallet = wallet
              /\ \A h \in Slots \ {k} : ~Alive(h)
  BY <1>0, <1>1, <1>14 DEF Uncrossed, OwnTasks, Done, t
<1>15. ASSUME ~crossed PROVE Uncrossed'
  <2>1. OneMint'
    <3>1. \A i \in Mints : i # NoMint
      BY WizardAssumption DEF Mints, NoMint
    <3>2. \A i \in Mints : chain[i].made => i \in lost \cup {m}
      BY <1>8, <1>14, <1>15, <3>1 DEF OneMint
    <3>3. \A x \in flights' : x.do = "initialize" => x.mint # NoMint /\ x.mint \in lost \cup {m}
      BY <1>1, <1>6, <1>8, <1>14, <1>15, <3>1 DEF OneMint
    <3>. QED  BY <1>1, <1>5, <1>10, <1>15, <3>2, <3>3 DEF OneMint
  <2>2. InOrder'
    BY <1>0, <1>4, <1>9, <1>14, <1>15 DEF InOrder
  <2>3. OwnTasks'
    BY <1>1, <1>4, <1>5, <1>7, <1>10, <1>11, <1>14, <1>15 DEF OwnTasks, Done
  <2>. QED  BY <2>1, <2>2, <2>3 DEF Uncrossed
<1>16. DoneIsOnChain'
  <2>. SUFFICES ASSUME ~crossed PROVE DoneIsOnChain'
    BY <1>0, <1>1 DEF DoneIsOnChain
  <2>1. \A s \in Steps : run.steps[s] # "done"
    BY <1>0, <1>14 DEF InOrder, Steps
  <2>. QED  BY <1>0, <1>1, <1>4, <1>9, <2>1 DEF DoneIsOnChain, Steps
<1>. QED  BY <1>1, <1>12, <1>13, <1>15, <1>16 DEF WizardInv

\* The transactions of the other steps.
LEMMA SendStepKeeps == \A k \in Slots : WizardInv /\ SendStep(k) => WizardInv'
<1>. SUFFICES ASSUME NEW k \in Slots, WizardInv, SendStep(k) PROVE WizardInv'
  OBVIOUS
<1>. DEFINE t  == task[k]
            tx == Tx(t.step, t.mint, t.sas, t.wallet)
            n  == [t EXCEPT !.pc = "waiting", !.mint = t.mint]
<1>1. t \in TaskType /\ t.step \in Steps /\ t.wallet \in Wallets /\ Alive(k) /\ flights \subseteq TxType
  BY DEF WizardInv, Types, SendStep
<1>2. /\ t.step # "initialize" /\ flights' = flights \cup {tx} /\ Goes(k, n)
      /\ UNCHANGED <<chain, credentials, attested, wallet, progress, keypair, generated, card, lost, crossed>>
  BY DEF SendStep, Sent, Tx
<1>3. tx \in TxType /\ tx.do # "initialize"
  BY <1>1, <1>2 DEF Tx, TxType, TaskType
<1>4. /\ n \in TaskType /\ n.pc = "waiting" /\ n.fn = t.fn /\ n.step = t.step /\ n.mint = t.mint
      /\ n.wallet = t.wallet
  BY <1>1 DEF TaskType
<1>. HIDE DEF tx, n
<1>. QED  BY <1>1, <1>2, <1>3, <1>4, TaskGoesOn

-----------------------------------------------------------------------------
(* The wizard: the network, the page and the attest card.                  *)

\* A transaction that lands only adds to the chain, and a mint is made by its
\* own initialize.
LEMMA EffectGrows ==
  ASSUME Types, BackedAreMade, NEW tx \in flights, Effect(tx)
  PROVE  /\ chain' \in [Mints -> ChainType]
         /\ credentials' \subseteq Wallets /\ attested' \subseteq Wallets
         /\ credentials \subseteq credentials' /\ attested \subseteq attested'
         /\ \A m \in Mints :
              /\ chain[m].made => chain'[m].made
              /\ chain'[m].made => chain[m].made \/ (tx.do = "initialize" /\ m = tx.mint)
              /\ chain[m].backed => chain'[m].backed
              /\ chain'[m].backed => chain'[m].made
              /\ chain[m].policy # "absent" => chain'[m].policy # "absent"
<1>0. /\ tx \in TxType /\ chain \in [Mints -> ChainType]
      /\ credentials \subseteq Wallets /\ attested \subseteq Wallets
      /\ \A m \in Mints : chain[m].backed => chain[m].made
  BY DEF Types, BackedAreMade
<1>1. CASE tx.do = "initialize"
  <2>1. /\ chain' = [chain EXCEPT ![tx.mint].made = TRUE]
        /\ UNCHANGED <<credentials, attested>>
    BY <1>1 DEF Effect
  <2>. QED  BY <1>0, <1>1, <2>1 DEF ChainType
<1>2. CASE tx.do = "setup"
  <2>1. /\ chain' = [chain EXCEPT ![tx.mint].backed = chain[tx.mint].made]
        /\ UNCHANGED <<credentials, attested>>
    BY <1>2 DEF Effect
  <2>. QED  BY <1>0, <1>2, <2>1 DEF ChainType
<1>3. CASE tx.do = "enable"
  <2>1. /\ chain' = [chain EXCEPT ![tx.mint].policy =
                      IF chain[tx.mint].made /\ @ = "absent" THEN tx.sas ELSE @]
        /\ UNCHANGED <<credentials, attested>>
    BY <1>3 DEF Effect
  <2>2. tx.sas \in Sas
    BY <1>0 DEF TxType
  <2>. QED  BY <1>0, <1>3, <2>1, <2>2 DEF ChainType, Sas
<1>4. CASE tx.do \in {"credential", "attest"}
  <2>1. /\ chain' = chain
        /\ \/ credentials' = credentials \cup {tx.by} /\ attested' = attested
           \/ /\ credentials' = credentials
              /\ attested' = attested \cup ({tx.by} \cap {tx.sas} \cap credentials)
    BY <1>4 DEF Effect
  <2>2. tx.by \in Wallets
    BY <1>0 DEF TxType
  <2>. QED  BY <1>0, <2>1, <2>2
<1>. QED  BY <1>0, <1>1, <1>2, <1>3, <1>4 DEF TxType, Steps

\* A transaction lands, or the network drops it.
LEMMA NetworkKeeps == \A tx \in flights : WizardInv /\ (Land(tx) \/ Drop(tx)) => WizardInv'
<1>. SUFFICES ASSUME NEW tx \in flights, WizardInv, Land(tx) \/ Drop(tx) PROVE WizardInv'
  OBVIOUS
<1>0. /\ Types /\ BackedAreMade /\ (~crossed => Uncrossed) /\ DoneIsOnChain
      /\ UNCHANGED <<wallet, progress, keypair, generated, task, card, lost, crossed>>
      /\ flights' \subseteq flights
  BY DEF WizardInv, Land, Drop, page_vars
<1>1. /\ chain' \in [Mints -> ChainType]
      /\ credentials' \subseteq Wallets /\ attested' \subseteq Wallets
      /\ credentials \subseteq credentials' /\ attested \subseteq attested'
      /\ \A m \in Mints :
           /\ chain[m].made => chain'[m].made
           /\ chain'[m].made => chain[m].made \/ (tx.do = "initialize" /\ m = tx.mint)
           /\ chain[m].backed => chain'[m].backed
           /\ chain'[m].backed => chain'[m].made
           /\ chain[m].policy # "absent" => chain'[m].policy # "absent"
  <2>1. CASE Land(tx)
    BY <1>0, <2>1, EffectGrows DEF Land
  <2>2. CASE Drop(tx)
    BY <1>0, <2>2 DEF Drop, Types, BackedAreMade
  <2>. QED  BY <2>1, <2>2
<1>2. run' = run /\ \A h \in Slots : Alive(h)' <=> Alive(h)
  BY <1>0 DEF run, Alive
<1>3. Types'
  BY <1>0, <1>1, <1>2 DEF Types
<1>4. BackedAreMade'
  BY <1>1 DEF BackedAreMade
<1>5. ~crossed' => Uncrossed'
  BY <1>0, <1>1, <1>2 DEF Uncrossed, OneMint, InOrder, OwnTasks, Done
<1>6. DoneIsOnChain'
  <2>1. ASSUME ~crossed, NEW w \in Wallets
        PROVE  /\ progress[w].steps["initialize"] = "done" =>
                      progress[w].mint # NoMint /\ chain'[progress[w].mint].made
               /\ progress[w].steps["setup"] = "done" => chain'[progress[w].mint].backed
               /\ progress[w].steps["enable"] = "done" => chain'[progress[w].mint].policy # "absent"
               /\ progress[w].steps["credential"] = "done" => w \in credentials'
    <3>1. progress[w].mint \in Mints \cup {NoMint}
      BY <1>0 DEF Types, RunType
    <3>2. progress[w].steps["initialize"] # "done" =>
             progress[w].steps["setup"] = "todo" /\ progress[w].steps["enable"] = "todo"
      BY <1>0, <2>1 DEF Uncrossed, InOrder, Steps
    <3>. QED  BY <1>0, <1>1, <2>1, <3>1, <3>2 DEF DoneIsOnChain
  <2>. QED  BY <1>0, <1>1, <2>1 DEF DoneIsOnChain
<1>. QED  BY <1>3, <1>4, <1>5, <1>6 DEF WizardInv

\* A reload ends the handlers, forgets the keypair and restores the saved run.
LEMMA ReloadKeeps == WizardInv /\ Reload => WizardInv'
<1>. SUFFICES ASSUME WizardInv, Reload PROVE WizardInv'
  OBVIOUS
<1>0. /\ Types /\ BackedAreMade /\ (~crossed => Uncrossed) /\ DoneIsOnChain
      /\ UNCHANGED <<chain, credentials, attested, flights, wallet, generated, crossed>>
      /\ keypair' = NoMint /\ lost' = lost \cup ({keypair} \ {NoMint})
      /\ run = progress[wallet] /\ wallet \in Wallets /\ progress \in [Wallets -> RunType]
      /\ run \in RunType /\ SetProgress(restore(run))
      /\ task' = [h \in Slots |-> NoTask] /\ card' = CardToDo
  BY DEF WizardInv, Types, Reload, Forgotten, chain_vars, run, CardGoes
<1>. DEFINE r == restore(run)
<1>1. /\ r \in RunType /\ r.mint = run.mint
      /\ \A s \in Steps : r.steps[s] = IF run.steps[s] = "running" THEN "todo" ELSE run.steps[s]
  BY <1>0, RestoreIs
<1>. HIDE DEF r
<1>2. /\ progress' \in [Wallets -> RunType] /\ progress'[wallet] = r
      /\ \A w \in Wallets \ {wallet} : progress'[w] = progress[w]
  <2>1. SetProgress(r)
    BY <1>0 DEF r
  <2>. QED  BY <1>0, <1>1, <2>1, SetProgressIs
<1>3. task' \in [Slots -> TaskType] /\ \A h \in Slots : ~Alive(h)' /\ task'[h].pc = "none"
  BY <1>0, NoTaskIs DEF Alive
<1>4. Types'
  BY <1>0, <1>2, <1>3, CardToDoIs DEF Types
<1>5. BackedAreMade'
  BY <1>0 DEF BackedAreMade
<1>6. ASSUME ~crossed PROVE Uncrossed'
  <2>0. OneMint /\ InOrder
    BY <1>0, <1>6 DEF Uncrossed
  <2>1. OneMint'
    BY <1>0, <2>0 DEF OneMint, Mints, NoMint
  <2>2. InOrder'
    BY <1>0, <1>1, <1>2, <2>0 DEF InOrder, Steps
  <2>3. OwnTasks'
    BY <1>3 DEF OwnTasks
  <2>. QED  BY <2>1, <2>2, <2>3 DEF Uncrossed
<1>7. DoneIsOnChain'
  BY <1>0, <1>1, <1>2, CardToDoIs DEF DoneIsOnChain, Steps
<1>. QED  BY <1>0, <1>4, <1>5, <1>6, <1>7 DEF WizardInv

\* A switch of the wallet forgets the keypair and shows the other run; the
\* handlers under way are crossed.
LEMMA SwitchWalletKeeps == \A w \in Wallets : WizardInv /\ SwitchWallet(w) => WizardInv'
<1>. SUFFICES ASSUME NEW w \in Wallets, WizardInv, SwitchWallet(w) PROVE WizardInv'
  OBVIOUS
<1>. DEFINE r == restore(progress[w])
<1>0. /\ Types /\ BackedAreMade /\ (~crossed => Uncrossed) /\ DoneIsOnChain
      /\ UNCHANGED <<chain, credentials, attested, flights, generated, task>>
      /\ wallet' = w /\ progress' = [progress EXCEPT ![w] = r]
      /\ keypair' = NoMint /\ lost' = lost \cup ({keypair} \ {NoMint})
      /\ progress \in [Wallets -> RunType] /\ progress[w] \in RunType
      /\ crossed' = (crossed \/ \E h \in Slots : Alive(h)) /\ crossed \in BOOLEAN
      /\ card' = card \/ card' = CardToDo
  BY DEF WizardInv, Types, SwitchWallet, Forgotten, chain_vars, CardGoes
<1>1. /\ r \in RunType /\ r.mint = progress[w].mint
      /\ \A s \in Steps : r.steps[s] = IF progress[w].steps[s] = "running" THEN "todo" ELSE progress[w].steps[s]
  BY <1>0, RestoreIs
<1>. HIDE DEF r
<1>2. /\ progress' \in [Wallets -> RunType] /\ progress'[w] = r
      /\ \A v \in Wallets \ {w} : progress'[v] = progress[v]
  BY <1>0, <1>1
<1>3. /\ card' \in CardType /\ (card'.status # "todo" => card'.by \in Wallets /\ card'.under \in Wallets)
      /\ card'.status = "done" => card'.under \in attested
  BY <1>0, CardToDoIs DEF Types, DoneIsOnChain
<1>4. \A h \in Slots : Alive(h)' <=> Alive(h)
  BY <1>0 DEF Alive
<1>5. Types'
  BY <1>0, <1>2, <1>3, <1>4 DEF Types
<1>6. BackedAreMade'
  BY <1>0 DEF BackedAreMade
<1>7. ASSUME ~crossed' PROVE Uncrossed'
  <2>0. OneMint /\ InOrder
    BY <1>0, <1>7 DEF Uncrossed
  <2>1. OneMint'
    BY <1>0, <2>0 DEF OneMint, Mints, NoMint
  <2>2. InOrder'
    BY <1>0, <1>1, <1>2, <2>0 DEF InOrder, Steps
  <2>3. \A h \in Slots : ~Alive(h)'
    BY <1>0, <1>4, <1>7
  <2>4. OwnTasks'
    BY <2>3 DEF OwnTasks
  <2>. QED  BY <2>1, <2>2, <2>4 DEF Uncrossed
<1>8. DoneIsOnChain'
  BY <1>0, <1>1, <1>2, <1>3 DEF DoneIsOnChain, Steps
<1>. QED  BY <1>5, <1>6, <1>7, <1>8 DEF WizardInv

\* The attest card is done for a credential under which the chain was seen to
\* attest the holder.
LEMMA CardKeeps == WizardInv /\ (cardAttest \/ cardSend \/ cardAnswer) => WizardInv'
<1>. SUFFICES ASSUME WizardInv, cardAttest \/ cardSend \/ cardAnswer PROVE WizardInv'
  OBVIOUS
<1>0. /\ Types /\ BackedAreMade /\ (~crossed => Uncrossed) /\ DoneIsOnChain
      /\ UNCHANGED <<chain, credentials, attested, wallet, progress, keypair, generated, task, lost, crossed>>
      /\ wallet \in Wallets /\ card \in CardType
      /\ (card.status # "todo" => card.by \in Wallets /\ card.under \in Wallets)
      /\ flights \subseteq TxType
  BY DEF WizardInv, Types, cardAttest, cardSend, cardAnswer, chain_vars
<1>1. /\ card' \in CardType /\ (card'.status # "todo" => card'.by \in Wallets /\ card'.under \in Wallets)
      /\ card'.status = "done" => card'.under \in attested
      /\ \/ flights' = flights
         \/ flights' = flights \cup {AttestTx} /\ card.status = "sending"
  <2>1. CASE cardAttest
    <3>1. /\ run.sas \in Wallets /\ flights' = flights
          /\ card' = [status |-> IF run.sas \in attested THEN "done" ELSE "sending", by |-> wallet, under |-> run.sas]
      BY <2>1 DEF cardAttest, chain_vars
    <3>. QED  BY <1>0, <3>1 DEF CardType
  <2>2. CASE cardSend
    BY <1>0, <2>2 DEF cardSend, CardType
  <2>3. CASE cardAnswer
    <3>1. /\ card.status = "waiting" /\ flights' = flights
          /\ \E status \in {"done", "failed"} :
               card' = [card EXCEPT !.status = status] /\ (status = "done" => card.under \in attested)
      BY <2>3 DEF cardAnswer, chain_vars
    <3>. QED  BY <1>0, <3>1 DEF CardType
  <2>. QED  BY <2>1, <2>2, <2>3
<1>2. card.status = "sending" => AttestTx \in TxType /\ AttestTx.do # "initialize"
  BY <1>0 DEF AttestTx, Tx, TxType, CardType, Sas, Steps
<1>3. run' = run /\ \A h \in Slots : Alive(h)' <=> Alive(h)
  BY <1>0 DEF run, Alive
<1>4. Types'
  BY <1>0, <1>1, <1>2, <1>3 DEF Types
<1>5. BackedAreMade'
  BY <1>0 DEF BackedAreMade
<1>6. ~crossed' => Uncrossed'
  BY <1>0, <1>1, <1>2, <1>3 DEF Uncrossed, OneMint, InOrder, OwnTasks, Done
<1>7. DoneIsOnChain'
  BY <1>0, <1>1 DEF DoneIsOnChain
<1>. QED  BY <1>4, <1>5, <1>6, <1>7 DEF WizardInv

\* Every step of the wizard keeps its invariant.
LEMMA WizardStep == WizardInv /\ [Next]_vars => WizardInv'
<1>. SUFFICES ASSUME WizardInv, [Next]_vars PROVE WizardInv'
  OBVIOUS
<1>1. CASE UNCHANGED vars
  <2>1. run' = run /\ \A h \in Slots : Alive(h)' <=> Alive(h)
    BY <1>1 DEF vars, page_vars, run, Alive
  <2>. QED  BY <1>1, <2>1 DEF vars, chain_vars, page_vars, WizardInv, Types, BackedAreMade, Uncrossed,
                              OneMint, InOrder, OwnTasks, DoneIsOnChain, Done
<1>2. CASE createCoin \/ savePolicy \/ changePolicy \/ enable \/ \E mode \in Modes : setPolicy(mode)
  BY <1>2, ButtonsKeep
<1>3. CASE startOver
  BY <1>3, StartOverKeeps
<1>4. CASE \E h \in Slots : GoesOn(h) \/ TaskFails(h)
  <2>1. PICK h \in Slots : GoesOn(h) \/ TaskFails(h)
    BY <1>4
  <2>. QED  BY <2>1, AnswersKeep, SendInitializeKeeps, SendStepKeeps DEF GoesOn
<1>5. CASE cardAttest \/ cardSend \/ cardAnswer
  BY <1>5, CardKeeps
<1>6. CASE \E tx \in flights : Land(tx) \/ Drop(tx)
  BY <1>6, NetworkKeeps
<1>7. CASE Reload
  BY <1>7, ReloadKeeps
<1>8. CASE \E w \in Wallets : SwitchWallet(w)
  BY <1>8, SwitchWalletKeeps
<1>. QED  BY <1>1, <1>2, <1>3, <1>4, <1>5, <1>6, <1>7, <1>8 DEF Next, HandlerNext

\* Of the mints on chain at most the one in memory is not forgotten.
LEMMA OneMintIsOne == (~crossed => OneMint) => RetryKeepsMint
<1>. SUFFICES ASSUME OneMint PROVE Cardinality({m \in Mints : chain[m].made} \ lost) <= 1
  BY DEF RetryKeepsMint
<1>. DEFINE S == {m \in Mints : chain[m].made} \ lost
<1>1. S \subseteq {keypair}
  BY DEF OneMint
<1>. HIDE DEF S
<1>2. CASE S = {}
  <2>1. Cardinality(S) = 0
    BY <1>2, FS_EmptySet
  <2>. QED  BY <2>1 DEF S
<1>3. CASE S = {keypair}
  <2>1. Cardinality({keypair}) = 1
    BY FS_Singleton
  <2>2. Cardinality(S) = 1
    BY <1>3, <2>1
  <2>. QED  BY <2>2 DEF S
<1>. QED  BY <1>1, <1>2, <1>3

-----------------------------------------------------------------------------
(* The pages.                                                              *)

Keys     == DOMAIN Unit
Abouts   == Rows \cup {Of!Page, "refresh"}
Results  == Abouts \cup {"ok", "lists", "sas", "null", "untracked", "unreachable", "failed",
                         "error", "refused", "minted", "recorded"}
ReadType == [part: (Of!Parts \ {"outcome"}) \cup {"live"}, mint: Keys, about: Abouts]
JobType  == [pc: {"idle", "simulate", "send", "record"}, key: Keys \cup {"none"}, typed: Nat, base: Nat,
             refreshes: Names \cup {"none"}]
RowStates == {"unmounted", "null", "running", "explained", "undecided", "error"}
SaysType == [mint: Keys, result: Results, chain: SUBSET Rows, unknown: SUBSET Rows]

PagesTypes ==
  /\ page \in {"none", "decisions", "reserves", "mint"} /\ named \in Names
  /\ reads \subseteq ReadType
  /\ shown \in [Of!Parts -> SUBSET SaysType]
  /\ row \in [Rows -> RowStates]
  /\ job \in JobType /\ (Of!Busy \/ Of!Has("outcome", "refused") => job.key \in Keys)
  /\ room \in [Keys -> Nat]
  /\ late \in BOOLEAN

\* The refreshes are of the mint card's status; other reads, a keeper's view and
\* rows are there only while a mint is named.
NamesAMint ==
  /\ \A r \in reads : r.about = "refresh" => r.part = "status"
  /\ \/ \E r \in reads : r.part # "status"
     \/ shown["keeper"] # {}
     \/ \E a \in Rows : row[a] # "unmounted"
     => named \in Keys

\* What is read, held or at work is of the mint named, and the amount at work,
\* or refused and still offered, is in its decimals.
OfTheNamed ==
  /\ \A r \in reads : r.mint = named
  /\ \A p \in Of!Parts : \A s \in shown[p] : s.mint = named
  /\ Of!Busy => job.refreshes = named
  /\ Of!Busy \/ Of!Has("outcome", "refused") =>
       job.key = named /\ job.base = job.typed * Unit[job.key]

PagesInv == PagesTypes /\ NamesAMint /\ (~late => OfTheNamed) /\ AmountsAsTyped

-----------------------------------------------------------------------------
(* The pages: what the helpers of the handlers return.                     *)

\* Answers and reads of a mint.
LEMMA SaysIs ==
  ASSUME NEW key \in Keys, NEW result \in Results
  PROVE  Of!Says(key, result) \in SaysType /\ Of!Says(key, result).mint = key
         /\ Of!Says(key, result).result = result
BY DEF Of!Says, SaysType

\* A read is of the mint it is made for.
LEMMA ReadIs ==
  ASSUME NEW key \in Keys, NEW part \in (Of!Parts \ {"outcome"}) \cup {"live"}, NEW about \in Abouts
  PROVE  Of!Read(part, key, about) \in ReadType /\ Of!Read(part, key, about).mint = key
         /\ Of!Read(part, key, about).part = part /\ Of!Read(part, key, about).about = about
BY DEF Of!Read, ReadType

\* An effect reads the mint it is for, when that is one.
LEMMA FirstReadsAre ==
  ASSUME NEW p, NEW key
  PROVE  Of!FirstReads(p, key) \subseteq ReadType /\ \A r \in Of!FirstReads(p, key) :
           r.mint = key /\ key \in Keys /\ r.about # "refresh"
<1>1. ASSUME NEW r \in Of!FirstReads(p, key)
      PROVE  r \in ReadType /\ r.mint = key /\ key \in Keys /\ r.about # "refresh"
  <2>1. key \in Keys
    BY <1>1 DEF Of!FirstReads, Of!Keys, Keys
  <2>2. PICK part \in {"policy", "keeper", "snapshot", "blocked", "status"} : r = Of!Read(part, key, Of!Page)
    <3>1. CASE p = "decisions"
      BY <1>1, <2>1, <3>1 DEF Of!FirstReads, Of!Keys, Keys
    <3>2. CASE p = "reserves"
      BY <1>1, <2>1, <3>2 DEF Of!FirstReads, Of!Keys, Keys
    <3>3. CASE p = "mint"
      BY <1>1, <2>1, <3>3 DEF Of!FirstReads, Of!Keys, Keys
    <3>4. CASE p \notin {"decisions", "reserves", "mint"}
      BY <1>1, <2>1, <3>4 DEF Of!FirstReads, Of!Keys, Keys
    <3>. QED  BY <3>1, <3>2, <3>3, <3>4
  <2>3. part \in (Of!Parts \ {"outcome"}) \cup {"live"} /\ Of!Page \in Abouts /\ Of!Page # "refresh"
    BY DEF Of!Parts, Of!Page, Abouts
  <2>. QED  BY <2>1, <2>2, <2>3, ReadIs
<1>. QED  BY <1>1

\* The checks that rows start are of the mint whose answer made them start.
LEMMA ExplainsIs ==
  ASSUME NEW key \in Keys
  PROVE  Of!Explains(key) \subseteq ReadType
         /\ \A r \in Of!Explains(key) : r.mint = key /\ r.about # "refresh"
BY ConsoleAssumption DEF Of!Explains, Of!Read, ReadType, Abouts

\* Rows after a render.
LEMMA RenderedIs ==
  ASSUME PagesTypes
  PROVE  Of!Rendered \in [Rows -> RowStates]
BY DEF PagesTypes, RowStates, Of!Rendered

\* An answer takes the place of its read, for the same mint.
LEMMA AnswersPut ==
  ASSUME PagesTypes, NEW read \in reads, NEW answer \in SaysType, answer.mint = read.mint,
         NEW next \in SUBSET ReadType, \A r \in next : r.mint = read.mint /\ r.about # "refresh",
         Of!Answers(read, answer, next)
  PROVE  /\ reads' \subseteq ReadType /\ shown' \in [Of!Parts -> SUBSET SaysType]
         /\ shown'["outcome"] = shown["outcome"]
         /\ \A r \in reads' : r \in reads \/ (r.mint = read.mint /\ r.about # "refresh")
         /\ \A p \in Of!Parts : \A s \in shown'[p] : s \in shown[p] \/ s.mint = read.mint
<1>1. /\ read \in ReadType /\ reads \subseteq ReadType /\ shown \in [Of!Parts -> SUBSET SaysType]
      /\ read.part # "outcome"
  BY DEF PagesTypes, ReadType
<1>2. /\ reads' = (reads \ {read}) \cup next
      /\ \/ shown' = [shown EXCEPT ![read.part] = @ \cup {answer}]
         \/ shown' = [shown EXCEPT ![read.part] = {answer}]
  BY DEF Of!Answers
<1>. QED  BY <1>1, <1>2 DEF Of!Parts

-----------------------------------------------------------------------------
(* The pages: their steps.                                                 *)

\* The invariant of the initial state.
LEMMA PagesStart == Of!PagesInit(Routes) => PagesInv
<1>. SUFFICES ASSUME Of!PagesInit(Routes) PROVE PagesInv
  OBVIOUS
<1>1. /\ page \in {"none", "decisions", "reserves", "mint"} /\ named \in Names
      /\ reads = Of!FirstReads(page, named) /\ shown = [p \in Of!Parts |-> {}]
      /\ row = [a \in Rows |-> "unmounted"] /\ job = Of!NoJob
      /\ room \in [Keys -> Nat] /\ minted = {} /\ late = FALSE
  <2>1. (CHOOSE m \in Of!Keys : TRUE) \in Names
    BY ConsoleAssumption DEF Of!Keys
  <2>2. room \in [Keys -> Nat]
    <3>1. CASE page = "mint"
      <4>1. room \in [Keys -> Rooms]
        BY <3>1 DEF Of!PagesInit, Of!Keys, Keys
      <4>. QED  BY <4>1, ConsoleAssumption
    <3>2. CASE page # "mint"
      <4>1. room \in [Keys -> {0}]
        BY <3>2 DEF Of!PagesInit, Of!Keys, Keys
      <4>. QED  BY <4>1
    <3>. QED  BY <3>1, <3>2
  <2>. QED  BY <2>1, <2>2, ConsoleAssumption DEF Of!PagesInit
<1>2. job \in JobType /\ ~Of!Busy /\ ~Of!Has("outcome", "refused")
  BY <1>1 DEF Of!NoJob, Of!Busy, Of!Has, Of!Parts, JobType
<1>3. reads \subseteq ReadType /\ \A r \in reads : r.mint = named /\ named \in Keys /\ r.about # "refresh"
  BY <1>1, FirstReadsAre
<1>4. PagesTypes
  BY <1>1, <1>2, <1>3 DEF PagesTypes, RowStates
<1>5. OfTheNamed
  BY <1>1, <1>2, <1>3 DEF OfTheNamed
<1>6. NamesAMint
  BY <1>1, <1>3 DEF NamesAMint, Of!Parts
<1>. QED  BY <1>1, <1>4, <1>5, <1>6 DEF PagesInv, AmountsAsTyped, Of!AmountsAsTyped

\* Naming a mint drops what was read and shown; what a running handler or
\* refresh goes on with is late.
LEMMA NameKeeps == \A key \in Names : PagesInv /\ Of!Name(key) => PagesInv'
<1>. SUFFICES ASSUME NEW key \in Names, PagesInv, Of!Name(key) PROVE PagesInv'
  OBVIOUS
<1>1. /\ named' = key /\ reads' = Of!Outliving(reads) \cup Of!FirstReads(page, key)
      /\ shown' = [p \in Of!Parts |-> {}] /\ row' = [a \in Rows |-> "unmounted"]
      /\ late' = (late \/ Of!Busy \/ \E r \in reads : r.about = "refresh")
      /\ UNCHANGED <<page, job, room, minted>>
      /\ PagesTypes /\ NamesAMint /\ (~late => OfTheNamed) /\ AmountsAsTyped
  BY DEF Of!Name, PagesInv
<1>2. ~Of!Has("outcome", "refused")'
  BY <1>1 DEF Of!Has, Of!Parts
<1>3. /\ Of!FirstReads(page, key) \subseteq ReadType
      /\ \A r \in Of!FirstReads(page, key) : r.mint = key /\ key \in Keys /\ r.about # "refresh"
  BY FirstReadsAre
<1>4. Of!Outliving(reads) \subseteq reads /\ (~late' => Of!Outliving(reads) = {})
      /\ \A r \in Of!Outliving(reads) : r.about = "refresh" /\ r.part = "status"
  BY <1>1 DEF Of!Outliving, NamesAMint
<1>5. Of!Busy' = Of!Busy /\ (~late' => ~Of!Busy)
  BY <1>1 DEF Of!Busy
<1>6. PagesTypes'
  BY <1>1, <1>2, <1>3, <1>4, <1>5 DEF PagesTypes, RowStates
<1>7. ~late' => OfTheNamed'
  BY <1>1, <1>2, <1>3, <1>4, <1>5 DEF OfTheNamed
<1>8. AmountsAsTyped'
  BY <1>1 DEF AmountsAsTyped, Of!AmountsAsTyped, PagesTypes
<1>9. NamesAMint'
  BY <1>1, <1>3, <1>4 DEF NamesAMint, Of!Parts
<1>. QED  BY <1>6, <1>7, <1>8, <1>9 DEF PagesInv

\* An answer of a read leaves all but the parts and the rows as they are.
LEMMA ReadAnswersKeep == \A read \in reads : PagesInv /\ Of!ReadAnswers(read) => PagesInv'
<1>. SUFFICES ASSUME NEW read \in reads, PagesInv, Of!ReadAnswers(read) PROVE PagesInv'
  OBVIOUS
<1>1. /\ PagesTypes /\ NamesAMint /\ (~late => OfTheNamed) /\ AmountsAsTyped
      /\ UNCHANGED <<page, named, job, room, minted, late>>
      /\ read \in ReadType /\ read.mint \in Keys /\ read.about \in Abouts
  BY DEF PagesInv, PagesTypes, ReadType, Of!ReadAnswers, Of!PolicyAnswers, Of!KeeperAnswers, Of!FactsAnswer,
         Of!LastTxAnswers, Of!LiveAnswers, Of!PartAnswers, Of!StatusAnswers
<1>. DEFINE Puts == \E answer \in SaysType, next \in SUBSET ReadType :
                      /\ answer.mint = read.mint /\ \A r \in next : r.mint = read.mint /\ r.about # "refresh"
                      /\ Of!Answers(read, answer, next)
<1>2. /\ \/ Puts
         \/ shown' = shown /\ reads' = reads \ {read}
      /\ row' \in [Rows -> RowStates]
  <2>0. Of!Explains(read.mint) \subseteq ReadType /\ Of!Page # "refresh" /\ "refresh" \notin Rows
        /\ \A r \in Of!Explains(read.mint) : r.mint = read.mint /\ r.about # "refresh"
    BY <1>1, ExplainsIs, ConsoleAssumption DEF Of!Page
  <2>r. ASSUME row' = row \/ row' = Of!Rendered
        PROVE  row' \in [Rows -> RowStates]
    BY <1>1, <2>r, RenderedIs DEF PagesTypes
  <2>1. CASE Of!PolicyAnswers(read)
    <3>1. PICK result \in {"lists", "sas", "null"} :
             Of!Answers(read, Of!Says(read.mint, result),
                  (IF result = "sas" THEN {Of!Read("credential", read.mint, Of!Page)} ELSE {})
                    \cup Of!Explains(read.mint))
      BY <2>1 DEF Of!PolicyAnswers
    <3>2. Of!Says(read.mint, result) \in SaysType /\ Of!Says(read.mint, result).mint = read.mint
      BY <1>1, SaysIs DEF Results
    <3>3. /\ Of!Read("credential", read.mint, Of!Page) \in ReadType
          /\ Of!Read("credential", read.mint, Of!Page).mint = read.mint
          /\ Of!Read("credential", read.mint, Of!Page).about = Of!Page
      BY <1>1, ReadIs DEF Of!Parts, Abouts
    <3>4. Puts
      BY <2>0, <3>1, <3>2, <3>3
    <3>. QED  BY <2>1, <2>r, <3>4 DEF Of!PolicyAnswers
  <2>2. CASE Of!KeeperAnswers(read)
    <3>1. PICK result \in {"ok", "untracked", "unreachable"}, first \in Rows :
             Of!Answers(read, Of!Says(read.mint, result),
               (IF result = "ok" THEN {Of!Read("facts", read.mint, Of!Page),
                                       Of!Read("lastTx", read.mint, first)} ELSE {})
                 \cup Of!Explains(read.mint))
      BY <2>2 DEF Of!KeeperAnswers
    <3>2. Of!Says(read.mint, result) \in SaysType /\ Of!Says(read.mint, result).mint = read.mint
      BY <1>1, SaysIs DEF Results
    <3>3. /\ Of!Read("facts", read.mint, Of!Page) \in ReadType
          /\ Of!Read("facts", read.mint, Of!Page).mint = read.mint
          /\ Of!Read("facts", read.mint, Of!Page).about = Of!Page
          /\ Of!Read("lastTx", read.mint, first) \in ReadType
          /\ Of!Read("lastTx", read.mint, first).mint = read.mint
          /\ Of!Read("lastTx", read.mint, first).about = first
      BY <1>1, ReadIs DEF Of!Parts, Abouts
    <3>4. Puts
      BY <2>0, <3>1, <3>2, <3>3
    <3>. QED  BY <2>2, <2>r, <3>4 DEF Of!KeeperAnswers
  <2>3. CASE Of!FactsAnswer(read)
    <3>1. CASE \E c, u \in SUBSET Rows : Of!Answers(read, Of!SaysFacts(read.mint, c, u), Of!Explains(read.mint))
      <4>1. PICK c, u \in SUBSET Rows : Of!Answers(read, Of!SaysFacts(read.mint, c, u), Of!Explains(read.mint))
        BY <3>1
      <4>2. Of!SaysFacts(read.mint, c, u) \in SaysType /\ Of!SaysFacts(read.mint, c, u).mint = read.mint
        BY <1>1 DEF Of!SaysFacts, SaysType, Results
      <4>3. Puts
        BY <2>0, <4>1, <4>2
      <4>. QED  BY <2>3, <2>r, <4>3 DEF Of!FactsAnswer
    <3>2. CASE Of!Answers(read, Of!Says(read.mint, "failed"), {})
      <4>1. Of!Says(read.mint, "failed") \in SaysType /\ Of!Says(read.mint, "failed").mint = read.mint
        BY <1>1, SaysIs DEF Results
      <4>2. Puts
        BY <3>2, <4>1
      <4>. QED  BY <2>3, <2>r, <4>2 DEF Of!FactsAnswer
    <3>. QED  BY <2>3, <3>1, <3>2 DEF Of!FactsAnswer
  <2>4. CASE Of!LastTxAnswers(read)
    <3>. DEFINE rest == Rows \ ({s.result : s \in shown["lastTx"]} \cup {read.about})
                next == IF rest = {} THEN {} ELSE {Of!Read("lastTx", read.mint, CHOOSE a \in rest : TRUE)}
    <3>1. Of!Answers(read, Of!Says(read.mint, read.about), next)
      BY <2>4 DEF Of!LastTxAnswers
    <3>2. Of!Says(read.mint, read.about) \in SaysType /\ Of!Says(read.mint, read.about).mint = read.mint
      BY <1>1, SaysIs DEF Results
    <3>3. next \subseteq ReadType /\ \A r \in next : r.mint = read.mint /\ r.about # "refresh"
      <4>1. CASE rest = {}
        BY <4>1
      <4>2. CASE rest # {}
        <5>1. PICK a \in Rows : next = {Of!Read("lastTx", read.mint, a)}
          BY <4>2
        <5>2. /\ Of!Read("lastTx", read.mint, a) \in ReadType
              /\ Of!Read("lastTx", read.mint, a).mint = read.mint
              /\ Of!Read("lastTx", read.mint, a).about = a
          BY <1>1, ReadIs DEF Of!Parts, Abouts
        <5>. QED  BY <2>0, <5>1, <5>2
      <4>. QED  BY <4>1, <4>2
    <3>. HIDE DEF next
    <3>4. Puts
      BY <3>1, <3>2, <3>3
    <3>. QED  BY <2>4, <2>r, <3>4 DEF Of!LastTxAnswers
  <2>5. CASE Of!LiveAnswers(read)
    BY <1>1, <2>5 DEF Of!LiveAnswers, PagesTypes, RowStates
  <2>6. CASE Of!PartAnswers(read)
    <3>1. PICK result \in {"ok", "failed"} : Of!Answers(read, Of!Says(read.mint, result), {})
      BY <2>6 DEF Of!PartAnswers
    <3>2. Of!Says(read.mint, result) \in SaysType /\ Of!Says(read.mint, result).mint = read.mint
      BY <1>1, SaysIs DEF Results
    <3>3. Puts
      BY <3>1, <3>2
    <3>. QED  BY <2>6, <2>r, <3>3 DEF Of!PartAnswers
  <2>7. CASE Of!StatusAnswers(read)
    <3>1. CASE Of!Answers(read, Of!Says(read.mint, "ok"), {})
      <4>1. Of!Says(read.mint, "ok") \in SaysType /\ Of!Says(read.mint, "ok").mint = read.mint
        BY <1>1, SaysIs DEF Results
      <4>2. Puts
        BY <3>1, <4>1
      <4>. QED  BY <2>7, <2>r, <4>2 DEF Of!StatusAnswers
    <3>2. CASE reads' = reads \ {read} /\ shown' = shown
      BY <2>7, <2>r, <3>2 DEF Of!StatusAnswers
    <3>. QED  BY <2>7, <3>1, <3>2 DEF Of!StatusAnswers
  <2>. QED  BY <2>1, <2>2, <2>3, <2>4, <2>5, <2>6, <2>7 DEF Of!ReadAnswers
<1>3. /\ reads' \subseteq ReadType /\ shown' \in [Of!Parts -> SUBSET SaysType]
      /\ shown'["outcome"] = shown["outcome"]
      /\ \A r \in reads' : r \in reads \/ (r.mint = read.mint /\ r.about # "refresh")
      /\ \A p \in Of!Parts : \A s \in shown'[p] : s \in shown[p] \/ s.mint = read.mint
  <2>1. CASE Puts
    BY <1>1, <2>1, AnswersPut
  <2>2. CASE shown' = shown /\ reads' = reads \ {read}
    BY <1>1, <2>2 DEF PagesTypes
  <2>. QED  BY <1>2, <2>1, <2>2
<1>. HIDE DEF Puts
<1>4. /\ Of!Has("outcome", "refused")' <=> Of!Has("outcome", "refused")
      /\ Of!Busy' <=> Of!Busy
  BY <1>1, <1>3 DEF Of!Has, Of!Busy
<1>5. PagesTypes'
  BY <1>1, <1>2, <1>3, <1>4 DEF PagesTypes
<1>6. ~late' => OfTheNamed'
  BY <1>1, <1>3, <1>4 DEF OfTheNamed
<1>7. AmountsAsTyped'
  BY <1>1 DEF AmountsAsTyped, Of!AmountsAsTyped
<1>8. NamesAMint'
  <2>1. \A r \in reads' : r.about = "refresh" => r.part = "status"
    BY <1>1, <1>3 DEF NamesAMint
  <2>2. CASE read.part # "status"
    BY <1>1, <2>1, <2>2 DEF NamesAMint
  <2>3. CASE read.part = "status"
    <3>1. /\ Of!StatusAnswers(read) /\ row' = row /\ reads' \subseteq reads
          /\ shown' = shown \/ shown' = [shown EXCEPT !["status"] = {Of!Says(read.mint, "ok")}]
      BY <2>3 DEF Of!ReadAnswers, Of!PolicyAnswers, Of!KeeperAnswers, Of!FactsAnswer, Of!LastTxAnswers,
                  Of!LiveAnswers, Of!PartAnswers, Of!StatusAnswers, Of!Answers
    <3>2. shown'["keeper"] = shown["keeper"]
      BY <1>1, <3>1 DEF PagesTypes, Of!Parts
    <3>. QED  BY <1>1, <2>1, <3>1, <3>2 DEF NamesAMint
  <2>. QED  BY <2>2, <2>3
<1>. QED  BY <1>5, <1>6, <1>7, <1>8 DEF PagesInv

\* A row's own button reads the mint named.
LEMMA RecheckKeeps == \A a \in Rows : PagesInv /\ Of!recheck(a) => PagesInv'
<1>. SUFFICES ASSUME NEW a \in Rows, PagesInv, Of!recheck(a) PROVE PagesInv'
  OBVIOUS
<1>1. /\ PagesTypes /\ NamesAMint /\ (~late => OfTheNamed) /\ AmountsAsTyped
      /\ UNCHANGED <<page, named, shown, job, room, minted, late>>
      /\ row' = [row EXCEPT ![a] = "running"]
      /\ reads' = reads \cup {Of!Read("live", named, a)}
      /\ row[a] = "null"
  BY DEF PagesInv, Of!recheck
<1>2. named \in Keys
  BY <1>1 DEF NamesAMint
<1>3. /\ Of!Read("live", named, a) \in ReadType /\ Of!Read("live", named, a).mint = named
      /\ Of!Read("live", named, a).about # "refresh"
  BY <1>2, ReadIs, ConsoleAssumption DEF Abouts
<1>4. Of!Busy' = Of!Busy /\ Of!Has("outcome", "refused")' = Of!Has("outcome", "refused")
  BY <1>1 DEF Of!Busy, Of!Has
<1>5. PagesTypes'
  BY <1>1, <1>3, <1>4 DEF PagesTypes, RowStates
<1>6. ~late' => OfTheNamed'
  BY <1>1, <1>3, <1>4 DEF OfTheNamed
<1>7. AmountsAsTyped'
  BY <1>1 DEF AmountsAsTyped, Of!AmountsAsTyped
<1>8. NamesAMint'
  BY <1>1, <1>2, <1>3 DEF NamesAMint
<1>. QED  BY <1>5, <1>6, <1>7, <1>8 DEF PagesInv

\* A handler of the mint card: it leaves the page's other parts alone.
LEMMA CardStepKeeps ==
  ASSUME PagesInv, UNCHANGED <<page, named, row, late>>,
         shown' = shown \/ \E S \in SUBSET SaysType :
           shown' = [shown EXCEPT !["outcome"] = S] /\ (~late => \A s \in S : s.mint = named),
         reads' = reads \/ (job.refreshes \in Keys /\ Of!Busy
                             /\ reads' = reads \cup {Of!Read("status", job.refreshes, "refresh")}),
         job' \in JobType,
         Of!Busy' \/ Of!Has("outcome", "refused")' =>
           /\ job'.key \in Keys
           /\ ~late => job'.key = named /\ job'.base = job'.typed * Unit[job'.key],
         Of!Busy' /\ ~late => job'.refreshes = named,
         room' \in [Keys -> Nat],
         AmountsAsTyped'
  PROVE  PagesInv'
<1>1. PagesTypes /\ NamesAMint /\ (~late => OfTheNamed)
  BY DEF PagesInv
<1>2. /\ shown' \in [Of!Parts -> SUBSET SaysType] /\ shown'["keeper"] = shown["keeper"]
      /\ ~late => \A p \in Of!Parts : \A s \in shown'[p] : s.mint = named
  BY <1>1 DEF PagesTypes, OfTheNamed, Of!Parts
<1>3. /\ reads' \subseteq ReadType
      /\ \A r \in reads' : r \in reads \/ (r.part = "status" /\ r.mint = job.refreshes /\ Of!Busy)
  <2>1. CASE reads' = reads
    BY <1>1, <2>1 DEF PagesTypes
  <2>2. CASE /\ job.refreshes \in Keys /\ Of!Busy
             /\ reads' = reads \cup {Of!Read("status", job.refreshes, "refresh")}
    <3>1. /\ Of!Read("status", job.refreshes, "refresh") \in ReadType
          /\ Of!Read("status", job.refreshes, "refresh").mint = job.refreshes
          /\ Of!Read("status", job.refreshes, "refresh").part = "status"
      BY <2>2, ReadIs DEF Of!Parts, Abouts
    <3>. QED  BY <1>1, <2>2, <3>1 DEF PagesTypes
  <2>. QED  BY <2>1, <2>2
<1>4. PagesTypes'
  BY <1>1, <1>2, <1>3 DEF PagesTypes
<1>5. NamesAMint'
  BY <1>1, <1>2, <1>3 DEF NamesAMint
<1>6. ~late' => OfTheNamed'
  BY <1>1, <1>2, <1>3 DEF OfTheNamed
<1>. QED  BY <1>4, <1>5, <1>6 DEF PagesInv

\* The amount typed is read in the decimals of the status held, which is the
\* named mint's.
LEMMA MintNowKeeps == \A typed \in Typed : PagesInv /\ Of!mintNow(typed) => PagesInv'
<1>. SUFFICES ASSUME NEW typed \in Typed, PagesInv, Of!mintNow(typed) PROVE PagesInv'
  OBVIOUS
<1>. DEFINE status == CHOOSE s \in shown["status"] : TRUE
            base   == typed * Unit[status.mint]
<1>1. /\ PagesTypes /\ (~late => OfTheNamed) /\ AmountsAsTyped /\ ~Of!Busy /\ Of!Has("status", "ok")
      /\ UNCHANGED <<page, named, reads, row, room, minted, late>>
      /\ job' = IF named \notin Keys \/ base = 0 THEN job
                ELSE [pc |-> "simulate", key |-> named, typed |-> typed, base |-> base, refreshes |-> named]
      /\ shown' = [shown EXCEPT !["outcome"] =
                     IF named \notin Keys THEN @ ELSE IF base = 0 THEN {Of!Says(named, "error")} ELSE {}]
  BY DEF PagesInv, Of!mintNow, Of!Keys, Keys
<1>2. status \in shown["status"]
  BY <1>1 DEF Of!Has
<1>3. /\ status.mint \in Keys
      /\ ~late => status.mint = named
      /\ Unit[status.mint] \in Nat /\ typed \in Nat
  BY <1>1, <1>2, ConsoleAssumption DEF PagesTypes, SaysType, OfTheNamed, Of!Parts, Keys
<1>. HIDE DEF status
<1>4. base \in Nat
  BY <1>3
<1>5. ~late => base = typed * Unit[named]
  <2>1. ASSUME status.mint = named PROVE base = typed * Unit[named]
    BY <2>1, Zenon
  <2>. HIDE DEF base
  <2>. QED  BY <1>3, <2>1
<1>. HIDE DEF base
<1>6. AmountsAsTyped'
  BY <1>1 DEF AmountsAsTyped, Of!AmountsAsTyped
<1>7. room' \in [Keys -> Nat] /\ shown \in [Of!Parts -> SUBSET SaysType] /\ shown["outcome"] \subseteq SaysType
  BY <1>1 DEF PagesTypes, Of!Parts
<1>8. CASE named \notin Keys
  <2>1. shown' = shown /\ job' = job
    BY <1>1, <1>7, <1>8
  <2>2. Of!Busy' = Of!Busy /\ Of!Has("outcome", "refused")' = Of!Has("outcome", "refused")
    BY <2>1 DEF Of!Busy, Of!Has
  <2>. QED  BY <1>1, <1>6, <1>7, <2>1, <2>2, CardStepKeeps DEF PagesTypes, OfTheNamed
<1>9. CASE named \in Keys /\ base = 0
  <2>1. shown' = [shown EXCEPT !["outcome"] = {Of!Says(named, "error")}] /\ job' = job
    BY <1>1, <1>9
  <2>2. /\ Of!Says(named, "error") \in SaysType /\ Of!Says(named, "error").mint = named
        /\ Of!Says(named, "error").result = "error"
    BY <1>9, SaysIs DEF Results
  <2>3. shown'["outcome"] = {Of!Says(named, "error")}
    BY <1>7, <2>1 DEF Of!Parts
  <2>4. ~Of!Busy' /\ ~Of!Has("outcome", "refused")'
    BY <1>1, <2>1, <2>2, <2>3 DEF Of!Busy, Of!Has
  <2>5. {Of!Says(named, "error")} \in SUBSET SaysType /\ \A s \in {Of!Says(named, "error")} : s.mint = named
    BY <2>2
  <2>6. job' \in JobType
    BY <1>1, <2>1 DEF PagesTypes
  <2>. QED  BY <1>1, <1>6, <1>7, <2>1, <2>4, <2>5, <2>6, CardStepKeeps
<1>10. CASE named \in Keys /\ base # 0
  <2>1. /\ shown' = [shown EXCEPT !["outcome"] = {}]
        /\ job' = [pc |-> "simulate", key |-> named, typed |-> typed, base |-> base, refreshes |-> named]
    BY <1>1, <1>10
  <2>2. {} \in SUBSET SaysType /\ \A s \in {} : s.mint = named
    OBVIOUS
  <2>3. /\ job' \in JobType /\ job'.key = named /\ job'.typed = typed /\ job'.base = base
        /\ job'.refreshes = named
    BY <1>1, <1>3, <1>4, <1>10, <2>1 DEF JobType, PagesTypes
  <2>. QED  BY <1>1, <1>5, <1>6, <1>7, <1>10, <2>1, <2>2, <2>3, CardStepKeeps
<1>. QED  BY <1>8, <1>9, <1>10

\* The simulation refuses or lets the transaction be sent; the answer to the
\* send ends the handler, and what it minted is what was typed.
LEMMA JobKeeps == PagesInv /\ (Of!Simulated \/ Of!SendAnswers) => PagesInv'
<1>. SUFFICES ASSUME PagesInv, Of!Simulated \/ Of!SendAnswers PROVE PagesInv'
  OBVIOUS
<1>1. /\ PagesTypes /\ (~late => OfTheNamed) /\ AmountsAsTyped
      /\ Of!Busy /\ job.key \in Keys /\ job.base \in Nat /\ job \in JobType
      /\ ~late => job.key = named /\ job.base = job.typed * Unit[job.key] /\ job.refreshes = named
      /\ UNCHANGED <<page, named, row, late>>
      /\ room \in [Keys -> Nat] /\ shown \in [Of!Parts -> SUBSET SaysType]
  BY DEF PagesInv, PagesTypes, JobType, OfTheNamed, Of!Simulated, Of!SendAnswers, Of!Busy
<1>2. reads' = reads \/ (job.refreshes \in Keys /\ Of!Busy
                         /\ reads' = reads \cup {Of!Read("status", job.refreshes, "refresh")})
  BY <1>1 DEF Of!Simulated, Of!SendAnswers, Of!Refresh, Of!Keys, Keys
<1>3. room' \in [Keys -> Nat]
  <2>1. room' = room \/ (job.base <= room[job.key] /\ room' = [room EXCEPT ![job.key] = @ - job.base])
    BY DEF Of!Simulated, Of!SendAnswers
  <2>. QED  BY <1>1, <2>1
<1>4. AmountsAsTyped'
  <2>1. minted' = minted \/ minted' = minted \cup {Of!Tx}
    BY DEF Of!Simulated, Of!SendAnswers
  <2>2. Of!Tx.base = job.base /\ Of!Tx.typed = job.typed /\ Of!Tx.mint = job.key
    BY DEF Of!Tx
  <2>. QED  BY <1>1, <2>1, <2>2 DEF AmountsAsTyped, Of!AmountsAsTyped
<1>5. CASE job.pc = "simulate" /\ job' = [job EXCEPT !.pc = "send"] /\ shown' = shown
  <2>1. /\ job' \in JobType /\ job'.key = job.key /\ job'.typed = job.typed /\ job'.base = job.base
        /\ job'.refreshes = job.refreshes
    BY <1>1, <1>5 DEF JobType
  <2>. QED  BY <1>1, <1>2, <1>3, <1>4, <1>5, <2>1, CardStepKeeps
<1>6. ASSUME NEW result \in Results, Of!Ends(Of!Says(job.key, result))
      PROVE  PagesInv'
  <2>1. /\ Of!Says(job.key, result) \in SaysType /\ Of!Says(job.key, result).mint = job.key
    BY <1>1, SaysIs
  <2>2. /\ job' = [Of!NoJob EXCEPT !.key = job.key, !.typed = job.typed, !.base = job.base]
        /\ shown' = [shown EXCEPT !["outcome"] = {Of!Says(job.key, result)}]
    BY <1>6 DEF Of!Ends
  <2>3. /\ job' \in JobType /\ job'.pc = "idle" /\ job'.key = job.key /\ job'.typed = job.typed
        /\ job'.base = job.base
    BY <1>1, <2>2 DEF Of!NoJob, JobType
  <2>4. ~Of!Busy'
    BY <2>3 DEF Of!Busy
  <2>5. /\ {Of!Says(job.key, result)} \in SUBSET SaysType
        /\ ~late => \A s \in {Of!Says(job.key, result)} : s.mint = named
    BY <1>1, <2>1
  <2>. QED  BY <1>1, <1>2, <1>3, <1>4, <2>2, <2>3, <2>4, <2>5, CardStepKeeps
<1>7. \/ job.pc = "simulate" /\ job' = [job EXCEPT !.pc = "send"] /\ shown' = shown
      \/ \E result \in Results : Of!Ends(Of!Says(job.key, result))
  BY DEF Of!Simulated, Of!SendAnswers, Results
<1>. QED  BY <1>5, <1>6, <1>7

\* "Send anyway" keeps the amount that was refused.
LEMMA RecordKeeps == PagesInv /\ (Of!recordRefusal \/ Of!RoomChanges) => PagesInv'
<1>. SUFFICES ASSUME PagesInv, Of!recordRefusal \/ Of!RoomChanges PROVE PagesInv'
  OBVIOUS
<1>1. /\ PagesTypes /\ (~late => OfTheNamed) /\ AmountsAsTyped
      /\ UNCHANGED <<page, named, reads, shown, row, minted, late>>
  BY DEF PagesInv, Of!recordRefusal, Of!RoomChanges
<1>2. AmountsAsTyped'
  BY <1>1 DEF AmountsAsTyped, Of!AmountsAsTyped
<1>3. Of!Has("outcome", "refused")' = Of!Has("outcome", "refused")
  BY <1>1 DEF Of!Has
<1>4. CASE Of!recordRefusal
  <2>1. /\ Of!Has("outcome", "refused") /\ room' = room
        /\ job' = [job EXCEPT !.pc = "record", !.refreshes = named]
    BY <1>4 DEF Of!recordRefusal
  <2>2. /\ job' \in JobType /\ job'.key = job.key /\ job'.typed = job.typed /\ job'.base = job.base
        /\ job'.refreshes = named
    BY <1>1, <2>1 DEF PagesTypes, JobType
  <2>. QED  BY <1>1, <1>2, <2>1, <2>2, CardStepKeeps DEF PagesTypes, OfTheNamed
<1>5. CASE Of!RoomChanges
  <2>1. /\ job' = job /\ \E m \in Keys, r \in Rooms : room' = [room EXCEPT ![m] = r]
    BY <1>5 DEF Of!RoomChanges, Of!Keys, Keys
  <2>2. room' \in [Keys -> Nat]
    BY <1>1, <2>1, ConsoleAssumption DEF PagesTypes
  <2>3. Of!Busy' = Of!Busy
    BY <2>1 DEF Of!Busy
  <2>. QED  BY <1>1, <1>2, <1>3, <2>1, <2>2, <2>3, CardStepKeeps DEF PagesTypes, OfTheNamed
<1>. QED  BY <1>4, <1>5

\* Every step of the pages keeps their invariant.
LEMMA PagesStep == PagesInv /\ (Of!PagesNext \/ UNCHANGED pages_vars) => PagesInv'
<1>. SUFFICES ASSUME PagesInv, Of!PagesNext \/ UNCHANGED pages_vars PROVE PagesInv'
  OBVIOUS
<1>1. CASE UNCHANGED pages_vars
  BY <1>1 DEF pages_vars, PagesInv, PagesTypes, NamesAMint, OfTheNamed, AmountsAsTyped,
              Of!AmountsAsTyped, Of!Busy, Of!Has
<1>2. CASE \E key \in Names : Of!Name(key)
  BY <1>2, NameKeeps
<1>3. CASE \E read \in reads : Of!ReadAnswers(read)
  BY <1>3, ReadAnswersKeep
<1>4. CASE \E a \in Rows : Of!recheck(a)
  BY <1>4, RecheckKeeps
<1>5. CASE \E typed \in Typed : Of!mintNow(typed)
  BY <1>5, MintNowKeeps
<1>6. CASE Of!Simulated \/ Of!SendAnswers
  BY <1>6, JobKeeps
<1>7. CASE Of!recordRefusal \/ Of!RoomChanges
  BY <1>7, RecordKeeps
<1>. QED  BY <1>1, <1>2, <1>3, <1>4, <1>5, <1>6, <1>7 DEF Of!PagesNext

-----------------------------------------------------------------------------
(* The console.                                                            *)

\* Both invariants hold in every reachable state: a step of the one part
\* leaves the variables of the other alone.
THEOREM ConsoleInvariance == ConsoleSpec => [](WizardInv /\ PagesInv)
<1>1. ConsoleInit => WizardInv /\ PagesInv
  BY WizardInit, PagesStart DEF ConsoleInit
<1>2. WizardInv /\ PagesInv /\ [ConsoleNext]_console_vars => (WizardInv /\ PagesInv)'
  <2>. SUFFICES ASSUME WizardInv, PagesInv, [ConsoleNext]_console_vars PROVE (WizardInv /\ PagesInv)'
    OBVIOUS
  <2>1. CASE UNCHANGED console_vars
    BY <2>1, WizardStep, PagesStep DEF console_vars
  <2>2. CASE OnWizard(Next)
    BY <2>2, WizardStep, PagesStep DEF OnWizard
  <2>3. CASE OnPage(Of!PagesNext)
    BY <2>3, WizardStep, PagesStep DEF OnPage
  <2>. QED  BY <2>1, <2>2, <2>3 DEF ConsoleNext
<1>. QED  BY <1>1, <1>2, PTL DEF ConsoleSpec

\* The saved runs, the card, the chain and the pages keep their shape.
THEOREM ConsoleTypeCorrect == ConsoleSpec => []ConsoleTypeOK
<1>1. Types => TypeOK
  BY DEF Types, TypeOK, ChainType, RunType, CardType, Sas
<1>2. PagesTypes => Of!PagesTypeOK
  <2>. SUFFICES ASSUME PagesTypes PROVE Of!PagesTypeOK
    OBVIOUS
  <2>1. \A r \in reads : r.part \in Of!Parts \cup {"live"} /\ r.mint \in Keys
                       /\ r.about \in Rows \cup {Of!Page, "refresh"}
    BY DEF PagesTypes, ReadType, Abouts
  <2>2. \A p \in Of!Parts : \A s \in shown[p] : s.mint \in Keys /\ s.chain \cup s.unknown \subseteq Rows
    BY DEF PagesTypes, SaysType
  <2>3. job.pc \in {"idle", "simulate", "send", "record"} /\ (Of!Busy => job.key \in Keys)
    BY DEF PagesTypes, JobType
  <2>. QED  BY <2>1, <2>2, <2>3 DEF PagesTypes, RowStates, Of!PagesTypeOK, Of!Keys, Keys
<1>3. WizardInv /\ PagesInv => ConsoleTypeOK
  BY <1>1, <1>2 DEF WizardInv, PagesInv, ConsoleTypeOK
<1>. QED  BY <1>3, ConsoleInvariance, PTL

\* Whatever is retried, lost, dropped, reloaded or started over: the steps that
\* a wallet's run calls done are on chain for that wallet, unless one was
\* switched under a running step; and an attestation that the card calls done is
\* on chain under the credential its button was pressed with.
THEOREM WhatIsDoneIsOnChain == ConsoleSpec => []DoneIsOnChain
<1>1. WizardInv => DoneIsOnChain
  BY DEF WizardInv
<1>. QED  BY <1>1, ConsoleInvariance, PTL

\* Retries make one mint as long as the page keeps its keypair, unless a wallet
\* was switched under a running step.
THEOREM RetriesMakeOneMint == ConsoleSpec => []RetryKeepsMint
<1>1. WizardInv => RetryKeepsMint
  BY OneMintIsOne DEF WizardInv, Uncrossed
<1>. QED  BY <1>1, ConsoleInvariance, PTL

\* In whatever order the reads answer, a page shows the mint it names.
THEOREM PagesShowTheNamed == ConsoleSpec => []ShownIsOfTheMint
<1>1. PagesInv => ShownIsOfTheMint
  BY DEF PagesInv, OfTheNamed, ShownIsOfTheMint, Of!ShownIsOfTheMint
<1>. QED  BY <1>1, ConsoleInvariance, PTL

\* The mint card mints what was typed, in the decimals of the mint it mints.
THEOREM MintedAsTyped == ConsoleSpec => []AmountsAsTyped
<1>1. PagesInv => AmountsAsTyped
  BY DEF PagesInv
<1>. QED  BY <1>1, ConsoleInvariance, PTL

=============================================================================
