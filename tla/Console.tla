------------------------------ MODULE Console ------------------------------
(***************************************************************************)
(* The console (frontend/src/App.tsx): one page is mounted at a time.  The *)
(* wizard and the attest card of /issuer are Wizard, the pages that read a *)
(* named mint, the mint card among them, are Pages; HoldersPage's unlock   *)
(* is a command of GateClient.  Going from one page to another, which      *)
(* mounts it anew, is left out.                                            *)
(***************************************************************************)
EXTENDS Wizard

CONSTANTS Names, Unit, Rows, Typed, Rooms, MaxNamings, MaxCardMints, Routes

ASSUME ConsoleAssumption ==
  /\ DOMAIN Unit # {} /\ DOMAIN Unit \subseteq Names /\ \A m \in DOMAIN Unit : Unit[m] \in Nat \ {0}
  /\ Typed \subseteq Nat /\ Rooms \subseteq Nat
  /\ MaxNamings \in Nat /\ MaxCardMints \in Nat
  /\ "refresh" \notin Rows /\ Routes \subseteq {"none", "decisions", "reserves", "mint"}

VARIABLES page, named, reads, shown, row, job, room, namings, minted, late

Of == INSTANCE Pages WITH MaxMints <- MaxCardMints

pages_vars   == <<page, named, reads, shown, row, job, room, namings, minted, late>>
console_vars == <<vars, pages_vars>>

\* The wizard is at work while no page of Pages is.  Wallets are alike: which
\* one is connected first makes no difference.
ConsoleInit ==
  /\ Of!PagesInit(Routes)
  /\ Init /\ wallet = CHOOSE w \in Wallets : TRUE

OnWizard(A) == page = "none" /\ A /\ UNCHANGED pages_vars
OnPage(A)   == page # "none" /\ A /\ UNCHANGED vars

ConsoleNext == OnWizard(Next) \/ OnPage(Of!PagesNext)

\* Fairness of Wizard; and every read answers, if only with an error.
ConsoleFairness ==
  /\ WF_console_vars(OnWizard(\E h \in Slots : GoesOn(h)))
  /\ WF_console_vars(OnWizard(\E tx \in flights : Land(tx)))
  /\ WF_console_vars(OnWizard(createCoin))
  /\ SF_console_vars(OnWizard(savePolicy)) /\ SF_console_vars(OnWizard(enable))
  /\ WF_console_vars(OnPage(\E read \in reads : Of!ReadAnswers(read)))

ConsoleSpec == ConsoleInit /\ [][ConsoleNext]_console_vars /\ ConsoleFairness

-----------------------------------------------------------------------------
\* The state of the mounted page keeps its shape.
ConsoleTypeOK == TypeOK /\ Of!PagesTypeOK

\* An issuer who goes on gets there (Wizard).
WizardCompletes == page = "none" => Completes

\* What a page holds is of the mint it names (Pages).
ShownIsOfTheMint == Of!ShownIsOfTheMint

\* What the mint card mints is what was typed (Pages).
AmountsAsTyped == Of!AmountsAsTyped

\* Every row comes to a decision (Pages).
RowsAreJudged == Of!RowsAreJudged
=============================================================================
