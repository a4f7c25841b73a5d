----------------------------- MODULE MCConsole -----------------------------
(* Console with two wallets for the wizard, two mints of different decimals *)
(* and a text that names none for the pages, two rows per mint.            *)
EXTENDS Console

CONSTANTS m1, m2

MCUnit == [m \in {m1, m2} |-> IF m = m1 THEN 1 ELSE 2]

\* The attest card is tried once the mint is gated.
CardLast == card.status = "todo" \/ run.steps["enable"] = "done"

\* After a switch under a running step, which every property but the card's
\* part of DoneIsOnChain excuses: two keypairs, one transaction at a time, one
\* finished coin, and the form as it was.
AfterCrossing ==
  crossed => /\ generated <= 2 /\ Cardinality(flights) <= 1
             /\ Cardinality({w \in Wallets : progress[w].steps["setup"] = "done"}) <= 1
             /\ \A w \in Wallets : progress[w].policy = "create"
=============================================================================
