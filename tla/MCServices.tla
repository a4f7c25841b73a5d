------------------------------- MODULE MCServices -------------------------------
(* Instances of Services.                                                  *)
EXTENDS Services

Line(words, mint) == [words |-> words, mint |-> mint]

\* Logs in the form the indexer looks for: the event's name on a line and, near
\* it, "mint: <address>".  A pause names its target's freeze as well.
NamedLogs ==
  [mint   |-> <<Line({"TokensMinted"}, TRUE)>>,
   burn   |-> <<Line({"TokensBurned"}, TRUE)>>,
   pause  |-> <<Line({"TokenPaused", "pause"}, TRUE), Line({"AccountFrozen"}, TRUE)>>]

\* What a transaction of sss-token prints: the instruction's name, as Anchor
\* writes it ("Instruction: MintTokens", "Instruction: Unpause"), and its event
\* in base64 (emit!), which decodeEventByDiscriminator leaves aside.
ProgramLogs ==
  [mint    |-> <<Line({}, FALSE)>>,
   burn    |-> <<Line({}, FALSE)>>,
   unpause |-> <<Line({"pause"}, FALSE)>>]

\* To keep the instance small, deliveries and transactions take turns: while
\* there are jobs no transaction is made, and the other way round; subscriptions
\* meet the indexer but not the mint service, and only the latter mints and burns.
\* More transactions than a poll sees: pauses alone, with at most one of the
\* websocket's callbacks at work.
AFewPauses ==
  /\ \A s \in DOMAIN ledger : ledger[s].kind = "pause"
  /\ \A j, k \in DOMAIN ledger : handlers[j] # Idle /\ handlers[k] # Idle => j = k
  /\ \A r \in Requests : requests[r].at = "new"
  /\ \A e \in Endpoints : hooks[e].at = "none"

Resting == deliveries = <<>> /\ outbox = {} /\ \A e \in Endpoints : hooks[e].at # "deleted"
TakeTurns ==
  /\ ledger = <<>> \/ Resting
  /\ \/ \A r \in Requests : requests[r].at = "new"
     \/ Resting /\ \A e \in Endpoints : hooks[e].at = "none"
  /\ Len(ledger) > PollLimit => AFewPauses
  /\ \A s \in DOMAIN ledger : ledger[s].kind \in {"mint", "burn"} => ledger[s].target = ""
================================================================================
