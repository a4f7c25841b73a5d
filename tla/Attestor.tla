------------------------------ MODULE Attestor ------------------------------
(***************************************************************************)
(* The reserve attestor service (services/attestor) beside the mint: every *)
(* tick reads the publisher's report, the mint's attestation and the       *)
(* cluster clock, one after the other, posts when the report is newer, and *)
(* waits until the post is confirmed or its blockhash has expired.  A tick *)
(* that fails leaves its post in the network.                              *)
(*                                                                         *)
(* External: the publisher's report, the network between the service and  *)
(* the cluster.  Posts are [reserves, as_of]; report URIs are left out.    *)
(***************************************************************************)
EXTENDS SssToken

CONSTANTS
  AttestorKey,   \* the service's keypair
  Reports,       \* the reports the publisher may publish
  MaxReports,    \* bound on their number
  MaxFaults      \* bound on failed ticks, restarts and expired posts

ASSUME AttestorAssumption ==
  /\ AttestorKey \in Keys
  /\ Reports \subseteq [reserves: U64, as_of: 0 .. MaxTime]
  /\ Reports # {}
  /\ MaxReports \in Nat /\ MaxFaults \in Nat

VARIABLES
  report,      \* what the source says now
  published,   \* how often it changed
  tick,        \* the tick under way: its phase, the report and the attestation it read
  posts,       \* the service's posts in the network
  faults

attestor_vars == <<report, published, tick, posts, faults>>

Phases == {"absent", "asleep", "fetching", "deciding", "sending", "confirming"}
Asleep == [phase |-> "asleep", report |-> CHOOSE r \in Reports : TRUE, seen |-> NoReserve]

AttestorInit ==
  /\ report \in Reports /\ published = 0
  /\ tick \in {Asleep, [Asleep EXCEPT !.phase = "absent"]}
  /\ posts = {} /\ faults = 0

Publish(r) ==
  /\ published < MaxReports /\ r # report
  /\ report' = r /\ published' = published + 1
  /\ UNCHANGED <<vars, tick, posts, faults>>

-----------------------------------------------------------------------------
(* main.ts's loop and tick.                                                *)

readReport ==
  /\ tick.phase = "asleep"
  /\ tick' = [tick EXCEPT !.phase = "fetching", !.report = report]
  /\ UNCHANGED <<vars, report, published, posts, faults>>

fetchAttestation ==
  /\ tick.phase = "fetching"
  /\ tick' = [tick EXCEPT !.phase = "deciding", !.seen = reserve]
  /\ UNCHANGED <<vars, report, published, posts, faults>>

\* Mutant: a report of the date already posted is never a correction.
PostsNewerOnly(r, on_chain, clock) ==
  /\ on_chain.attestor = AttestorKey
  /\ on_chain.as_of < r.as_of /\ r.as_of <= clock

\* decide: an attestation exists and is ours, the report is not of the future
\* and not older than the posted one, and the same date needs a correction.
\* No attestor is NoReserve's Nobody.
decide(r, on_chain, clock) ==
  /\ on_chain.attestor = AttestorKey
  /\ r.as_of <= clock
  /\ \/ on_chain.as_of < r.as_of
     \/ on_chain.as_of = r.as_of /\ on_chain.reserves # r.reserves

Decide ==
  /\ tick.phase = "deciding"
  /\ tick' = IF decide(tick.report, tick.seen, now)
               THEN [tick EXCEPT !.phase = "sending", !.seen = NoReserve] ELSE Asleep
  /\ UNCHANGED <<vars, report, published, posts, faults>>

\* What the program (and the preflight simulation) asks of a post now.
WouldLand(post) == reserve.attestor = AttestorKey /\ reserve.as_of <= post.as_of /\ post.as_of <= now

\* Mutant: the post carries the cluster's time, not the report's.
SendStamped ==
  /\ tick.phase = "sending"
  /\ IF WouldLand(tick.report)
       THEN posts' = posts \cup {[tick.report EXCEPT !.as_of = now]} /\ tick' = [tick EXCEPT !.phase = "confirming"]
       ELSE tick' = Asleep /\ UNCHANGED posts
  /\ UNCHANGED <<vars, report, published, faults>>

\* sendTransaction simulates first; a refusal fails the tick.
Send ==
  /\ tick.phase = "sending"
  /\ IF WouldLand(tick.report)
       THEN posts' = posts \cup {tick.report} /\ tick' = [tick EXCEPT !.phase = "confirming"]
       ELSE tick' = Asleep /\ UNCHANGED posts
  /\ UNCHANGED <<vars, report, published, faults>>

\* confirm: the post has landed, failed or expired.
confirm ==
  /\ tick.phase = "confirming" /\ tick.report \notin posts
  /\ tick' = Asleep
  /\ UNCHANGED <<vars, report, published, posts, faults>>

\* An RPC error anywhere, or the process restarted.
TickFails ==
  /\ faults < MaxFaults /\ tick.phase \notin {"absent", "asleep"}
  /\ faults' = faults + 1 /\ tick' = Asleep
  /\ UNCHANGED <<vars, report, published, posts>>

-----------------------------------------------------------------------------
(* The network.                                                            *)

PostLands(post) ==
  /\ post \in posts
  /\ posts' = posts \ {post}
  /\ IF WouldLand(post) THEN AttestReserves(AttestorKey, post.reserves, post.as_of) ELSE UNCHANGED vars
  /\ UNCHANGED <<report, published, tick, faults>>

PostExpires(post) ==
  /\ post \in posts /\ faults < MaxFaults
  /\ posts' = posts \ {post} /\ faults' = faults + 1
  /\ UNCHANGED <<vars, report, published, tick>>

AttestorNext ==
  \/ \E r \in Reports : Publish(r) \/ PostLands(r) \/ PostExpires(r)
  \/ readReport \/ fetchAttestation \/ Decide \/ Send \/ confirm \/ TickFails

\* The loop goes round every intervalMs, an answer or an error always comes,
\* and a post in the network lands, or is refused or dropped, in the end.
AttestorFairness ==
  /\ WF_tick(readReport) /\ WF_tick(fetchAttestation) /\ WF_tick(Decide)
  /\ WF_tick(Send) /\ WF_tick(confirm)
  /\ \A r \in Reports : WF_posts(PostLands(r))

AttestorTypeOK ==
  /\ report \in Reports /\ published \in 0 .. MaxReports /\ faults \in 0 .. MaxFaults
  /\ tick.phase \in Phases /\ tick.report \in Reports
  /\ posts \subseteq Reports
=============================================================================
