----------------------------- MODULE GatePromise -----------------------------
(***************************************************************************)
(* What the gate promises, without policies, lists or registries: an       *)
(* account that anyone may thaw belongs to an owner who is in the clear,   *)
(* and one that anyone may freeze belongs to an owner who is flagged.      *)
(*                                                                         *)
(*   status[a]   the token account: "none", "frozen", "initialized"        *)
(*   verdict[a]  the standing of its owner now: "clear", "flagged", or     *)
(*               "unreadable", when the gate refuses both                  *)
(*   by[a]       who last froze or thawed it: "none", "gate", "issuer"     *)
(***************************************************************************)
CONSTANT Accounts
VARIABLES status, verdict, by

vars == <<status, verdict, by>>

Verdicts == {"clear", "flagged", "unreadable"}

Init ==
  /\ status = [a \in Accounts |-> "none"]
  /\ verdict \in [Accounts -> Verdicts]
  /\ by = [a \in Accounts |-> "none"]

\* A new account of a DefaultAccountState = Frozen mint.
Open(a) ==
  /\ status[a] = "none"
  /\ status' = [status EXCEPT ![a] = "frozen"]
  /\ verdict' \in [Accounts -> Verdicts]
  /\ UNCHANGED by

\* Anyone, through the gate.
GateThaw(a) ==
  /\ status[a] = "frozen"
  /\ verdict[a] = "clear"
  /\ status' = [status EXCEPT ![a] = "initialized"]
  /\ by' = [by EXCEPT ![a] = "gate"]
  /\ UNCHANGED verdict

GateFreeze(a) ==
  /\ status[a] = "initialized"
  /\ verdict[a] = "flagged"
  /\ status' = [status EXCEPT ![a] = "frozen"]
  /\ by' = [by EXCEPT ![a] = "gate"]
  /\ UNCHANGED verdict

\* The freeze authority, who does not ask the gate.
IssuerSets(a, s) ==
  /\ status[a] # "none"
  /\ status' = [status EXCEPT ![a] = s]
  /\ by' = [by EXCEPT ![a] = "issuer"]
  /\ UNCHANGED verdict

\* Policies, registries, credentials, time and ownership move verdicts, and
\* never an account.
WorldMoves ==
  /\ verdict' \in [Accounts -> Verdicts]
  /\ UNCHANGED <<status, by>>

Next ==
  \/ \E a \in Accounts :
       \/ Open(a)
       \/ GateThaw(a)
       \/ GateFreeze(a)
       \/ \E s \in {"frozen", "initialized"} : IssuerSets(a, s)
  \/ WorldMoves

Spec == Init /\ [][Next]_vars
=============================================================================
