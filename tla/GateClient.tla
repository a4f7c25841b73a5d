----------------------------- MODULE GateClient -----------------------------
(***************************************************************************)
(* The SDK's gate client and the commands that run on it (sdk/src/gate,    *)
(* cli/src/gate.ts, the holders page), over the gated mint: every read is  *)
(* a step of its own, what it read may be old when the transaction built   *)
(* from it lands, and a transaction is all or nothing.  A transaction that *)
(* is refused, in preflight or on chain, ends its command with an error,   *)
(* and so does a read that fails; those are left out, but for the one read *)
(* whose failure the code swallows (tokenAclMetadataIxs).                  *)
(*                                                                         *)
(* The mint may start at another gate; swap-gate moves it, its metadata    *)
(* field with it (--skip-metadata is left out).  External, with what       *)
(* TokenAclGate lists: that gate's decisions, the issuer's registry and    *)
(* the toggles of its freeze authority.                                    *)
(***************************************************************************)
EXTENDS TokenAclGate

CONSTANTS
  Clients,           \* shells and browser tabs at work
  KeyOf,             \* the wallet of each
  Menu,              \* the commands each may run
  SSS_TOKEN,         \* the issuer program the SDK takes for granted
  MetadataAuthority, \* may write the mint's token_acl metadata field
  MaxCommands,       \* bound on each client's commands
  MaxEvents          \* bound on changes made by nobody here

\* A field that may be left out: the set of its value, or the empty set.
Option(S) == {{}} \cup {{v} : v \in S}

CommandNames ==
  {"policy init", "policy update", "setup-extra-metas", "swap-gate",
   "explain", "unlock", "freeze-if-invalid", "sas attest", "sas revoke"}

Flags ==
  [blacklist: Option(BOOLEAN), allowlist: Option(AllowlistModes), credential: Option(SasConfigs),
   minKyc: Option(Levels \cup {0}), noSas: BOOLEAN, authority: Option(Keys)]

\* What the command lines take: an update has no --authority, and an
\* attestation names its credential and level.
Commands ==
  {cmd \in [name: CommandNames, flags: Flags, account: Accounts, expiry: Nat] :
     /\ cmd.name = "policy update" => cmd.flags.authority = {}
     /\ cmd.name \in {"sas attest", "sas revoke"} => cmd.flags.credential # {}
     /\ cmd.name = "sas attest" => cmd.flags.minKyc \in {{level} : level \in Levels}}

\* A requirement that is off leaves its fields at zero (toPolicyArgs).
Plain(p) == ~p.require_sas => p.sas = NoKey /\ p.min_kyc_level = 0

\* The policy the mint may start with was written through the SDK.
ASSUME GateClientAssumption ==
  /\ KeyOf \in [Clients -> Keys]
  /\ SSS_TOKEN \in Issuers
  /\ \A c \in Clients : Menu[c] \subseteq Commands
  /\ \A args \in PolicyArgs : Plain(args)
  /\ MaxCommands \in Nat /\ MaxEvents \in Nat

VARIABLES
  gating,    \* MintConfig.gating_program: "thawgate" or "other"
  metadata,  \* the mint's token_acl field: a gate, or "none"
  blind,     \* history: a swap landed whose read of that field had failed
  task,      \* the command each client runs
  started,   \* how many each started
  events

client_vars == <<gating, metadata, blind, task, started, events>>
all_vars    == <<vars, client_vars>>

-----------------------------------------------------------------------------
(* PolicyInput.                                                            *)

Or(option, default) == IF option = {} THEN default ELSE CHOOSE v \in option : TRUE

SasOff == [on |-> FALSE, key |-> NoKey, level |-> 0]
Sas(key, level) == [on |-> TRUE, key |-> key, level |-> level]

NoInput == [checkBlacklist |-> {}, allowlistMode |-> {}, sas |-> {}, issuerProgram |-> {}, authority |-> {}]

NoFlags == [blacklist |-> {}, allowlist |-> {}, credential |-> {}, minKyc |-> {}, noSas |-> FALSE, authority |-> {}]

SasGiven(f) == f.credential # {} \/ f.minKyc # {}

\* policyFromFlags throws.
BadFlags(f, current) ==
  \/ f.noSas /\ SasGiven(f)
  \/ ~f.noSas /\ f.minKyc # {} /\ f.credential = {} /\ ~current.require_sas

policyFromFlags(f, current) ==
  LET level == IF current.require_sas THEN current.min_kyc_level ELSE 0
  IN  [checkBlacklist |-> f.blacklist, allowlistMode |-> f.allowlist,
       sas |-> IF f.noSas THEN {SasOff}
               ELSE IF SasGiven(f) THEN {Sas(Or(f.credential, current.sas), Or(f.minKyc, level))}
               ELSE {},
       issuerProgram |-> {}, authority |-> f.authority]

toPolicyArgs(p, authority) ==
  LET listsOn == Or(p.checkBlacklist, FALSE) \/ Or(p.allowlistMode, "Off") # "Off"
      sas     == Or(p.sas, SasOff)
  IN  [authority |-> Or(p.authority, authority),
       issuer_program |-> Or(p.issuerProgram, IF listsOn THEN SSS_TOKEN ELSE NoKey),
       check_blacklist |-> Or(p.checkBlacklist, FALSE), allowlist_mode |-> Or(p.allowlistMode, "Off"),
       require_sas |-> sas.on, sas |-> sas.key, min_kyc_level |-> sas.level]

\* Mutant: the stored issuer program is left to the default.
policyToInputByDefault(p) ==
  [checkBlacklist |-> {p.check_blacklist}, allowlistMode |-> {p.allowlist_mode},
   sas |-> IF p.require_sas THEN {Sas(p.sas, p.min_kyc_level)} ELSE {SasOff},
   issuerProgram |-> {}, authority |-> {p.authority}]

policyToInput(p) ==
  [checkBlacklist |-> {p.check_blacklist}, allowlistMode |-> {p.allowlist_mode},
   sas |-> IF p.require_sas THEN {Sas(p.sas, p.min_kyc_level)} ELSE {SasOff},
   issuerProgram |-> {p.issuer_program}, authority |-> {p.authority}]

Merged(current, changes) ==
  [field \in DOMAIN NoInput |-> IF changes[field] # {} THEN changes[field] ELSE policyToInput(current)[field]]

-----------------------------------------------------------------------------
(* Commands.                                                               *)

NoCommand == [name |-> "none", flags |-> NoFlags, account |-> NoKey, expiry |-> 0]

IdleTask ==
  [cmd |-> NoCommand, pc |-> "idle", answer |-> "none",
   input |-> NoInput, args |-> {}, \* the policy given, and what is built from it
   creates |-> FALSE,              \* init_policy, not update_policy
   fresh |-> FALSE,                \* no other policy landed since the first read
   config |-> {},                  \* the MintConfig it read
   rename |-> FALSE,               \* the metadata field is written too,
   unread |-> FALSE,               \* or its read failed
   op |-> "Freeze",                \* what it simulates,
   list |-> {}]                    \* and the extra metas it resolved

ClientInit ==
  /\ \E args \in PolicyArgs, g \in {"thawgate", "other"} :
       /\ ValidArgs(args)
       /\ gating = g /\ metadata \in {"none", g} /\ blind = FALSE
       /\ policy = IF g = "thawgate" THEN Apply(args) ELSE NoPolicy
       /\ metas = IF g = "thawgate" THEN [thaw |-> ExtraMetas(policy), freeze |-> ExtraMetas(policy)]
                  ELSE [thaw |-> <<>>, freeze |-> <<>>]
       /\ enabled = IF g = "thawgate" THEN [thaw |-> TRUE, freeze |-> TRUE]
                    ELSE [thaw |-> FALSE, freeze |-> FALSE]
  /\ world = [blacklist |-> [i \in Issuers |-> [w \in Wallets |-> "absent"]],
              allowlist |-> [i \in Issuers |-> [w \in Wallets |-> "absent"]],
              attestation |-> [c \in SasConfigs |-> [w \in Wallets |-> NoAttestation]]]
  /\ \E owners \in [Accounts -> Wallets] :
       tokens = [a \in Accounts |-> [state |-> "none", owner |-> owners[a], immutable_owner |-> FALSE]]
  /\ now = 0 /\ by = [a \in Accounts |-> "none"]
  /\ task = [c \in Clients |-> IdleTask]
  /\ started = [c \in Clients |-> 0]
  /\ events = 0

me(c)     == KeyOf[c]
At(c, pc) == task[c].pc = pc
Ends(c, answer) == task' = [task EXCEPT ![c] = [IdleTask EXCEPT !.cmd = task[c].cmd, !.answer = answer]]
Goes(c, next)   == task' = [task EXCEPT ![c] = next]
Chain == <<vars, gating, metadata, blind>>

FirstRead(cmd) ==
  CASE cmd.name = "policy update"                -> "flags"
    [] cmd.name = "setup-extra-metas"            -> "policy"
    [] cmd.name \in {"policy init", "swap-gate"} -> "config"
    [] cmd.name \in {"explain", "unlock", "freeze-if-invalid"} -> "account"
    [] cmd.name = "sas attest"                   -> "clock"
    [] cmd.name = "sas revoke"                   -> "send"

Start(c, cmd) ==
  /\ At(c, "idle") /\ started[c] < MaxCommands
  /\ started' = [started EXCEPT ![c] = @ + 1]
  /\ Goes(c, [IdleTask EXCEPT !.cmd = cmd, !.pc = FirstRead(cmd)])
  /\ UNCHANGED <<Chain, events>>

-----------------------------------------------------------------------------
(* Policies.                                                               *)

\* cli policy update: --min-kyc alone takes the credential of the policy it
\* reads first.
ReadForFlags(c) ==
  LET f == task[c].cmd.flags
  IN  /\ At(c, "flags")
      /\ IF BadFlags(f, policy) THEN Ends(c, "error")
         ELSE Goes(c, [task[c] EXCEPT !.pc = "merge", !.input = policyFromFlags(f, policy), !.fresh = TRUE])
      /\ UNCHANGED <<Chain, started, events>>

\* updatePolicy reads the policy (again) and merges the changes into it.
updatePolicy(c) ==
  /\ At(c, "merge")
  /\ IF policy.version = 0 THEN Ends(c, "error")
     ELSE Goes(c, [task[c] EXCEPT !.pc = IF task[c].cmd.name = "swap-gate" THEN "metadata" ELSE "send",
                                  !.args = {toPolicyArgs(Merged(policy, task[c].input), policy.authority)}])
  /\ UNCHANGED <<Chain, started, events>>

setupExtraMetas(c) ==
  /\ At(c, "policy")
  /\ IF policy.version = 0 THEN Ends(c, "error") ELSE Goes(c, [task[c] EXCEPT !.pc = "send"])
  /\ UNCHANGED <<Chain, started, events>>

InitArgs(c) == toPolicyArgs(policyFromFlags(task[c].cmd.flags, NoPolicy), me(c))

\* freezeAuthorityOf, and initPolicy's own check.
initPolicy(c) ==
  /\ At(c, "config") /\ task[c].cmd.name = "policy init"
  /\ IF BadFlags(task[c].cmd.flags, NoPolicy) \/ me(c) # FreezeAuthority THEN Ends(c, "error")
     ELSE Goes(c, [task[c] EXCEPT !.pc = "send", !.args = {InitArgs(c)}, !.creates = TRUE])
  /\ UNCHANGED <<Chain, started, events>>

Config == [gating |-> gating, thaw |-> enabled.thaw, freeze |-> enabled.freeze]
ConfigOf(c) == Or(task[c].config, Config)

swapGate(c) ==
  /\ At(c, "config") /\ task[c].cmd.name = "swap-gate"
  /\ IF BadFlags(task[c].cmd.flags, NoPolicy) THEN Ends(c, "error")
     ELSE Goes(c, [task[c] EXCEPT !.pc = "exists", !.config = {Config},
                                  !.input = policyFromFlags(task[c].cmd.flags, NoPolicy)])
  /\ UNCHANGED <<Chain, started, events>>

\* An existing policy is updated, a missing one created.
SwapPolicy(c) ==
  /\ At(c, "exists")
  /\ IF policy.version # 0 THEN Goes(c, [task[c] EXCEPT !.pc = "merge"])
     ELSE IF me(c) # FreezeAuthority THEN Ends(c, "error")
     ELSE Goes(c, [task[c] EXCEPT !.pc = "metadata", !.args = {InitArgs(c)}, !.creates = TRUE])
  /\ UNCHANGED <<Chain, started, events>>

\* A read that fails counts as a mint without metadata.
tokenAclMetadataIxs(c) ==
  LET rename == metadata = "other"
  IN  /\ At(c, "metadata")
      /\ \/ /\ IF rename /\ me(c) # MetadataAuthority THEN Ends(c, "error")
               ELSE Goes(c, [task[c] EXCEPT !.pc = "send", !.rename = rename])
            /\ events' = events
         \/ /\ events < MaxEvents /\ events' = events + 1
            /\ Goes(c, [task[c] EXCEPT !.pc = "send", !.unread = TRUE])
      /\ UNCHANGED <<Chain, started>>

\* The program's checks on a policy instruction.
Takes(c) ==
  IF task[c].creates THEN policy.version = 0 /\ me(c) = FreezeAuthority
                     ELSE policy.version # 0 /\ me(c) = policy.authority

\* The signatures of a swap: its policy instruction's, and the freeze
\* authority's for what the reads found to do in Token ACL.
SwapSigned(c) ==
  (ConfigOf(c).gating # "thawgate" \/ ~ConfigOf(c).thaw \/ ~ConfigOf(c).freeze) => me(c) = FreezeAuthority

\* What others read of the policy is old now.
Outdates(c, answer) ==
  task' = [d \in Clients |->
             IF d = c THEN [IdleTask EXCEPT !.cmd = task[c].cmd, !.answer = answer]
                      ELSE [task[d] EXCEPT !.fresh = FALSE]]

LandPolicy(c) ==
  LET args == Or(task[c].args, policy)
  IN  /\ At(c, "send") /\ Takes(c)
      /\ \/ task[c].cmd.name \in {"policy init", "policy update"}
            /\ (IF task[c].creates THEN InitPolicy(me(c), args) ELSE UpdatePolicy(me(c), args))
         \/ task[c].cmd.name = "setup-extra-metas" /\ SetupExtraMetas(me(c))
      /\ Outdates(c, "done")
      /\ UNCHANGED <<gating, metadata, blind, started, events>>

\* Mutant: the gate is switched although the policy instruction failed.
SwapWithoutPolicy(c) ==
  /\ At(c, "send") /\ task[c].cmd.name = "swap-gate"
  /\ gating' = "thawgate" /\ enabled' = [thaw |-> TRUE, freeze |-> TRUE]
  /\ Outdates(c, "done")
  /\ UNCHANGED <<policy, metas, metadata, blind, world, tokens, now, by, started, events>>

\* The policy, set_gating_program, the toggles and the metadata field, in one
\* transaction; what the reads found as it should be is left out.
SwapLands(c) ==
  LET args == Or(task[c].args, policy)
      seen == ConfigOf(c)
  IN  /\ At(c, "send") /\ task[c].cmd.name = "swap-gate"
      /\ Takes(c) /\ ValidArgs(args) /\ SwapSigned(c)
      /\ policy' = Apply(args) /\ WriteBoth(policy')
      /\ gating' = IF seen.gating # "thawgate" THEN "thawgate" ELSE gating
      /\ enabled' = IF seen.thaw /\ seen.freeze THEN enabled ELSE [thaw |-> TRUE, freeze |-> TRUE]
      /\ metadata' = IF task[c].rename THEN "thawgate" ELSE metadata
      /\ blind' = (blind \/ task[c].unread)
      /\ Outdates(c, "done")
      /\ UNCHANGED <<world, tokens, now, by, started, events>>

PolicyCommands == {"policy init", "policy update", "setup-extra-metas", "swap-gate"}

PolicyRefused(c) ==
  LET args == Or(task[c].args, policy)
  IN  /\ At(c, "send") /\ task[c].cmd.name \in PolicyCommands
      /\ ~(Takes(c) /\ ValidArgs(args) /\ SwapSigned(c))
      /\ Ends(c, "error")
      /\ UNCHANGED <<Chain, started, events>>

-----------------------------------------------------------------------------
(* Permissionless thaws and freezes.                                       *)

\* permissionlessIx reads the mint's list for the gate that `config` names.
Lists(op, config) ==
  IF config.gating = "other" THEN {[op |-> op, gate |-> "other", metas |-> <<>>]}
  ELSE LET l == IF op = "Thaw" THEN metas.thaw ELSE metas.freeze
       IN  IF l = <<>> THEN {} ELSE {[op |-> op, gate |-> "thawgate", metas |-> l]}

\* The accounts a list puts into an instruction for one owner.
Accounted(list) ==
  {<<list[i].kind, IF list[i].at = None THEN list[i].key
                   ELSE MetaAt(list, IF list[i].kind = "attestation" THEN list[i].at + 1 ELSE list[i].at).key>> :
     i \in DOMAIN list}

\* The token account as the transaction finds it: create-ATA comes first.
Found(c) ==
  LET t == tokens[task[c].cmd.account]
  IN  IF t.state = "none" THEN [t EXCEPT !.state = "frozen", !.immutable_owner = TRUE] ELSE t

\* What the logs say of a thaw or freeze that runs now (classifyGateLogs).
\* idempotent: Token ACL answers on an account already there without asking.
\* Another gate's decision is anyone's guess.
Outcomes(c, ix, idempotent) ==
  LET t     == Found(c)
      list  == IF ix.op = "Thaw" THEN metas.thaw ELSE metas.freeze
      there == t.state = (IF ix.op = "Thaw" THEN "initialized" ELSE "frozen")
      on    == IF ix.op = "Thaw" THEN enabled.thaw ELSE enabled.freeze
  IN  IF there THEN {IF idempotent THEN "skipped" ELSE "failed"}
      ELSE IF ~on \/ gating # ix.gate THEN {"failed"}
      ELSE IF gating = "other" THEN {"allowed", "denied", "failed"}
      ELSE IF ~(Accounted(list) \subseteq Accounted(ix.metas)) THEN {"failed"}
      ELSE {IF Decide(ix.op, policy, list, world, t.owner, t.owner \in Pdas, t.immutable_owner, now).allow
              THEN "allowed" ELSE "denied"}

Ix(c) == CHOOSE ix \in task[c].list : TRUE

\* What a client says of the status explain gave it: cli unlock looks first at
\* the account as explain read it, before the simulation.
Reported(c, op, status) ==
  IF task[c].cmd.name = "unlock" /\ op = "Freeze" THEN "already_unlocked" ELSE status

\* explain reads the config and the account; freezeIfInvalid the account.
ReadAccount(c) ==
  LET state == tokens[task[c].cmd.account].state
      op    == IF state = "initialized" THEN "Freeze" ELSE "Thaw"
      on    == IF op = "Freeze" THEN enabled.freeze ELSE enabled.thaw
  IN  /\ At(c, "account")
      /\ IF task[c].cmd.name = "freeze-if-invalid"
           THEN IF state = "none" THEN Ends(c, "error")
                ELSE IF state = "frozen" THEN Ends(c, "already frozen")
                ELSE Goes(c, [task[c] EXCEPT !.pc = "resolve"])
           ELSE IF ~on THEN Ends(c, Reported(c, op, "permissionless_disabled"))
                ELSE Goes(c, [task[c] EXCEPT !.pc = "resolve", !.config = {Config}, !.op = op])
      /\ UNCHANGED <<Chain, started, events>>

\* Mutant: explain simulates the idempotent instruction.
IdempotentAlways(c) == TRUE

\* explain simulates the plain instruction.
Idempotent(c) == task[c].cmd.name = "freeze-if-invalid"

Resolve(c) ==
  LET lists == Lists(task[c].op, ConfigOf(c))
  IN  /\ At(c, "resolve")
      /\ IF lists = {} THEN Ends(c, "error")
         ELSE Goes(c, [task[c] EXCEPT !.pc = "simulate", !.list = lists, !.config = {}])
      /\ UNCHANGED <<Chain, started, events>>

\* explain's status for what the simulation said.
Status(op, outcome) ==
  IF outcome = "failed" THEN "error"
  ELSE IF op = "Thaw" THEN IF outcome = "denied" THEN "denied" ELSE "can_unlock"
  ELSE IF outcome = "allowed" THEN "freezable" ELSE "compliant"

Simulate(c) ==
  /\ At(c, "simulate")
  /\ \E outcome \in Outcomes(c, Ix(c), Idempotent(c)) :
       LET status == Status(Ix(c).op, outcome)
       IN  CASE task[c].cmd.name = "freeze-if-invalid" ->
                  CASE outcome = "skipped" -> Ends(c, "already frozen")
                    [] outcome = "allowed" -> Goes(c, [task[c] EXCEPT !.pc = "send"])
                    [] OTHER -> Ends(c, "not frozen")
             [] task[c].cmd.name = "unlock" /\ status = "can_unlock" ->
                  Goes(c, [task[c] EXCEPT !.pc = "build", !.list = {}, !.answer = status])
             [] OTHER -> Ends(c, Reported(c, Ix(c).op, status))
  /\ UNCHANGED <<Chain, started, events>>

\* createAtaAndThaw resolves the list anew.
createAtaAndThaw(c) ==
  LET lists == Lists("Thaw", Config)
  IN  /\ At(c, "build")
      /\ IF lists = {} THEN Ends(c, "error")
         ELSE Goes(c, [task[c] EXCEPT !.pc = "send", !.list = lists, !.answer = "none"])
      /\ UNCHANGED <<Chain, started, events>>

HolderCommands == {"unlock", "freeze-if-invalid"}

\* The idempotent thaw or freeze that was built lands, or is refused.
Lands(c) ==
  LET a == task[c].cmd.account
  IN  /\ At(c, "send") /\ task[c].cmd.name \in HolderCommands
      /\ \E outcome \in Outcomes(c, Ix(c), TRUE) :
           IF outcome \in {"allowed", "skipped"}
             THEN /\ tokens' = [tokens EXCEPT ![a] =
                       [Found(c) EXCEPT !.state = IF Ix(c).op = "Thaw" THEN "initialized" ELSE "frozen"]]
                  /\ by' = IF outcome = "skipped" THEN by
                           ELSE [by EXCEPT ![a] = IF gating = "other" THEN "issuer" ELSE "gate"]
                  /\ Ends(c, IF Ix(c).op = "Thaw" THEN "unlocked" ELSE "frozen")
             ELSE Ends(c, "error") /\ UNCHANGED <<tokens, by>>
      /\ UNCHANGED <<policy, metas, enabled, world, now, gating, metadata, blind, started, events>>

-----------------------------------------------------------------------------
(* cli sas attest and sas revoke.                                          *)

Credential(c) == Or(task[c].cmd.flags.credential, NoKey)
Holder(c)     == tokens[task[c].cmd.account].owner

clusterTime(c) ==
  /\ At(c, "clock")
  /\ Goes(c, [task[c] EXCEPT !.pc = "send", !.cmd.expiry = IF @ = 0 THEN 0 ELSE @ + now])
  /\ UNCHANGED <<Chain, started, events>>

Attest(c) ==
  /\ At(c, "send")
  /\ \/ /\ task[c].cmd.name = "sas attest"
        /\ CreateAttestation(Credential(c), Holder(c), task[c].cmd.expiry, Or(task[c].cmd.flags.minKyc, 0))
     \/ task[c].cmd.name = "sas revoke" /\ CloseAttestation(Credential(c), Holder(c))
  /\ Ends(c, "done")
  /\ UNCHANGED <<gating, metadata, blind, started, events>>

AttestRefused(c) ==
  LET attested == world.attestation[Credential(c)][Holder(c)].exists
  IN  /\ At(c, "send")
      /\ \/ task[c].cmd.name = "sas attest" /\ (attested \/ task[c].cmd.expiry \in 1 .. now - 1)
         \/ task[c].cmd.name = "sas revoke" /\ ~attested
      /\ Ends(c, "error")
      /\ UNCHANGED <<Chain, started, events>>

-----------------------------------------------------------------------------
\* What others do meanwhile.
Event ==
  /\ events < MaxEvents /\ events' = events + 1
  /\ \/ \E w \in Wallets, cell \in {"active", "inactive"} : SetRegistry("blacklist", SSS_TOKEN, w, cell)
     \/ \E a \in Accounts, s \in {"frozen", "initialized"} : Permissioned(a, s)
     \/ \E thaw, freeze \in BOOLEAN : TogglePermissionless(thaw, freeze)
     \/ Tick
  /\ UNCHANGED <<gating, metadata, blind, task, started>>

ClientStep(c) ==
  \/ ReadForFlags(c) \/ updatePolicy(c) \/ setupExtraMetas(c) \/ initPolicy(c)
  \/ swapGate(c) \/ SwapPolicy(c) \/ tokenAclMetadataIxs(c)
  \/ LandPolicy(c) \/ SwapLands(c) \/ PolicyRefused(c)
  \/ ReadAccount(c) \/ Resolve(c) \/ Simulate(c) \/ createAtaAndThaw(c) \/ Lands(c)
  \/ clusterTime(c) \/ Attest(c) \/ AttestRefused(c)

ClientNext ==
  \/ \E c \in Clients : (\E cmd \in Menu[c] : Start(c, cmd)) \/ ClientStep(c)
  \/ Event

ClientSpec == ClientInit /\ [][ClientNext]_all_vars

-----------------------------------------------------------------------------
(* Properties.                                                             *)

\* An update changes the fields that were given and no other, unless another
\* policy landed between its reads and its landing (cli/gate.ts: "Change the
\* policy (only the flags given)"; client.ts updatePolicy).
UpdateKeepsTheRest ==
  [][\A c \in Clients :
       LET f == task[c].cmd.flags
       IN  task[c].pc = "send" /\ task[c].cmd.name = "policy update" /\ task[c].fresh
             /\ task'[c].answer = "done" =>
           /\ policy'.authority = policy.authority /\ policy'.issuer_program = policy.issuer_program
           /\ policy'.check_blacklist = Or(f.blacklist, policy.check_blacklist)
           /\ policy'.allowlist_mode = Or(f.allowlist, policy.allowlist_mode)
           /\ f.credential = {} /\ ~f.noSas =>
                policy'.require_sas = policy.require_sas /\ policy'.sas = policy.sas
           /\ f.minKyc = {} /\ ~f.noSas => policy'.min_kyc_level = policy.min_kyc_level]_all_vars

\* What a command found by simulating or sending is so when it says it, however
\* old the account, the config or the list it read before: a simulation under
\* ThawGate that says an account can be unlocked, or frozen, or neither, is
\* right about the written policy, and an account reported as unlocked or
\* frozen by a transaction or a simulation is (client.ts explain,
\* freezeIfInvalid; cli unlock).  Not covered: cli unlock's already_unlocked,
\* which repeats the account as explain read it before a simulation whose result
\* it ignores, and is false of an account frozen meanwhile.
AnswersAreTrue ==
  [][\A c \in Clients :
       LET a == task[c].cmd.account
           t == tokens[a]
           answer == task'[c].answer
           ata == t.state = "none" \/ t.immutable_owner
       IN  task'[c].answer # task[c].answer /\ task'[c].cmd = task[c].cmd /\ gating = "thawgate" =>
           /\ answer = "can_unlock" =>
                t.state # "initialized" /\ enabled.thaw /\ Verdict(a) = "clear" /\ ata
           /\ answer = "denied" => t.state # "initialized" /\ (Verdict(a) # "clear" \/ ~ata)
           /\ answer = "freezable" => t.state = "initialized" /\ enabled.freeze /\ Verdict(a) = "flagged"
           /\ answer = "compliant" => t.state = "initialized" /\ Verdict(a) # "flagged"
           /\ answer \in {"frozen", "already frozen"} => tokens'[a].state = "frozen"
           /\ answer = "unlocked" => tokens'[a].state = "initialized"]_all_vars

\* The mint is at ThawGate only with a policy and its lists, and with no
\* metadata field that leads its clients to another gate (client.ts swapGate:
\* "Move an existing Token ACL mint (e.g. on the ABL gate) to ThawGate in one
\* transaction"), unless the read of that field failed in a swap that landed:
\* such a swap goes through and leaves the field alone.
SwapIsWhole ==
  gating = "thawgate" =>
    policy.version = 1 /\ ListsMatchPolicy /\ (metadata = "other" => blind)
=============================================================================
