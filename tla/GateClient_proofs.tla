------------------------- MODULE GateClient_proofs -------------------------
(* Theorems about the gate's clients, for any number of them and any        *)
(* commands their command lines take.                                       *)
EXTENDS GateClient, TokenAclGate_proofs

-----------------------------------------------------------------------------
(* Types of what a client keeps between its reads and its transaction.     *)

SasInputs ==
  {s \in [on: BOOLEAN, key: SasConfigs \cup {NoKey}, level: Levels \cup {0}] :
     ~s.on => s.key = NoKey /\ s.level = 0}

Inputs ==
  [checkBlacklist: Option(BOOLEAN), allowlistMode: Option(AllowlistModes),
   sas: Option(SasInputs), issuerProgram: Option(Issuers \cup {NoKey}),
   authority: Option(Keys \cup {NoKey})]

ArgTypes ==
  {args \in [authority: Keys \cup {NoKey}, issuer_program: Issuers \cup {NoKey},
             check_blacklist: BOOLEAN, allowlist_mode: AllowlistModes,
             require_sas: BOOLEAN, sas: SasConfigs \cup {NoKey},
             min_kyc_level: Levels \cup {0}] : Plain(args)}

Gates     == {"thawgate", "other"}
Configs   == [gating: Gates, thaw: BOOLEAN, freeze: BOOLEAN]
MetaLists == {<<>>} \cup {ExtraMetas(p) : p \in Policies}
Lookups   == [op: Ops, gate: Gates, metas: MetaLists]


Pcs == {"idle", "flags", "policy", "config", "exists", "merge", "metadata", "account",
        "resolve", "simulate", "build", "clock", "send"}

Answers == {"none", "error", "done", "permissionless_disabled", "can_unlock", "denied",
            "freezable", "compliant", "frozen", "already frozen", "not frozen", "unlocked",
            "already_unlocked"}

Tasks ==
  [cmd: Commands \cup {NoCommand}, pc: Pcs, answer: Answers,
   input: Inputs, args: Option(ArgTypes), creates: BOOLEAN, fresh: BOOLEAN,
   config: Option(Configs), rename: BOOLEAN, unread: BOOLEAN,
   op: Ops, list: Option(Lookups)]

-----------------------------------------------------------------------------
(* The invariant.                                                          *)

\* The mint: the policy and its lists, and what names the mint's gate.
MintHolds ==
  /\ TypeOK
  /\ policy = NoPolicy \/ policy.version = 1
  /\ metas \in [thaw: MetaLists, freeze: MetaLists]
  /\ ListsMatchPolicy
  /\ Plain(policy)
  /\ gating \in Gates /\ metadata \in Gates \cup {"none"}
  /\ gating = "thawgate" => policy.version = 1 /\ (metadata = "other" => blind)

\* Which commands pass through which step.
OnItsWay(t) ==
  /\ t.pc # "idle" => t.cmd \in Commands
  /\ t.pc = "flags" => t.cmd.name = "policy update"
  /\ t.pc = "policy" => t.cmd.name = "setup-extra-metas"
  /\ t.pc = "config" => t.cmd.name \in {"policy init", "swap-gate"}
  /\ t.pc \in {"exists", "metadata"} => t.cmd.name = "swap-gate"
  /\ t.pc = "merge" => t.cmd.name \in {"policy update", "swap-gate"}
  /\ t.pc \in {"account", "resolve", "simulate"} =>
       t.cmd.name \in {"explain", "unlock", "freeze-if-invalid"}
  /\ t.pc = "build" => t.cmd.name = "unlock"
  /\ t.pc = "clock" => t.cmd.name = "sas attest"
  /\ t.creates => t.cmd.name \in {"policy init", "swap-gate"}

\* A command under way has not answered, but for a check that goes on to the
\* transaction.
Unanswered(t) == t.pc \notin {"idle", "build"} => t.answer = "none"

\* A swap that left the metadata field alone did not need to write it, or
\* could not read it: no transaction leads the field back to another gate.
Renames(t) ==
  t.pc = "send" /\ t.cmd.name = "swap-gate" /\ metadata = "other" => t.rename \/ t.unread

\* While no other policy landed, an update holds what its flags say of the
\* stored policy.
Fresh(t) ==
  t.cmd.name = "policy update" /\ t.fresh =>
    /\ t.pc = "merge" => ~BadFlags(t.cmd.flags, policy)
                         /\ t.input = policyFromFlags(t.cmd.flags, policy)
    /\ t.pc = "send" =>
         /\ ~BadFlags(t.cmd.flags, policy)
         /\ policy.version # 0
         /\ t.args = {toPolicyArgs(Merged(policy, policyFromFlags(t.cmd.flags, policy)), policy.authority)}

\* What is simulated is what was resolved for it; a freeze has an account.
Looked(t) ==
  /\ t.pc = "simulate" => t.list # {} /\ \A ix \in t.list : ix.op = t.op
  /\ t.pc = "send" /\ t.cmd.name \in HolderCommands => t.list # {}
  /\ t.pc # "idle" /\ t.cmd.name = "freeze-if-invalid" =>
       /\ t.op = "Freeze"
       /\ t.pc # "account" => tokens[t.cmd.account].state # "none"

OneTask(t) ==
  /\ t \in Tasks
  /\ OnItsWay(t) /\ Unanswered(t) /\ Renames(t) /\ Fresh(t) /\ Looked(t)

TasksHold ==
  /\ task \in [Clients -> Tasks]
  /\ \A c \in Clients : OneTask(task[c])

ClientInv == MintHolds /\ TasksHold

-----------------------------------------------------------------------------
(* Operators and lemmas.                                                   *)

\* An option that is given counts, one that is not gives way to the default.
LEMMA OrGiven == \A option, v, default : option = {v} => Or(option, default) = v
BY DEF Or

\* The same for a field that is left out.
LEMMA OrNone == \A option, default : option = {} => Or(option, default) = default
BY DEF Or

\* An option with a default of its type has that type.
LEMMA OrTyped ==
  ASSUME NEW S, NEW option \in Option(S), NEW default \in S
  PROVE  Or(option, default) \in S
<1>1. CASE option = {}
  BY <1>1, OrNone
<1>2. ASSUME NEW v \in S, option = {v} PROVE Or(option, default) \in S
  BY <1>2, OrGiven
<1> QED BY <1>1, <1>2 DEF Option

\* What the flags say of a stored policy is an input for its update.
LEMMA InputTyped ==
  ASSUME NEW f \in Flags, NEW p \in Policies
  PROVE  policyFromFlags(f, p) \in Inputs
<1> DEFINE level == IF p.require_sas THEN p.min_kyc_level ELSE 0
           sas == IF f.noSas THEN {SasOff}
                  ELSE IF SasGiven(f) THEN {Sas(Or(f.credential, p.sas), Or(f.minKyc, level))}
                  ELSE {}
<1>1. level \in Levels \cup {0} /\ p.sas \in SasConfigs \cup {NoKey}
  BY DEF Policies
<1>2. /\ Or(f.credential, p.sas) \in SasConfigs \cup {NoKey}
      /\ Or(f.minKyc, level) \in Levels \cup {0}
  <2>1. f.credential \in Option(SasConfigs \cup {NoKey}) /\ f.minKyc \in Option(Levels \cup {0})
    BY DEF Flags, Option
  <2> HIDE DEF level
  <2> QED BY <2>1, <1>1, OrTyped
<1>3. sas \in Option(SasInputs)
  <2>1. SasOff \in SasInputs
    BY DEF SasOff, SasInputs
  <2>2. Sas(Or(f.credential, p.sas), Or(f.minKyc, level)) \in SasInputs
    BY <1>2 DEF Sas, SasInputs
  <2> HIDE DEF level
  <2> QED BY <2>1, <2>2 DEF Option
<1>4. policyFromFlags(f, p) = [checkBlacklist |-> f.blacklist, allowlistMode |-> f.allowlist,
                               sas |-> sas, issuerProgram |-> {}, authority |-> f.authority]
  BY DEF policyFromFlags
<1>5. /\ f.blacklist \in Option(BOOLEAN) /\ f.allowlist \in Option(AllowlistModes)
      /\ f.authority \in Option(Keys \cup {NoKey})
  BY DEF Flags, Option
<1> HIDE DEF sas
<1> QED BY <1>3, <1>4, <1>5 DEF Inputs, Option

\* The fields of a merge, one by one.
LEMMA MergedFields ==
  ASSUME NEW p, NEW changes
  PROVE  Merged(p, changes)
           = [checkBlacklist |-> IF changes.checkBlacklist # {} THEN changes.checkBlacklist
                                 ELSE {p.check_blacklist},
              allowlistMode |-> IF changes.allowlistMode # {} THEN changes.allowlistMode
                                ELSE {p.allowlist_mode},
              sas |-> IF changes.sas # {} THEN changes.sas
                      ELSE IF p.require_sas THEN {Sas(p.sas, p.min_kyc_level)} ELSE {SasOff},
              issuerProgram |-> IF changes.issuerProgram # {} THEN changes.issuerProgram
                                ELSE {p.issuer_program},
              authority |-> IF changes.authority # {} THEN changes.authority ELSE {p.authority}]
<1>1. DOMAIN NoInput = {"checkBlacklist", "allowlistMode", "sas", "issuerProgram", "authority"}
  BY DEF NoInput
<1> QED BY <1>1 DEF Merged, policyToInput

\* Merged into a stored policy, it is an input again.
LEMMA MergedTyped ==
  ASSUME NEW p \in Policies, NEW changes \in Inputs
  PROVE  Merged(p, changes) \in Inputs
<1>1. /\ {p.check_blacklist} \in Option(BOOLEAN)
      /\ {p.allowlist_mode} \in Option(AllowlistModes)
      /\ {p.issuer_program} \in Option(Issuers \cup {NoKey})
      /\ {p.authority} \in Option(Keys \cup {NoKey})
  BY DEF Policies, Option
<1>2. {SasOff} \in Option(SasInputs) /\ {Sas(p.sas, p.min_kyc_level)} \in Option(SasInputs)
  <2>1. SasOff \in SasInputs
    BY DEF SasOff, SasInputs
  <2>2. Sas(p.sas, p.min_kyc_level) \in SasInputs
    BY DEF Policies, Sas, SasInputs
  <2> QED BY <2>1, <2>2 DEF Option
<1> QED BY <1>1, <1>2, MergedFields DEF Inputs

\* The arguments built from an input are well typed and plain.
LEMMA ArgsTyped ==
  ASSUME NEW p \in Inputs, NEW authority \in Keys \cup {NoKey}
  PROVE  toPolicyArgs(p, authority) \in ArgTypes
<1> DEFINE listsOn == Or(p.checkBlacklist, FALSE) \/ Or(p.allowlistMode, "Off") # "Off"
           issuer == IF listsOn THEN SSS_TOKEN ELSE NoKey
           sas == Or(p.sas, SasOff)
<1>1. Or(p.checkBlacklist, FALSE) \in BOOLEAN
  BY OrTyped DEF Inputs
<1>2. Or(p.allowlistMode, "Off") \in AllowlistModes
  BY OrTyped DEF Inputs, AllowlistModes
<1>3. sas \in SasInputs
  <2>1. SasOff \in SasInputs
    BY DEF SasOff, SasInputs
  <2> QED BY <2>1, OrTyped DEF Inputs
<1>4. Or(p.issuerProgram, issuer) \in Issuers \cup {NoKey}
  <2>1. issuer \in Issuers \cup {NoKey}
    BY GateClientAssumption DEF GateClientAssumption
  <2> HIDE DEF issuer
  <2> QED BY <2>1, OrTyped DEF Inputs
<1>5. Or(p.authority, authority) \in Keys \cup {NoKey}
  BY OrTyped DEF Inputs
<1>6. toPolicyArgs(p, authority)
        = [authority |-> Or(p.authority, authority), issuer_program |-> Or(p.issuerProgram, issuer),
           check_blacklist |-> Or(p.checkBlacklist, FALSE),
           allowlist_mode |-> Or(p.allowlistMode, "Off"),
           require_sas |-> sas.on, sas |-> sas.key, min_kyc_level |-> sas.level]
  BY DEF toPolicyArgs
<1> DEFINE blacklist == Or(p.checkBlacklist, FALSE)
           mode == Or(p.allowlistMode, "Off")
           program == Or(p.issuerProgram, issuer)
           admin == Or(p.authority, authority)
<1> HIDE DEF sas, issuer, listsOn
<1>7. /\ sas.on \in BOOLEAN /\ sas.key \in SasConfigs \cup {NoKey} /\ sas.level \in Levels \cup {0}
      /\ ~sas.on => sas.key = NoKey /\ sas.level = 0
  BY <1>3 DEF SasInputs
<1>8. Plain(toPolicyArgs(p, authority))
  BY <1>6, <1>7 DEF Plain
<1> DEFINE All == [authority: Keys \cup {NoKey}, issuer_program: Issuers \cup {NoKey},
                   check_blacklist: BOOLEAN, allowlist_mode: AllowlistModes,
                   require_sas: BOOLEAN, sas: SasConfigs \cup {NoKey},
                   min_kyc_level: Levels \cup {0}]
<1>9. toPolicyArgs(p, authority) \in All
  <2>1. \A a \in Keys \cup {NoKey}, i \in Issuers \cup {NoKey}, b \in BOOLEAN,
           m \in AllowlistModes, r \in BOOLEAN, k \in SasConfigs \cup {NoKey},
           l \in Levels \cup {0} :
          [authority |-> a, issuer_program |-> i, check_blacklist |-> b, allowlist_mode |-> m,
           require_sas |-> r, sas |-> k, min_kyc_level |-> l] \in All
    OBVIOUS
  <2>2. /\ blacklist \in BOOLEAN /\ mode \in AllowlistModes
        /\ program \in Issuers \cup {NoKey} /\ admin \in Keys \cup {NoKey}
    BY <1>1, <1>2, <1>4, <1>5
  <2>3. toPolicyArgs(p, authority)
          = [authority |-> admin, issuer_program |-> program, check_blacklist |-> blacklist,
             allowlist_mode |-> mode, require_sas |-> sas.on, sas |-> sas.key,
             min_kyc_level |-> sas.level]
    BY <1>6
  <2> HIDE DEF All, blacklist, mode, program, admin
  <2> QED BY <2>1, <2>2, <2>3, <1>7
<1> QED BY <1>8, <1>9 DEF ArgTypes

\* A policy instruction stores a plain policy, whatever it was given.
LEMMA ApplyTyped ==
  ASSUME NEW args, args \in ArgTypes \/ (args \in Policies /\ Plain(args))
  PROVE  /\ Apply(args) \in Policies /\ Plain(Apply(args))
         /\ Apply(args).version = 1
         /\ ExtraMetas(Apply(args)) \in MetaLists
         /\ ValidArgs(args) => ValidArgs(Apply(args))
<1>1. /\ args.authority \in Keys \cup {NoKey} /\ args.issuer_program \in Issuers \cup {NoKey}
      /\ args.check_blacklist \in BOOLEAN /\ args.allowlist_mode \in AllowlistModes
      /\ args.require_sas \in BOOLEAN /\ args.sas \in SasConfigs \cup {NoKey}
      /\ args.min_kyc_level \in Levels \cup {0}
      /\ Plain(args)
  BY DEF ArgTypes, Policies
<1>2. Apply(args) \in Policies
  BY <1>1 DEF Apply, Policies
<1> QED BY <1>1, <1>2 DEF Apply, Plain, ValidArgs, MetaLists

-----------------------------------------------------------------------------
(* Frames.                                                                 *)

\* What nobody writes stays as it should be.
LEMMA MintKept ==
  ASSUME MintHolds, UNCHANGED Chain
  PROVE  MintHolds'
BY DEF MintHolds, Chain, vars, TypeOK, ListsMatchPolicy

\* A policy instruction, alone or within a swap, leaves the mint as it should
\* be.
LEMMA MintWritten ==
  ASSUME MintHolds, NEW args, args \in ArgTypes \/ (args \in Policies /\ Plain(args)),
         ValidArgs(args), policy' = Apply(args), WriteBoth(policy'),
         enabled' \in [thaw: BOOLEAN, freeze: BOOLEAN],
         gating' \in Gates, metadata' \in Gates \cup {"none"},
         gating' = "thawgate" /\ metadata' = "other" => blind',
         UNCHANGED <<world, tokens, now, by>>
  PROVE  MintHolds'
<1>1. /\ policy' \in Policies /\ Plain(policy') /\ policy'.version = 1
      /\ ExtraMetas(policy') \in MetaLists /\ ValidArgs(policy')
  BY ApplyTyped
<1>2. metas' = [thaw |-> ExtraMetas(policy'), freeze |-> ExtraMetas(policy')]
  BY DEF WriteBoth
<1>3. TypeOK'
  BY <1>1, <1>2 DEF MintHolds, TypeOK
<1>4. ListsMatchPolicy'
  BY <1>1, <1>2 DEF ListsMatchPolicy
<1> QED BY <1>1, <1>2, <1>3, <1>4 DEF MintHolds

\* A client's step is its own; where the policy changes, all others know that
\* what they read of it is old.
LEMMA OthersKeep ==
  ASSUME TasksHold, NEW c \in Clients, DOMAIN task' = Clients, task' = [d \in Clients |-> task'[d]],
         \A d \in Clients \ {c} : \/ task'[d] = task[d] /\ policy' = policy
                                  \/ task'[d] = [task[d] EXCEPT !.fresh = FALSE],
         metadata' = "other" => metadata = "other",
         \A a \in Accounts : tokens[a].state # "none" => tokens'[a].state # "none",
         OneTask(task[c])'
  PROVE  TasksHold'
<1>1. ASSUME NEW d \in Clients \ {c} PROVE OneTask(task[d])'
  <2>1. task[d] \in Tasks /\ OneTask(task[d])
    BY DEF TasksHold
  <2>2. task[d].cmd.name = "freeze-if-invalid" /\ task[d].pc # "idle" => task[d].cmd.account \in Accounts
    BY <2>1 DEF OneTask, OnItsWay, Commands
  <2>3. CASE task'[d] = task[d] /\ policy' = policy
    <3>1. task'[d] \in Tasks /\ OnItsWay(task[d])' /\ Unanswered(task[d])'
      BY <2>1, <2>3 DEF OneTask, OnItsWay, Unanswered
    <3>2. Renames(task[d])'
      BY <2>1, <2>3 DEF OneTask, Renames
    <3>3. Fresh(task[d])'
      BY <2>1, <2>3 DEF OneTask, Fresh
    <3>4. Looked(task[d])'
      BY <2>1, <2>2, <2>3 DEF OneTask, Looked
    <3> QED BY <3>1, <3>2, <3>3, <3>4 DEF OneTask
  <2>4. CASE task'[d] = [task[d] EXCEPT !.fresh = FALSE]
    <3>1. task'[d] \in Tasks
      BY <2>1, <2>4 DEF Tasks
    <3>2. /\ task'[d].cmd = task[d].cmd /\ task'[d].pc = task[d].pc
          /\ task'[d].answer = task[d].answer /\ task'[d].creates = task[d].creates
          /\ task'[d].rename = task[d].rename /\ task'[d].unread = task[d].unread
          /\ task'[d].list = task[d].list
          /\ task'[d].op = task[d].op /\ ~task'[d].fresh
      BY <2>1, <2>4 DEF Tasks
    <3>3. OnItsWay(task[d])' /\ Unanswered(task[d])'
      BY <2>1, <3>2 DEF OneTask, OnItsWay, Unanswered
    <3>4. Renames(task[d])' /\ Fresh(task[d])'
      BY <2>1, <3>2 DEF OneTask, Renames, Fresh
    <3>5. Looked(task[d])'
      BY <2>1, <2>2, <3>2 DEF OneTask, Looked
    <3> QED BY <3>1, <3>3, <3>4, <3>5 DEF OneTask
  <2> QED BY <2>3, <2>4
<1>2. \A d \in Clients : OneTask(task[d])'
  BY <1>1
<1>3. \A d \in Clients : task'[d] \in Tasks
  BY <1>2 DEF OneTask
<1> QED BY <1>2, <1>3 DEF TasksHold

\* A step that is nobody's leaves every task as it is.
LEMMA TasksKept ==
  ASSUME TasksHold, UNCHANGED <<policy, metadata, task>>,
         \A a \in Accounts : tokens[a].state # "none" => tokens'[a].state # "none"
  PROVE  TasksHold'
<1>1. ASSUME NEW c \in Clients PROVE OneTask(task[c])'
  <2>1. task[c] \in Tasks /\ OneTask(task[c]) /\ task'[c] = task[c]
    BY DEF TasksHold
  <2>2. task[c].pc # "idle" => task[c].cmd.account \in Accounts
    BY <2>1 DEF OneTask, OnItsWay, Commands
  <2>3. OnItsWay(task[c])' /\ Unanswered(task[c])'
    BY <2>1 DEF OneTask, OnItsWay, Unanswered
  <2>4. Renames(task[c])' /\ Fresh(task[c])'
    BY <2>1 DEF OneTask, Renames, Fresh
  <2>5. Looked(task[c])'
    BY <2>1, <2>2 DEF OneTask, Looked
  <2> QED BY <2>1, <2>3, <2>4, <2>5 DEF OneTask
<1> QED BY <1>1 DEF TasksHold

\* A step that moves one client on, and no policy.
LEMMA Moved ==
  ASSUME TasksHold, NEW c \in Clients, NEW next, Goes(c, next), policy' = policy
  PROVE  /\ task'[c] = next
         /\ DOMAIN task' = Clients /\ task' = [d \in Clients |-> task'[d]]
         /\ \A d \in Clients \ {c} : task'[d] = task[d] /\ policy' = policy
BY DEF TasksHold, Goes

\* A command that ends is idle, with its answer.
LEMMA Ended ==
  ASSUME TasksHold, NEW c \in Clients, NEW answer \in Answers,
         task'[c] = [IdleTask EXCEPT !.cmd = task[c].cmd, !.answer = answer]
  PROVE  OneTask(task[c])'
<1>1. task[c].cmd \in Commands \cup {NoCommand}
  BY DEF TasksHold, Tasks
<1>2. NoInput \in Inputs
  BY DEF NoInput, Inputs, Option
<1>3. /\ task'[c].cmd = task[c].cmd /\ task'[c].pc = "idle" /\ task'[c].answer = answer
      /\ ~task'[c].fresh /\ ~task'[c].creates
  BY DEF IdleTask
<1>4. task'[c] \in Tasks
  BY <1>1, <1>2 DEF IdleTask, Tasks, Option, Pcs, Ops
<1> QED BY <1>3, <1>4 DEF OneTask, OnItsWay, Unanswered, Renames, Fresh, Looked

\* So does a step that ends one.
LEMMA EndsHold ==
  ASSUME MintHolds, TasksHold, NEW c \in Clients, NEW answer \in Answers, Ends(c, answer),
         UNCHANGED Chain
  PROVE  MintHolds' /\ TasksHold'
<1>1. /\ task'[c] = [IdleTask EXCEPT !.cmd = task[c].cmd, !.answer = answer]
      /\ DOMAIN task' = Clients /\ task' = [d \in Clients |-> task'[d]]
      /\ \A d \in Clients \ {c} : task'[d] = task[d]
  BY DEF Ends, TasksHold
<1>2. OneTask(task[c])'
  BY <1>1, Ended
<1>3. UNCHANGED <<policy, metadata, tokens>>
  BY DEF Chain, vars
<1>4. TasksHold'
  BY <1>1, <1>2, <1>3, OthersKeep
<1> QED BY <1>4, MintKept

\* And a step that reads and goes on.
LEMMA GoesHold ==
  ASSUME MintHolds, TasksHold, NEW c \in Clients, NEW next, Goes(c, next), UNCHANGED Chain,
         OneTask(task[c])'
  PROVE  MintHolds' /\ TasksHold'
<1>1. UNCHANGED <<policy, metadata, tokens>>
  BY DEF Chain, vars
<1>2. /\ DOMAIN task' = Clients /\ task' = [d \in Clients |-> task'[d]]
      /\ \A d \in Clients \ {c} : task'[d] = task[d] /\ policy' = policy
  BY <1>1, Moved
<1>3. TasksHold'
  BY <1>1, <1>2, OthersKeep
<1> QED BY <1>3, MintKept

-----------------------------------------------------------------------------
(* The steps of a client.                                                  *)

\* A command starts with its flags and nothing read.
LEMMA StartHolds ==
  ASSUME ClientInv, NEW c \in Clients, NEW cmd \in Menu[c], Start(c, cmd)
  PROVE  ClientInv'
<1> DEFINE next == [IdleTask EXCEPT !.cmd = cmd, !.pc = FirstRead(cmd)]
<1>1. cmd \in Commands /\ cmd.name \in CommandNames
  BY GateClientAssumption DEF GateClientAssumption, Commands
<1>2. /\ FirstRead(cmd) \in Pcs \ {"idle", "exists", "merge", "metadata", "resolve", "simulate", "build"}
      /\ FirstRead(cmd) = "flags" => cmd.name = "policy update"
      /\ FirstRead(cmd) = "policy" => cmd.name = "setup-extra-metas"
      /\ FirstRead(cmd) = "config" => cmd.name \in {"policy init", "swap-gate"}
      /\ FirstRead(cmd) = "account" => cmd.name \in {"explain", "unlock", "freeze-if-invalid"}
      /\ FirstRead(cmd) = "clock" => cmd.name = "sas attest"
      /\ FirstRead(cmd) = "send" => cmd.name = "sas revoke"
      /\ cmd.name = "freeze-if-invalid" => FirstRead(cmd) = "account"
  BY <1>1 DEF FirstRead, CommandNames, Pcs
<1>3. Goes(c, next) /\ UNCHANGED Chain
  BY DEF Start
<1>4. task'[c] = next
  BY <1>3 DEF Goes, ClientInv, TasksHold
<1>5. /\ task'[c].cmd = cmd /\ task'[c].pc = FirstRead(cmd) /\ task'[c].answer = "none"
      /\ ~task'[c].fresh /\ ~task'[c].creates /\ task'[c].op = "Freeze"
  BY <1>4 DEF IdleTask
<1>6. task'[c] \in Tasks
  <2>1. NoInput \in Inputs
    BY DEF NoInput, Inputs, Option
  <2> QED BY <1>1, <1>2, <1>4, <2>1 DEF IdleTask, Tasks, Option, Ops, Answers
<1>7. OneTask(task[c])'
  BY <1>1, <1>2, <1>5, <1>6 DEF OneTask, OnItsWay, Unanswered, Renames, Fresh, Looked, HolderCommands
<1> HIDE DEF next
<1> QED BY <1>3, <1>7, GoesHold DEF ClientInv

\* What is so of a task that goes on to the next step of its command.
LEMMA ReadForFlagsHolds ==
  ASSUME ClientInv, NEW c \in Clients, ReadForFlags(c)
  PROVE  ClientInv'
<1> DEFINE t == task[c]
           f == t.cmd.flags
           input == policyFromFlags(f, policy)
           next == [t EXCEPT !.pc = "merge", !.input = input, !.fresh = TRUE]
<1>1. t \in Tasks /\ OneTask(t) /\ t.pc = "flags" /\ t.cmd \in Commands /\ t.cmd.name = "policy update"
  BY DEF ClientInv, TasksHold, ReadForFlags, At, OneTask, OnItsWay
<1>2. f \in Flags /\ policy \in Policies
  BY <1>1 DEF Commands, ClientInv, MintHolds, TypeOK
<1>3. CASE Ends(c, "error")
  BY <1>3, EndsHold DEF ReadForFlags, ClientInv, Answers
<1>4. ASSUME ~BadFlags(f, policy), Goes(c, next) PROVE ClientInv'
  <2>1. task'[c] = next /\ UNCHANGED Chain
    BY <1>4 DEF Goes, ClientInv, TasksHold, ReadForFlags
  <2>2. task'[c] \in Tasks
    <3>1. input \in Inputs
      BY <1>2, InputTyped
    <3> HIDE DEF input
    <3> QED BY <1>1, <2>1, <3>1 DEF Tasks, Pcs
  <2>3. /\ task'[c].cmd = t.cmd /\ task'[c].pc = "merge" /\ task'[c].answer = t.answer
        /\ task'[c].creates = t.creates /\ task'[c].input = policyFromFlags(f, policy)
    BY <1>1, <2>1 DEF Tasks
  <2>4. policy' = policy
    BY <2>1 DEF Chain, vars
  <2>5. OneTask(task[c])'
    <3>1. OnItsWay(task[c])' /\ Unanswered(task[c])' /\ Renames(task[c])' /\ Looked(task[c])'
      BY <1>1, <2>3 DEF OneTask, OnItsWay, Unanswered, Renames, Looked
    <3>2. Fresh(task[c])'
      BY <1>4, <2>3, <2>4 DEF Fresh
    <3> QED BY <2>2, <3>1, <3>2 DEF OneTask
  <2> HIDE DEF next
  <2> QED BY <1>4, <2>1, <2>5, GoesHold DEF ClientInv
<1> QED BY <1>3, <1>4 DEF ReadForFlags

\* updatePolicy builds the arguments from the policy it reads.
LEMMA UpdateHolds ==
  ASSUME ClientInv, NEW c \in Clients, updatePolicy(c)
  PROVE  ClientInv'
<1> DEFINE t == task[c]
           args == toPolicyArgs(Merged(policy, t.input), policy.authority)
           pc == IF t.cmd.name = "swap-gate" THEN "metadata" ELSE "send"
           next == [t EXCEPT !.pc = pc, !.args = {args}]
<1>1. t \in Tasks /\ OneTask(t) /\ t.pc = "merge" /\ t.cmd.name \in {"policy update", "swap-gate"}
  BY DEF ClientInv, TasksHold, updatePolicy, At, OneTask, OnItsWay
<1>2. policy \in Policies /\ policy.authority \in Keys \cup {NoKey} /\ t.input \in Inputs
  BY <1>1 DEF ClientInv, MintHolds, TypeOK, Policies, Tasks
<1>3. CASE Ends(c, "error")
  BY <1>3, EndsHold DEF updatePolicy, ClientInv, Answers
<1>4. ASSUME policy.version # 0, Goes(c, next) PROVE ClientInv'
  <2>1. task'[c] = next /\ UNCHANGED Chain
    BY <1>4 DEF Goes, ClientInv, TasksHold, updatePolicy
  <2>2. task'[c] \in Tasks
    <3>1. {args} \in Option(ArgTypes)
      BY <1>2, MergedTyped, ArgsTyped DEF Option
    <3> HIDE DEF args
    <3> QED BY <1>1, <2>1, <3>1 DEF Tasks, Pcs
  <2> HIDE DEF args
  <2>3. /\ task'[c].cmd = t.cmd /\ task'[c].pc = pc /\ task'[c].answer = t.answer
        /\ task'[c].creates = t.creates /\ task'[c].args = {args} /\ task'[c].fresh = t.fresh
    BY <1>1, <2>1 DEF Tasks
  <2>4. policy' = policy
    BY <2>1 DEF Chain, vars
  <2>5. OneTask(task[c])'
    <3>1. OnItsWay(task[c])' /\ Unanswered(task[c])' /\ Renames(task[c])' /\ Looked(task[c])'
      BY <1>1, <2>3 DEF OneTask, OnItsWay, Unanswered, Renames, Looked, HolderCommands
    <3>2. Fresh(task[c])'
      BY <1>1, <1>4, <2>3, <2>4 DEF OneTask, Fresh, args
    <3> QED BY <2>2, <3>1, <3>2 DEF OneTask
  <2> HIDE DEF next
  <2> QED BY <1>4, <2>1, <2>5, GoesHold DEF ClientInv
<1> QED BY <1>3, <1>4 DEF updatePolicy

\* setupExtraMetas only looks whether there is a policy.
LEMMA SetupHolds ==
  ASSUME ClientInv, NEW c \in Clients, setupExtraMetas(c)
  PROVE  ClientInv'
<1> DEFINE t == task[c]
           next == [t EXCEPT !.pc = "send"]
<1>1. t \in Tasks /\ OneTask(t) /\ t.pc = "policy" /\ t.cmd.name = "setup-extra-metas"
  BY DEF ClientInv, TasksHold, setupExtraMetas, At, OneTask, OnItsWay
<1>2. CASE Ends(c, "error")
  BY <1>2, EndsHold DEF setupExtraMetas, ClientInv, Answers
<1>3. ASSUME Goes(c, next) PROVE ClientInv'
  <2>1. task'[c] = next /\ UNCHANGED Chain
    BY <1>3 DEF Goes, ClientInv, TasksHold, setupExtraMetas
  <2>2. task'[c] \in Tasks
    BY <1>1, <2>1 DEF Tasks, Pcs
  <2>3. /\ task'[c].cmd = t.cmd /\ task'[c].pc = "send" /\ task'[c].answer = t.answer
        /\ task'[c].creates = t.creates
    BY <1>1, <2>1 DEF Tasks
  <2>4. OneTask(task[c])'
    BY <1>1, <2>2, <2>3 DEF OneTask, OnItsWay, Unanswered, Renames, Fresh, Looked, HolderCommands
  <2> HIDE DEF next
  <2> QED BY <1>3, <2>1, <2>4, GoesHold DEF ClientInv
<1> QED BY <1>2, <1>3 DEF setupExtraMetas

\* The arguments of init_policy.
LEMMA InitArgsTyped ==
  ASSUME ClientInv, NEW c \in Clients, task[c].pc # "idle"
  PROVE  InitArgs(c) \in ArgTypes /\ policyFromFlags(task[c].cmd.flags, NoPolicy) \in Inputs
<1>1. task[c].cmd.flags \in Flags
  BY DEF ClientInv, TasksHold, OneTask, OnItsWay, Commands
<1>2. NoPolicy \in Policies
  BY DEF NoPolicy, Policies, AllowlistModes
<1>3. me(c) \in Keys \cup {NoKey}
  BY GateClientAssumption DEF GateClientAssumption, me
<1> QED BY <1>1, <1>2, <1>3, InputTyped, ArgsTyped DEF InitArgs

\* policy init.
LEMMA InitHolds ==
  ASSUME ClientInv, NEW c \in Clients, initPolicy(c)
  PROVE  ClientInv'
<1> DEFINE t == task[c]
           next == [t EXCEPT !.pc = "send", !.args = {InitArgs(c)}, !.creates = TRUE]
<1>1. t \in Tasks /\ OneTask(t) /\ t.pc = "config" /\ t.cmd.name = "policy init"
  BY DEF ClientInv, TasksHold, initPolicy, At, OneTask
<1>2. CASE Ends(c, "error")
  BY <1>2, EndsHold DEF initPolicy, ClientInv, Answers
<1>3. ASSUME Goes(c, next) PROVE ClientInv'
  <2>1. task'[c] = next /\ UNCHANGED Chain
    BY <1>3 DEF Goes, ClientInv, TasksHold, initPolicy
  <2>2. task'[c] \in Tasks
    <3>1. {InitArgs(c)} \in Option(ArgTypes)
      BY <1>1, InitArgsTyped DEF Option
    <3> QED BY <1>1, <2>1, <3>1 DEF Tasks, Pcs
  <2>3. /\ task'[c].cmd = t.cmd /\ task'[c].pc = "send" /\ task'[c].answer = t.answer
    BY <1>1, <2>1 DEF Tasks
  <2>4. OneTask(task[c])'
    BY <1>1, <2>2, <2>3 DEF OneTask, OnItsWay, Unanswered, Renames, Fresh, Looked, HolderCommands
  <2> HIDE DEF next
  <2> QED BY <1>3, <2>1, <2>4, GoesHold DEF ClientInv
<1> QED BY <1>2, <1>3 DEF initPolicy

\* swap-gate reads the mint's config first.
LEMMA SwapHolds ==
  ASSUME ClientInv, NEW c \in Clients, swapGate(c)
  PROVE  ClientInv'
<1> DEFINE t == task[c]
           input == policyFromFlags(t.cmd.flags, NoPolicy)
           next == [t EXCEPT !.pc = "exists", !.config = {Config}, !.input = input]
<1>1. t \in Tasks /\ OneTask(t) /\ t.pc = "config" /\ t.cmd.name = "swap-gate"
  BY DEF ClientInv, TasksHold, swapGate, At, OneTask
<1>2. CASE Ends(c, "error")
  BY <1>2, EndsHold DEF swapGate, ClientInv, Answers
<1>3. ASSUME Goes(c, next) PROVE ClientInv'
  <2>1. task'[c] = next /\ UNCHANGED Chain
    BY <1>3 DEF Goes, ClientInv, TasksHold, swapGate
  <2>2. task'[c] \in Tasks
    <3>1. {Config} \in Option(Configs)
      BY DEF Config, Configs, Option, ClientInv, MintHolds, TypeOK
    <3>2. input \in Inputs
      BY <1>1, InitArgsTyped
    <3> HIDE DEF input
    <3> QED BY <1>1, <2>1, <3>1, <3>2 DEF Tasks, Pcs
  <2> HIDE DEF input
  <2>3. /\ task'[c].cmd = t.cmd /\ task'[c].pc = "exists" /\ task'[c].answer = t.answer
    BY <1>1, <2>1 DEF Tasks
  <2>4. OneTask(task[c])'
    BY <1>1, <2>2, <2>3 DEF OneTask, OnItsWay, Unanswered, Renames, Fresh, Looked, HolderCommands
  <2> HIDE DEF next
  <2> QED BY <1>3, <2>1, <2>4, GoesHold DEF ClientInv
<1> QED BY <1>2, <1>3 DEF swapGate

\* Then whether there is a policy.
LEMMA SwapPolicyHolds ==
  ASSUME ClientInv, NEW c \in Clients, SwapPolicy(c)
  PROVE  ClientInv'
<1> DEFINE t == task[c]
           merge == [t EXCEPT !.pc = "merge"]
           create == [t EXCEPT !.pc = "metadata", !.args = {InitArgs(c)}, !.creates = TRUE]
<1>1. t \in Tasks /\ OneTask(t) /\ t.pc = "exists" /\ t.cmd.name = "swap-gate"
  BY DEF ClientInv, TasksHold, SwapPolicy, At, OneTask, OnItsWay
<1>2. CASE Ends(c, "error")
  BY <1>2, EndsHold DEF SwapPolicy, ClientInv, Answers
<1>3. ASSUME NEW next, next = merge \/ next = create, Goes(c, next) PROVE ClientInv'
  <2>1. task'[c] = next /\ UNCHANGED Chain
    BY <1>3 DEF Goes, ClientInv, TasksHold, SwapPolicy
  <2>2. task'[c] \in Tasks
    <3>1. {InitArgs(c)} \in Option(ArgTypes)
      BY <1>1, InitArgsTyped DEF Option
    <3> QED BY <1>1, <1>3, <2>1, <3>1 DEF Tasks, Pcs
  <2>3. /\ task'[c].cmd = t.cmd /\ task'[c].pc \in {"merge", "metadata"}
        /\ task'[c].answer = t.answer
    BY <1>1, <1>3, <2>1 DEF Tasks
  <2>4. OneTask(task[c])'
    BY <1>1, <2>2, <2>3 DEF OneTask, OnItsWay, Unanswered, Renames, Fresh, Looked, HolderCommands
  <2> QED BY <1>3, <2>1, <2>4, GoesHold DEF ClientInv
<1> QED BY <1>2, <1>3 DEF SwapPolicy

\* Then the metadata field: what it finds is what the transaction will mend.
LEMMA MetadataHolds ==
  ASSUME ClientInv, NEW c \in Clients, tokenAclMetadataIxs(c)
  PROVE  ClientInv'
<1> DEFINE t == task[c]
           rename == metadata = "other"
           read == [t EXCEPT !.pc = "send", !.rename = rename]
           unread == [t EXCEPT !.pc = "send", !.unread = TRUE]
<1>1. t \in Tasks /\ OneTask(t) /\ t.pc = "metadata" /\ t.cmd.name = "swap-gate"
  BY DEF ClientInv, TasksHold, tokenAclMetadataIxs, At, OneTask, OnItsWay
<1>2. CASE Ends(c, "error")
  BY <1>2, EndsHold DEF tokenAclMetadataIxs, ClientInv, Answers
<1>3. ASSUME NEW next \in {read, unread}, Goes(c, next) PROVE ClientInv'
  <2>1. task'[c] = next /\ UNCHANGED Chain
    BY <1>3 DEF Goes, ClientInv, TasksHold, tokenAclMetadataIxs
  <2>2. task'[c] \in Tasks
    BY <1>1, <1>3, <2>1 DEF Tasks, Pcs
  <2>3. /\ task'[c].cmd = t.cmd /\ task'[c].pc = "send" /\ task'[c].answer = t.answer
        /\ task'[c].creates = t.creates
    BY <1>1, <1>3, <2>1 DEF Tasks
  <2>4. Renames(task[c])'
    <3>1. task'[c].rename = rename \/ task'[c].unread
      BY <1>1, <1>3, <2>1 DEF Tasks
    <3> QED BY <2>1, <3>1 DEF Renames, Chain
  <2>5. OneTask(task[c])'
    BY <1>1, <2>2, <2>3, <2>4 DEF OneTask, OnItsWay, Unanswered, Fresh, Looked, HolderCommands
  <2> QED BY <1>3, <2>1, <2>5, GoesHold DEF ClientInv
<1> HIDE DEF read, unread
<1> QED BY <1>2, <1>3 DEF tokenAclMetadataIxs, read, unread

\* What a policy transaction writes: the arguments it was built with.
LEMMA WrittenArgs ==
  ASSUME ClientInv, NEW c \in Clients
  PROVE  LET args == Or(task[c].args, policy)
         IN  args \in ArgTypes \/ (args \in Policies /\ Plain(args))
<1>1. task[c].args \in Option(ArgTypes) /\ policy \in Policies /\ Plain(policy)
  BY DEF ClientInv, TasksHold, Tasks, MintHolds, TypeOK
<1>2. CASE task[c].args = {}
  BY <1>1, <1>2, OrNone
<1>3. ASSUME NEW a \in ArgTypes, task[c].args = {a}
      PROVE  Or(task[c].args, policy) \in ArgTypes
  BY <1>3, OrGiven
<1> QED BY <1>1, <1>2, <1>3 DEF Option

\* Where a policy lands, the other clients' tasks hold.
LEMMA OutdatesHolds ==
  ASSUME ClientInv, NEW c \in Clients, Outdates(c, "done"), tokens' = tokens,
         metadata' = "other" => metadata = "other"
  PROVE  TasksHold'
<1>1. /\ DOMAIN task' = Clients /\ task' = [d \in Clients |-> task'[d]]
      /\ task'[c] = [IdleTask EXCEPT !.cmd = task[c].cmd, !.answer = "done"]
      /\ \A d \in Clients \ {c} : task'[d] = [task[d] EXCEPT !.fresh = FALSE]
  BY DEF Outdates
<1>2. OneTask(task[c])'
  BY <1>1, Ended DEF Answers, ClientInv
<1> QED BY <1>1, <1>2, OthersKeep DEF ClientInv

\* init_policy, update_policy and setup_extra_metas land.
LEMMA LandPolicyHolds ==
  ASSUME ClientInv, NEW c \in Clients, LandPolicy(c)
  PROVE  ClientInv'
<1> DEFINE args == Or(task[c].args, policy)
<1>1. args \in ArgTypes \/ (args \in Policies /\ Plain(args))
  BY WrittenArgs
<1>2. UNCHANGED <<enabled, world, tokens, now, by, gating, metadata, blind>>
  BY DEF LandPolicy, InitPolicy, UpdatePolicy, SetupExtraMetas
<1>3. TasksHold'
  BY <1>2, OutdatesHolds DEF LandPolicy
<1>4. enabled \in [thaw: BOOLEAN, freeze: BOOLEAN] /\ gating \in Gates /\ metadata \in Gates \cup {"none"}
      /\ (gating = "thawgate" /\ metadata = "other" => blind)
  BY DEF ClientInv, MintHolds, TypeOK
<1>5. CASE InitPolicy(me(c), args) \/ UpdatePolicy(me(c), args)
  <2>1. ValidArgs(args) /\ policy' = Apply(args) /\ WriteBoth(policy')
    BY <1>5 DEF InitPolicy, UpdatePolicy
  <2> HIDE DEF args
  <2> QED BY <1>1, <1>2, <1>3, <1>4, <2>1, MintWritten DEF ClientInv
<1>6. CASE SetupExtraMetas(me(c))
  <2>1. metas' = metas /\ policy' = policy
    BY <1>6 DEF SetupExtraMetas, WriteBoth, ClientInv, MintHolds, ListsMatchPolicy
  <2> QED BY <1>2, <1>3, <2>1, MintKept DEF ClientInv, Chain, vars
<1> QED BY <1>5, <1>6 DEF LandPolicy

\* The transaction of a swap lands.
LEMMA SwapLandsHolds ==
  ASSUME ClientInv, NEW c \in Clients, SwapLands(c)
  PROVE  ClientInv'
<1> DEFINE args == Or(task[c].args, policy)
<1>1. args \in ArgTypes \/ (args \in Policies /\ Plain(args))
  BY WrittenArgs
<1>2. Renames(task[c]) /\ task[c].pc = "send" /\ task[c].cmd.name = "swap-gate"
  BY DEF SwapLands, At, ClientInv, TasksHold, OneTask
<1>3. /\ metadata' \in Gates \cup {"none"} /\ gating' \in Gates
      /\ metadata' = "other" => blind' /\ metadata = "other"
  BY <1>2 DEF SwapLands, Renames, ClientInv, MintHolds, Gates
<1>4. enabled' \in [thaw: BOOLEAN, freeze: BOOLEAN]
  BY DEF SwapLands, ClientInv, MintHolds, TypeOK
<1>5. /\ ValidArgs(args) /\ policy' = Apply(args) /\ WriteBoth(policy')
      /\ UNCHANGED <<world, tokens, now, by>>
  BY DEF SwapLands
<1>6. TasksHold'
  BY <1>3, <1>5, OutdatesHolds DEF SwapLands
<1> HIDE DEF args
<1>7. MintHolds'
  BY <1>1, <1>3, <1>4, <1>5, MintWritten DEF ClientInv
<1> QED BY <1>6, <1>7 DEF ClientInv

\* explain and freezeIfInvalid read the account.
LEMMA ReadAccountHolds ==
  ASSUME ClientInv, NEW c \in Clients, ReadAccount(c)
  PROVE  ClientInv'
<1> DEFINE t == task[c]
           state == tokens[t.cmd.account].state
           op == IF state = "initialized" THEN "Freeze" ELSE "Thaw"
           freeze == [t EXCEPT !.pc = "resolve"]
           explain == [t EXCEPT !.pc = "resolve", !.config = {Config}, !.op = op]
<1>1. /\ t \in Tasks /\ OneTask(t) /\ t.pc = "account"
      /\ t.cmd.name \in {"explain", "unlock", "freeze-if-invalid"}
  BY DEF ClientInv, TasksHold, ReadAccount, At, OneTask, OnItsWay
<1>2. UNCHANGED Chain
  BY DEF ReadAccount
<1>3. CASE \/ Ends(c, "error") \/ Ends(c, "already frozen")
           \/ Ends(c, Reported(c, op, "permissionless_disabled"))
  <2>1. Reported(c, op, "permissionless_disabled") \in Answers
    BY DEF Reported, Answers
  <2> HIDE DEF op
  <2> QED BY <1>2, <1>3, <2>1, EndsHold DEF ClientInv, Answers
<1>4. ASSUME t.cmd.name = "freeze-if-invalid", state # "none", Goes(c, freeze) PROVE ClientInv'
  <2>1. task'[c] = freeze
    BY <1>4 DEF Goes, ClientInv, TasksHold
  <2>2. task'[c] \in Tasks
    BY <1>1, <2>1 DEF Tasks, Pcs
  <2>3. /\ task'[c].cmd = t.cmd /\ task'[c].pc = "resolve" /\ task'[c].answer = t.answer
        /\ task'[c].op = t.op /\ task'[c].creates = t.creates
    BY <1>1, <2>1 DEF Tasks
  <2>4. tokens' = tokens
    BY <1>2 DEF Chain, vars
  <2>5. OneTask(task[c])'
    BY <1>1, <1>4, <2>2, <2>3, <2>4
       DEF OneTask, OnItsWay, Unanswered, Renames, Fresh, Looked, HolderCommands
  <2> HIDE DEF freeze
  <2> QED BY <1>2, <1>4, <2>5, GoesHold DEF ClientInv
<1>5. ASSUME t.cmd.name # "freeze-if-invalid", Goes(c, explain) PROVE ClientInv'
  <2>1. task'[c] = explain
    BY <1>5 DEF Goes, ClientInv, TasksHold
  <2>2. task'[c] \in Tasks
    <3>1. {Config} \in Option(Configs)
      BY DEF Config, Configs, Option, ClientInv, MintHolds, TypeOK
    <3>2. op \in Ops
      BY DEF Ops
    <3> HIDE DEF op
    <3> QED BY <1>1, <2>1, <3>1, <3>2 DEF Tasks, Pcs
  <2>3. /\ task'[c].cmd = t.cmd /\ task'[c].pc = "resolve" /\ task'[c].answer = t.answer
        /\ task'[c].creates = t.creates
    BY <1>1, <2>1 DEF Tasks
  <2>4. OneTask(task[c])'
    BY <1>1, <1>5, <2>2, <2>3
       DEF OneTask, OnItsWay, Unanswered, Renames, Fresh, Looked, HolderCommands
  <2> HIDE DEF explain
  <2> QED BY <1>2, <1>5, <2>4, GoesHold DEF ClientInv
<1> QED BY <1>3, <1>4, <1>5 DEF ReadAccount

\* A lookup is one that the client may hold.
LEMMA ListsTyped ==
  ASSUME ClientInv, NEW op \in Ops, NEW config \in Configs
  PROVE  /\ Lists(op, config) \in Option(Lookups)
         /\ \A ix \in Lists(op, config) : ix.op = op
<1>1. <<>> \in MetaLists /\ metas.thaw \in MetaLists /\ metas.freeze \in MetaLists
  BY DEF ClientInv, MintHolds, MetaLists
<1>2. \A gate \in Gates, l \in MetaLists : [op |-> op, gate |-> gate, metas |-> l] \in Lookups
  BY DEF Lookups
<1>3. CASE Lists(op, config) = {}
  BY <1>3 DEF Option
<1>4. CASE Lists(op, config) = {[op |-> op, gate |-> "other", metas |-> <<>>]}
  BY <1>1, <1>2, <1>4 DEF Option, Gates
<1>5. ASSUME NEW l \in MetaLists, Lists(op, config) = {[op |-> op, gate |-> "thawgate", metas |-> l]}
      PROVE  /\ Lists(op, config) \in Option(Lookups)
             /\ \A ix \in Lists(op, config) : ix.op = op
  BY <1>2, <1>5 DEF Option, Gates
<1> QED BY <1>1, <1>3, <1>4, <1>5 DEF Lists

\* The config a client holds, or the one it reads.
LEMMA ConfigTyped ==
  ASSUME ClientInv, NEW c \in Clients
  PROVE  ConfigOf(c) \in Configs /\ Config \in Configs
<1>1. Config \in Configs
  BY DEF Config, Configs, ClientInv, MintHolds, TypeOK
<1>2. task[c].config \in Option(Configs)
  BY DEF ClientInv, TasksHold, Tasks
<1> QED BY <1>1, <1>2, OrTyped DEF ConfigOf

\* permissionlessIx.
LEMMA ResolveHolds ==
  ASSUME ClientInv, NEW c \in Clients, Resolve(c)
  PROVE  ClientInv'
<1> DEFINE t == task[c]
           lists == Lists(t.op, ConfigOf(c))
           next == [t EXCEPT !.pc = "simulate", !.list = lists, !.config = {}]
<1>1. /\ t \in Tasks /\ OneTask(t) /\ t.pc = "resolve" /\ t.op \in Ops
      /\ t.cmd.name \in {"explain", "unlock", "freeze-if-invalid"}
  BY DEF ClientInv, TasksHold, Resolve, At, OneTask, OnItsWay, Tasks
<1>2. CASE Ends(c, "error")
  BY <1>2, EndsHold DEF ClientInv, Answers, Resolve
<1>3. ASSUME lists # {}, Goes(c, next) PROVE ClientInv'
  <2>0. UNCHANGED Chain
    BY DEF Resolve
  <2>1. task'[c] = next
    BY <1>3 DEF Goes, ClientInv, TasksHold
  <2>2. lists \in Option(Lookups) /\ \A ix \in lists : ix.op = t.op
    BY <1>1, ListsTyped, ConfigTyped
  <2> HIDE DEF lists
  <2>3. task'[c] \in Tasks
    <3>1. {} \in Option(Configs)
      BY DEF Option
    <3> QED BY <1>1, <2>1, <2>2, <3>1 DEF Tasks, Pcs
  <2>4. /\ task'[c].cmd = t.cmd /\ task'[c].pc = "simulate" /\ task'[c].answer = t.answer
        /\ task'[c].op = t.op /\ task'[c].creates = t.creates /\ task'[c].list = lists
    BY <1>1, <2>1 DEF Tasks
  <2>5. tokens' = tokens
    BY <2>0 DEF Chain, vars
  <2>6. OneTask(task[c])'
    BY <1>1, <1>3, <2>2, <2>3, <2>4, <2>5
       DEF OneTask, OnItsWay, Unanswered, Renames, Fresh, Looked, HolderCommands
  <2> HIDE DEF next
  <2> QED BY <1>3, <2>0, <2>6, GoesHold DEF ClientInv
<1> QED BY <1>2, <1>3 DEF Resolve

\* What explain can say.
LEMMA StatusTyped ==
  \A op, outcome : Status(op, outcome) \in {"error", "denied", "can_unlock", "freezable", "compliant"}
BY DEF Status

\* The simulation ends a command or lets it go on.
LEMMA SimulateHolds ==
  ASSUME ClientInv, NEW c \in Clients, Simulate(c)
  PROVE  ClientInv'
<1> DEFINE t == task[c]
           freeze == [t EXCEPT !.pc = "send"]
           build == [t EXCEPT !.pc = "build", !.list = {}, !.answer = "can_unlock"]
<1>1. /\ t \in Tasks /\ OneTask(t) /\ t.pc = "simulate"
      /\ t.cmd.name \in {"explain", "unlock", "freeze-if-invalid"}
  BY DEF ClientInv, TasksHold, Simulate, At, OneTask, OnItsWay
<1>2. UNCHANGED Chain
  BY DEF Simulate
<1>3. ASSUME NEW answer \in Answers, Ends(c, answer) PROVE ClientInv'
  BY <1>2, <1>3, EndsHold DEF ClientInv
<1>4. ASSUME t.cmd.name = "freeze-if-invalid", Goes(c, freeze) PROVE ClientInv'
  <2>1. task'[c] = freeze
    BY <1>4 DEF Goes, ClientInv, TasksHold
  <2>2. task'[c] \in Tasks
    BY <1>1, <2>1 DEF Tasks, Pcs
  <2>3. /\ task'[c].cmd = t.cmd /\ task'[c].pc = "send" /\ task'[c].answer = t.answer
        /\ task'[c].op = t.op /\ task'[c].creates = t.creates /\ task'[c].list = t.list
    BY <1>1, <2>1 DEF Tasks
  <2>4. tokens' = tokens
    BY <1>2 DEF Chain, vars
  <2>5. OneTask(task[c])'
    BY <1>1, <1>4, <2>2, <2>3, <2>4
       DEF OneTask, OnItsWay, Unanswered, Renames, Fresh, Looked, HolderCommands
  <2> HIDE DEF freeze
  <2> QED BY <1>2, <1>4, <2>5, GoesHold DEF ClientInv
<1>5. ASSUME t.cmd.name = "unlock", Goes(c, build) PROVE ClientInv'
  <2>1. task'[c] = build
    BY <1>5 DEF Goes, ClientInv, TasksHold
  <2>2. task'[c] \in Tasks
    <3>1. {} \in Option(Lookups)
      BY DEF Option
    <3> QED BY <1>1, <2>1, <3>1 DEF Tasks, Pcs, Answers
  <2>3. task'[c].cmd = t.cmd /\ task'[c].pc = "build" /\ task'[c].creates = t.creates
    BY <1>1, <2>1 DEF Tasks
  <2>4. OneTask(task[c])'
    BY <1>1, <1>5, <2>2, <2>3
       DEF OneTask, OnItsWay, Unanswered, Renames, Fresh, Looked, HolderCommands
  <2> HIDE DEF build
  <2> QED BY <1>2, <1>5, <2>4, GoesHold DEF ClientInv
<1>6. PICK outcome \in Outcomes(c, Ix(c), Idempotent(c)) :
        LET status == Status(Ix(c).op, outcome)
        IN  CASE t.cmd.name = "freeze-if-invalid" ->
                   CASE outcome = "skipped" -> Ends(c, "already frozen")
                     [] outcome = "allowed" -> Goes(c, freeze)
                     [] OTHER -> Ends(c, "not frozen")
              [] t.cmd.name = "unlock" /\ status = "can_unlock" ->
                   Goes(c, [t EXCEPT !.pc = "build", !.list = {}, !.answer = status])
              [] OTHER -> Ends(c, Reported(c, Ix(c).op, status))
  BY DEF Simulate
<1>7. CASE t.cmd.name = "freeze-if-invalid"
  <2>1. \/ Ends(c, "already frozen") \/ Ends(c, "not frozen") \/ Goes(c, freeze)
    BY <1>6, <1>7
  <2> QED BY <1>3, <1>4, <1>7, <2>1 DEF Answers
<1>8. CASE t.cmd.name # "freeze-if-invalid"
  <2> DEFINE status == Status(Ix(c).op, outcome)
  <2>1. \/ t.cmd.name = "unlock" /\ Goes(c, build)
        \/ Ends(c, Reported(c, Ix(c).op, status))
    BY <1>6, <1>8
  <2>2. Reported(c, Ix(c).op, status) \in Answers
    BY StatusTyped DEF Answers, Reported
  <2> HIDE DEF status
  <2> QED BY <1>3, <1>5, <2>1, <2>2
<1> QED BY <1>7, <1>8

\* createAtaAndThaw looks the list up again.
LEMMA BuildHolds ==
  ASSUME ClientInv, NEW c \in Clients, createAtaAndThaw(c)
  PROVE  ClientInv'
<1> DEFINE t == task[c]
           lists == Lists("Thaw", Config)
           next == [t EXCEPT !.pc = "send", !.list = lists, !.answer = "none"]
<1>1. t \in Tasks /\ OneTask(t) /\ t.pc = "build" /\ t.cmd.name = "unlock"
  BY DEF ClientInv, TasksHold, createAtaAndThaw, At, OneTask, OnItsWay
<1>2. UNCHANGED Chain
  BY DEF createAtaAndThaw
<1>3. CASE Ends(c, "error")
  BY <1>2, <1>3, EndsHold DEF ClientInv, Answers
<1>4. ASSUME lists # {}, Goes(c, next) PROVE ClientInv'
  <2>1. task'[c] = next
    BY <1>4 DEF Goes, ClientInv, TasksHold
  <2>2. lists \in Option(Lookups)
    BY ListsTyped, ConfigTyped DEF Ops
  <2> HIDE DEF lists
  <2>3. task'[c] \in Tasks
    BY <1>1, <2>1, <2>2 DEF Tasks, Pcs, Answers
  <2>4. /\ task'[c].cmd = t.cmd /\ task'[c].pc = "send" /\ task'[c].answer = "none"
        /\ task'[c].creates = t.creates /\ task'[c].list = lists
    BY <1>1, <2>1 DEF Tasks
  <2>5. OneTask(task[c])'
    BY <1>1, <1>4, <2>3, <2>4 DEF OneTask, OnItsWay, Unanswered, Renames, Fresh, Looked
  <2> HIDE DEF next
  <2> QED BY <1>2, <1>4, <2>5, GoesHold DEF ClientInv
<1> QED BY <1>3, <1>4 DEF createAtaAndThaw

\* The cluster's clock dates an attestation.
LEMMA ClockHolds ==
  ASSUME ClientInv, NEW c \in Clients, clusterTime(c)
  PROVE  ClientInv'
<1> DEFINE t == task[c]
           expiry == IF t.cmd.expiry = 0 THEN 0 ELSE t.cmd.expiry + now
           cmd == [t.cmd EXCEPT !.expiry = expiry]
           next == [t EXCEPT !.pc = "send", !.cmd = cmd]
<1>1. t \in Tasks /\ OneTask(t) /\ t.pc = "clock" /\ t.cmd \in Commands /\ t.cmd.name = "sas attest"
  BY DEF ClientInv, TasksHold, clusterTime, At, OneTask, OnItsWay
<1>2. UNCHANGED Chain
  BY DEF clusterTime
<1>3. Goes(c, next)
  <2>1. Goes(c, [t EXCEPT !.pc = "send", !.cmd.expiry = IF @ = 0 THEN 0 ELSE @ + now])
    BY DEF clusterTime
  <2>2. [t EXCEPT !.pc = "send", !.cmd.expiry = IF @ = 0 THEN 0 ELSE @ + now] = next
    BY <1>1 DEF Tasks
  <2> QED BY <2>1, <2>2
<1>4. cmd \in Commands /\ cmd.name = "sas attest"
  <2>1. expiry \in Nat
    <3>1. t.cmd.expiry \in Nat
      BY <1>1 DEF Commands
    <3>2. now \in Nat
      BY GateNumbers DEF ClientInv, MintHolds, TypeOK, Times
    <3> QED BY <3>1, <3>2
  <2> HIDE DEF expiry
  <2> QED BY <1>1, <2>1 DEF Commands
<1> HIDE DEF cmd
<1>5. task'[c] = next
  BY <1>3 DEF Goes, ClientInv, TasksHold
<1>6. task'[c] \in Tasks
  BY <1>1, <1>4, <1>5 DEF Tasks, Pcs
<1>7. /\ task'[c].cmd = cmd /\ task'[c].pc = "send" /\ task'[c].answer = t.answer
      /\ task'[c].creates = t.creates
  BY <1>1, <1>5 DEF Tasks
<1>8. OneTask(task[c])'
  BY <1>1, <1>4, <1>6, <1>7
     DEF OneTask, OnItsWay, Unanswered, Renames, Fresh, Looked, HolderCommands
<1> HIDE DEF next
<1> QED BY <1>2, <1>3, <1>8, GoesHold DEF ClientInv

\* A command that is refused ends.
LEMMA RefusedHolds ==
  ASSUME ClientInv, NEW c \in Clients, PolicyRefused(c) \/ AttestRefused(c)
  PROVE  ClientInv'
BY EndsHold DEF PolicyRefused, AttestRefused, ClientInv, Answers

-----------------------------------------------------------------------------
(* Transactions and events that leave the policy alone.                    *)

\* What is not about the policy moves the world, the accounts, the toggles or
\* the clock.
LEMMA MintAround ==
  ASSUME MintHolds, UNCHANGED <<policy, metas, gating, metadata, blind>>,
         enabled' \in [thaw: BOOLEAN, freeze: BOOLEAN],
         world' \in [blacklist: [Issuers -> [Wallets -> Cells]],
                     allowlist: [Issuers -> [Wallets -> Cells]],
                     attestation: [SasConfigs -> [Wallets -> Attestations]]],
         tokens' \in [Accounts -> TokenAccounts], now' \in Times,
         by' \in [Accounts -> {"none", "gate", "issuer"}]
  PROVE  MintHolds'
BY DEF MintHolds, TypeOK, ListsMatchPolicy

\* A thaw or a freeze lands on the account, which exists from then on.
LEMMA LandsHolds ==
  ASSUME ClientInv, NEW c \in Clients, Lands(c)
  PROVE  ClientInv'
<1> DEFINE t == task[c]
           a == t.cmd.account
           after == [Found(c) EXCEPT !.state = IF Ix(c).op = "Thaw" THEN "initialized" ELSE "frozen"]
<1>1. t \in Tasks /\ OneTask(t) /\ t.pc = "send" /\ a \in Accounts
  BY DEF ClientInv, TasksHold, Lands, At, OneTask, OnItsWay, Commands
<1>2. tokens \in [Accounts -> TokenAccounts] /\ tokens[a] \in TokenAccounts
  BY <1>1 DEF ClientInv, MintHolds, TypeOK
<1>3. after \in TokenAccounts /\ after.state # "none"
  BY <1>2 DEF Found, TokenAccounts
<1> HIDE DEF after
<1>4. \/ tokens' = tokens /\ by' = by
      \/ tokens' = [tokens EXCEPT ![a] = after]
  BY DEF Lands, after
<1>5. tokens' \in [Accounts -> TokenAccounts]
      /\ \A b \in Accounts : tokens[b].state # "none" => tokens'[b].state # "none"
  BY <1>2, <1>3, <1>4 DEF TokenAccounts
<1>6. by' \in [Accounts -> {"none", "gate", "issuer"}]
  BY DEF Lands, ClientInv, MintHolds, TypeOK
<1>7. MintHolds'
  BY <1>5, <1>6, MintAround DEF Lands, ClientInv, MintHolds, TypeOK
<1>8. \E answer \in Answers : Ends(c, answer)
  BY DEF Lands, Answers
<1>9. PICK answer \in Answers : Ends(c, answer)
  BY <1>8
<1>10. /\ task'[c] = [IdleTask EXCEPT !.cmd = task[c].cmd, !.answer = answer]
       /\ DOMAIN task' = Clients /\ task' = [d \in Clients |-> task'[d]]
       /\ \A d \in Clients \ {c} : task'[d] = task[d]
  BY <1>9 DEF Ends, ClientInv, TasksHold
<1>11. OneTask(task[c])'
  BY <1>10, Ended DEF ClientInv
<1>12. policy' = policy /\ metadata' = metadata
  BY DEF Lands
<1>13. TasksHold'
  BY <1>5, <1>10, <1>11, <1>12, OthersKeep DEF ClientInv
<1> QED BY <1>7, <1>13 DEF ClientInv

\* An attestation is made or closed.
LEMMA AttestHolds ==
  ASSUME ClientInv, NEW c \in Clients, Attest(c)
  PROVE  ClientInv'
<1> DEFINE t == task[c]
           f == t.cmd.flags
           made == [exists |-> TRUE, expiry |-> t.cmd.expiry, level |-> Or(f.minKyc, 0)]
<1>1. /\ t \in Tasks /\ t.cmd \in Commands
      /\ t.cmd.name \in {"sas attest", "sas revoke"}
  BY DEF ClientInv, TasksHold, Attest, At, OneTask, OnItsWay
<1>2. Credential(c) \in SasConfigs
  <2>1. f.credential \in {{k} : k \in SasConfigs}
    BY <1>1 DEF Commands, Flags, Option
  <2> QED BY <2>1, OrGiven DEF Credential
<1>3. Holder(c) \in Wallets
  BY <1>1 DEF Holder, Commands, ClientInv, MintHolds, TypeOK, TokenAccounts
<1>4. t.cmd.name = "sas attest" => made \in Attestations
  <2> SUFFICES ASSUME t.cmd.name = "sas attest" PROVE made \in Attestations
    OBVIOUS
  <2>1. f.minKyc \in {{l} : l \in Levels} /\ t.cmd.expiry \in Nat
    BY <1>1 DEF Commands
  <2>2. Or(f.minKyc, 0) \in Levels
    BY <2>1, OrGiven
  <2> QED BY <2>1, <2>2 DEF Attestations
<1>5. NoAttestation \in Attestations
  BY DEF NoAttestation, Attestations, NoData
<1> HIDE DEF made
<1>6. \E att \in Attestations :
        world' = [world EXCEPT !.attestation[Credential(c)][Holder(c)] = att]
  BY <1>4, <1>5 DEF Attest, CreateAttestation, CloseAttestation, made
<1>7. world' \in [blacklist: [Issuers -> [Wallets -> Cells]],
                  allowlist: [Issuers -> [Wallets -> Cells]],
                  attestation: [SasConfigs -> [Wallets -> Attestations]]]
  <2>1. PICK att \in Attestations :
          world' = [world EXCEPT !.attestation[Credential(c)][Holder(c)] = att]
    BY <1>6
  <2>2. world \in [blacklist: [Issuers -> [Wallets -> Cells]],
                  allowlist: [Issuers -> [Wallets -> Cells]],
                  attestation: [SasConfigs -> [Wallets -> Attestations]]]
    BY DEF ClientInv, MintHolds, TypeOK
  <2>3. [world.attestation EXCEPT ![Credential(c)][Holder(c)] = att]
          \in [SasConfigs -> [Wallets -> Attestations]]
    BY <1>2, <1>3, <2>2
  <2>4. world' = [world EXCEPT !.attestation
                    = [world.attestation EXCEPT ![Credential(c)][Holder(c)] = att]]
    BY <2>1, <2>2
  <2> QED BY <2>2, <2>3, <2>4
<1>8. UNCHANGED <<policy, metas, enabled, tokens, now, by, gating, metadata, blind>>
  BY DEF Attest, CreateAttestation, CloseAttestation
<1>9. MintHolds'
  BY <1>7, <1>8, MintAround DEF ClientInv, MintHolds, TypeOK
<1>10. Ends(c, "done")
  BY DEF Attest
<1>11. /\ task'[c] = [IdleTask EXCEPT !.cmd = task[c].cmd, !.answer = "done"]
       /\ DOMAIN task' = Clients /\ task' = [d \in Clients |-> task'[d]]
       /\ \A d \in Clients \ {c} : task'[d] = task[d]
  BY <1>10 DEF Ends, ClientInv, TasksHold
<1>12. OneTask(task[c])'
  BY <1>11, Ended DEF Answers, ClientInv
<1>13. TasksHold'
  BY <1>8, <1>11, <1>12, OthersKeep DEF ClientInv
<1> QED BY <1>9, <1>13 DEF ClientInv

\* What others do.
LEMMA EventHolds ==
  ASSUME ClientInv, Event
  PROVE  ClientInv'
<1>1. UNCHANGED <<policy, metas, gating, metadata, blind, task>>
  BY DEF Event, SetRegistry, Permissioned, TogglePermissionless, Tick
<1>2. TypeOK
  BY DEF ClientInv, MintHolds
<1>3. /\ enabled' \in [thaw: BOOLEAN, freeze: BOOLEAN]
      /\ world' \in [blacklist: [Issuers -> [Wallets -> Cells]],
                     allowlist: [Issuers -> [Wallets -> Cells]],
                     attestation: [SasConfigs -> [Wallets -> Attestations]]]
      /\ tokens' \in [Accounts -> TokenAccounts] /\ now' \in Times
      /\ by' \in [Accounts -> {"none", "gate", "issuer"}]
      /\ \A a \in Accounts : tokens[a].state # "none" => tokens'[a].state # "none"
  <2>1. ASSUME NEW w \in Wallets, NEW cell \in {"active", "inactive"},
               SetRegistry("blacklist", SSS_TOKEN, w, cell)
        PROVE  <1>3!:
    <3>1. SSS_TOKEN \in Issuers /\ cell \in Cells
      BY GateClientAssumption DEF GateClientAssumption, Cells
    <3>2. world' \in [blacklist: [Issuers -> [Wallets -> Cells]],
                      allowlist: [Issuers -> [Wallets -> Cells]],
                      attestation: [SasConfigs -> [Wallets -> Attestations]]]
      BY <1>2, <2>1, <3>1 DEF SetRegistry, TypeOK
    <3> QED BY <1>2, <2>1, <3>2 DEF SetRegistry, TypeOK
  <2>2. ASSUME NEW a \in Accounts, NEW s \in {"frozen", "initialized"}, Permissioned(a, s)
        PROVE  <1>3!:
    BY <1>2, <2>2 DEF Permissioned, TypeOK, TokenAccounts
  <2>3. ASSUME NEW thaw \in BOOLEAN, NEW freeze \in BOOLEAN, TogglePermissionless(thaw, freeze)
        PROVE  <1>3!:
    BY <1>2, <2>3 DEF TogglePermissionless, TypeOK
  <2>4. CASE Tick
    BY <1>2, <2>4, GateNumbers DEF Tick, TypeOK, Times
  <2> QED BY <2>1, <2>2, <2>3, <2>4 DEF Event
<1>4. MintHolds'
  BY <1>1, <1>3, MintAround DEF ClientInv
<1>5. TasksHold'
  BY <1>1, <1>3, TasksKept DEF ClientInv
<1> QED BY <1>4, <1>5 DEF ClientInv

-----------------------------------------------------------------------------
(* The invariant holds.                                                    *)

\* Whoever starts, the mint is at another gate with no policy of ThawGate's,
\* or at ThawGate with one the SDK wrote.
LEMMA InitHoldsInv == ClientInit => ClientInv
<1> SUFFICES ASSUME ClientInit PROVE ClientInv
  OBVIOUS
<1>1. PICK args \in PolicyArgs, g \in {"thawgate", "other"} :
        /\ ValidArgs(args)
        /\ gating = g /\ metadata \in {"none", g}
        /\ policy = IF g = "thawgate" THEN Apply(args) ELSE NoPolicy
        /\ metas = IF g = "thawgate" THEN [thaw |-> ExtraMetas(policy), freeze |-> ExtraMetas(policy)]
                   ELSE [thaw |-> <<>>, freeze |-> <<>>]
        /\ enabled = IF g = "thawgate" THEN [thaw |-> TRUE, freeze |-> TRUE]
                     ELSE [thaw |-> FALSE, freeze |-> FALSE]
  BY DEF ClientInit
<1>2. args \in ArgTypes
  BY GateConstants, GateClientAssumption DEF GateConstants, GateClientAssumption, ArgTypes
<1>3. /\ Apply(args) \in Policies /\ Plain(Apply(args)) /\ Apply(args).version = 1
      /\ ExtraMetas(Apply(args)) \in MetaLists /\ ValidArgs(Apply(args))
  BY <1>1, <1>2, ApplyTyped
<1>4. NoPolicy \in Policies /\ Plain(NoPolicy) /\ NoPolicy.version = 0 /\ <<>> \in MetaLists
  BY DEF NoPolicy, Policies, AllowlistModes, Plain, MetaLists
<1>5. /\ policy \in Policies /\ Plain(policy) /\ (policy = NoPolicy \/ policy.version = 1)
      /\ metas \in [thaw: MetaLists, freeze: MetaLists]
      /\ ListsMatchPolicy
      /\ gating \in Gates /\ metadata \in Gates \cup {"none"}
      /\ gating = "thawgate" => policy.version = 1 /\ (metadata = "other" => blind)
      /\ enabled \in [thaw: BOOLEAN, freeze: BOOLEAN]
  <2>1. CASE g = "thawgate"
    BY <1>1, <1>3, <2>1 DEF ListsMatchPolicy, Gates
  <2>2. CASE g = "other"
    BY <1>1, <1>4, <2>2 DEF ListsMatchPolicy, Gates
  <2> QED BY <2>1, <2>2
<1>6. world \in [blacklist: [Issuers -> [Wallets -> Cells]],
                 allowlist: [Issuers -> [Wallets -> Cells]],
                 attestation: [SasConfigs -> [Wallets -> Attestations]]]
  <2>1. NoAttestation \in Attestations
    BY DEF NoAttestation, Attestations, NoData
  <2> QED BY <2>1 DEF ClientInit, Cells
<1>7. /\ tokens \in [Accounts -> TokenAccounts]
      /\ by \in [Accounts -> {"none", "gate", "issuer"}]
  BY DEF ClientInit, TokenAccounts
<1>8. now \in Times
  BY GateNumbers DEF ClientInit, Times
<1>9. MintHolds
  BY <1>5, <1>6, <1>7, <1>8 DEF MintHolds, TypeOK
<1>10. OneTask(IdleTask)
  <2>1. IdleTask \in Tasks
    BY DEF IdleTask, Tasks, NoInput, Inputs, Option, Pcs, Answers, Ops
  <2> QED BY <2>1 DEF IdleTask, NoCommand, OneTask, OnItsWay, Unanswered, Renames, Fresh, Looked
<1>11. task = [c \in Clients |-> IdleTask]
  BY DEF ClientInit
<1>12. TasksHold
  BY <1>10, <1>11 DEF TasksHold, OneTask
<1> QED BY <1>9, <1>12 DEF ClientInv

\* Each step of a client, of another client, or of nobody here keeps it.
LEMMA NextHoldsInv == ClientInv /\ [ClientNext]_all_vars => ClientInv'
<1> SUFFICES ASSUME ClientInv, [ClientNext]_all_vars PROVE ClientInv'
  OBVIOUS
<1>1. CASE UNCHANGED all_vars
  <2>1. UNCHANGED Chain /\ task' = task
    BY <1>1 DEF all_vars, client_vars, Chain
  <2>2. MintHolds'
    BY <2>1, MintKept DEF ClientInv
  <2>3. TasksHold'
    <3>1. UNCHANGED <<policy, metadata, tokens>>
      BY <2>1 DEF Chain, vars
    <3> QED BY <2>1, <3>1, TasksKept DEF ClientInv
  <2> QED BY <2>2, <2>3 DEF ClientInv
<1>2. ASSUME NEW c \in Clients, NEW cmd \in Menu[c], Start(c, cmd) PROVE ClientInv'
  BY <1>2, StartHolds
<1>3. ASSUME NEW c \in Clients, ClientStep(c) PROVE ClientInv'
  BY <1>3, ReadForFlagsHolds, UpdateHolds, SetupHolds, InitHolds, SwapHolds, SwapPolicyHolds,
     MetadataHolds, LandPolicyHolds, SwapLandsHolds, RefusedHolds, ReadAccountHolds, ResolveHolds,
     SimulateHolds, BuildHolds, LandsHolds, ClockHolds, AttestHolds
     DEF ClientStep
<1>4. CASE Event
  BY <1>4, EventHolds
<1> QED BY <1>1, <1>2, <1>3, <1>4 DEF ClientNext

\* The invariant, in every reachable state.
THEOREM ClientInvariance == ClientSpec => []ClientInv
BY InitHoldsInv, NextHoldsInv, PTL DEF ClientSpec

\* In every reachable state the mint is at ThawGate only with a policy, its
\* two lists, and no metadata field that leads to another gate, but where a
\* swap could not read that field.
THEOREM SwapsAreWhole == ClientSpec => []SwapIsWhole
<1>1. ClientInv => SwapIsWhole
  BY DEF ClientInv, MintHolds, SwapIsWhole
<1> QED BY <1>1, ClientInvariance, PTL

-----------------------------------------------------------------------------
(* What an update changes.                                                 *)

\* The arguments an update sends, field by field, if its flags were read from
\* the policy they are merged into.
LEMMA UpdateArgs ==
  ASSUME NEW p \in Policies, Plain(p), NEW f \in Flags, f.authority = {}, ~BadFlags(f, p)
  PROVE  LET args == toPolicyArgs(Merged(p, policyFromFlags(f, p)), p.authority)
         IN  /\ args.authority = p.authority /\ args.issuer_program = p.issuer_program
             /\ args.check_blacklist = Or(f.blacklist, p.check_blacklist)
             /\ args.allowlist_mode = Or(f.allowlist, p.allowlist_mode)
             /\ f.credential = {} /\ ~f.noSas => args.require_sas = p.require_sas /\ args.sas = p.sas
             /\ f.minKyc = {} /\ ~f.noSas => args.min_kyc_level = p.min_kyc_level
<1> DEFINE input == policyFromFlags(f, p)
           merged == Merged(p, input)
           args == toPolicyArgs(merged, p.authority)
           level == IF p.require_sas THEN p.min_kyc_level ELSE 0
           stored == IF p.require_sas THEN Sas(p.sas, p.min_kyc_level) ELSE SasOff
           given == Sas(Or(f.credential, p.sas), Or(f.minKyc, level))
           sas == IF f.noSas THEN SasOff ELSE IF SasGiven(f) THEN given ELSE stored
<1>1. /\ input.checkBlacklist = f.blacklist /\ input.allowlistMode = f.allowlist
      /\ input.issuerProgram = {} /\ input.authority = {}
      /\ input.sas = IF f.noSas THEN {SasOff} ELSE IF SasGiven(f) THEN {given} ELSE {}
  BY DEF policyFromFlags
<1> HIDE DEF input
<1>2. /\ merged.checkBlacklist = IF f.blacklist # {} THEN f.blacklist ELSE {p.check_blacklist}
      /\ merged.allowlistMode = IF f.allowlist # {} THEN f.allowlist ELSE {p.allowlist_mode}
      /\ merged.issuerProgram = {p.issuer_program} /\ merged.authority = {p.authority}
      /\ merged.sas = IF input.sas # {} THEN input.sas ELSE {stored}
  <2>1. merged = [checkBlacklist |-> IF input.checkBlacklist # {} THEN input.checkBlacklist
                                     ELSE {p.check_blacklist},
                  allowlistMode |-> IF input.allowlistMode # {} THEN input.allowlistMode
                                    ELSE {p.allowlist_mode},
                  sas |-> IF input.sas # {} THEN input.sas
                          ELSE IF p.require_sas THEN {Sas(p.sas, p.min_kyc_level)} ELSE {SasOff},
                  issuerProgram |-> IF input.issuerProgram # {} THEN input.issuerProgram
                                    ELSE {p.issuer_program},
                  authority |-> IF input.authority # {} THEN input.authority ELSE {p.authority}]
    BY MergedFields
  <2> HIDE DEF merged
  <2> QED BY <1>1, <2>1
<1>3. merged.sas = {sas}
  <2> HIDE DEF merged, given, stored
  <2> QED BY <1>1, <1>2
<1> HIDE DEF merged, sas
<1>4. /\ args.authority = Or(merged.authority, p.authority)
      /\ args.check_blacklist = Or(merged.checkBlacklist, FALSE)
      /\ args.allowlist_mode = Or(merged.allowlistMode, "Off")
      /\ args.require_sas = Or(merged.sas, SasOff).on /\ args.sas = Or(merged.sas, SasOff).key
      /\ args.min_kyc_level = Or(merged.sas, SasOff).level
      /\ \E default : args.issuer_program = Or(merged.issuerProgram, default)
  BY DEF toPolicyArgs
<1> HIDE DEF args
<1>5. /\ args.authority = p.authority /\ args.issuer_program = p.issuer_program
      /\ args.require_sas = sas.on /\ args.sas = sas.key /\ args.min_kyc_level = sas.level
  <2>1. Or(merged.authority, p.authority) = p.authority
    <3>1. merged.authority = {p.authority}
      BY <1>2
    <3> QED BY <3>1, OrGiven
  <2>2. \A default : Or(merged.issuerProgram, default) = p.issuer_program
    <3>1. merged.issuerProgram = {p.issuer_program}
      BY <1>2
    <3> QED BY <3>1, OrGiven
  <2>3. Or(merged.sas, SasOff) = sas
    BY <1>3, OrGiven
  <2> QED BY <1>4, <2>1, <2>2, <2>3
<1>6. args.check_blacklist = Or(f.blacklist, p.check_blacklist)
  <2>1. CASE f.blacklist = {}
    <3>1. merged.checkBlacklist = {p.check_blacklist}
      BY <1>2, <2>1
    <3>2. args.check_blacklist = p.check_blacklist
      <4>1. Or(merged.checkBlacklist, FALSE) = p.check_blacklist
        BY <3>1, OrGiven
      <4> QED BY <1>4, <4>1
    <3>3. Or(f.blacklist, p.check_blacklist) = p.check_blacklist
      BY <2>1, OrNone
    <3> QED BY <3>2, <3>3
  <2>2. ASSUME NEW v \in BOOLEAN, f.blacklist = {v}
        PROVE  args.check_blacklist = Or(f.blacklist, p.check_blacklist)
    <3>1. merged.checkBlacklist = {v}
      BY <1>2, <2>2
    <3>2. args.check_blacklist = v
      <4>1. Or(merged.checkBlacklist, FALSE) = v
        BY <3>1, OrGiven
      <4> QED BY <1>4, <4>1
    <3>3. Or(f.blacklist, p.check_blacklist) = v
      BY <2>2, OrGiven
    <3> QED BY <3>2, <3>3
  <2> QED BY <2>1, <2>2 DEF Flags, Option
<1>7. args.allowlist_mode = Or(f.allowlist, p.allowlist_mode)
  <2>1. CASE f.allowlist = {}
    <3>1. merged.allowlistMode = {p.allowlist_mode}
      BY <1>2, <2>1
    <3>2. args.allowlist_mode = p.allowlist_mode
      <4>1. Or(merged.allowlistMode, "Off") = p.allowlist_mode
        BY <3>1, OrGiven
      <4> QED BY <1>4, <4>1
    <3>3. Or(f.allowlist, p.allowlist_mode) = p.allowlist_mode
      BY <2>1, OrNone
    <3> QED BY <3>2, <3>3
  <2>2. ASSUME NEW v \in AllowlistModes, f.allowlist = {v}
        PROVE  args.allowlist_mode = Or(f.allowlist, p.allowlist_mode)
    <3>1. merged.allowlistMode = {v}
      BY <1>2, <2>2
    <3>2. args.allowlist_mode = v
      <4>1. Or(merged.allowlistMode, "Off") = v
        BY <3>1, OrGiven
      <4> QED BY <1>4, <4>1
    <3>3. Or(f.allowlist, p.allowlist_mode) = v
      BY <2>2, OrGiven
    <3> QED BY <3>2, <3>3
  <2> QED BY <2>1, <2>2 DEF Flags, Option
<1>8. f.credential = {} /\ ~f.noSas => sas.on = p.require_sas /\ sas.key = p.sas
  <2> SUFFICES ASSUME f.credential = {}, ~f.noSas PROVE sas.on = p.require_sas /\ sas.key = p.sas
    OBVIOUS
  <2>1. p.require_sas \in BOOLEAN
    BY DEF Policies
  <2>2. CASE SasGiven(f)
    <3>1. p.require_sas
      BY <2>2 DEF BadFlags, SasGiven
    <3>2. sas = Sas(p.sas, Or(f.minKyc, level))
      BY <2>2, OrNone DEF sas
    <3> QED BY <2>1, <3>1, <3>2 DEF Sas
  <2>3. CASE ~SasGiven(f)
    BY <2>1, <2>3 DEF sas, Sas, SasOff, Plain
  <2> QED BY <2>2, <2>3
<1>9. f.minKyc = {} /\ ~f.noSas => sas.level = p.min_kyc_level
  <2> SUFFICES ASSUME f.minKyc = {}, ~f.noSas PROVE sas.level = p.min_kyc_level
    OBVIOUS
  <2>1. level = p.min_kyc_level
    BY DEF Plain
  <2>2. CASE SasGiven(f)
    <3>1. sas = Sas(Or(f.credential, p.sas), level)
      BY <2>2, OrNone DEF sas
    <3> HIDE DEF level
    <3> QED BY <2>1, <3>1 DEF Sas
  <2>3. CASE ~SasGiven(f)
    BY <2>3 DEF sas, Sas, SasOff, Plain
  <2> QED BY <2>2, <2>3
<1> QED BY <1>5, <1>6, <1>7, <1>8, <1>9 DEF args, merged, input

\* A client's step writes its own task, and where a policy lands, whether the
\* others are fresh.
LEMMA StepsOwnTask ==
  ASSUME ClientInv, NEW d \in Clients, ClientStep(d) \/ (\E cmd \in Menu[d] : Start(d, cmd))
  PROVE  (\E next : Goes(d, next)) \/ Outdates(d, "done")
<1>1. CASE \E cmd \in Menu[d] : Start(d, cmd)
  BY <1>1 DEF Start
<1>2. CASE ReadForFlags(d) \/ updatePolicy(d) \/ setupExtraMetas(d) \/ initPolicy(d)
           \/ swapGate(d) \/ SwapPolicy(d) \/ tokenAclMetadataIxs(d)
  BY <1>2 DEF ReadForFlags, updatePolicy, setupExtraMetas, initPolicy, swapGate, SwapPolicy,
              tokenAclMetadataIxs, Ends, Goes
<1>3. CASE LandPolicy(d) \/ SwapLands(d) \/ PolicyRefused(d)
  BY <1>3 DEF LandPolicy, SwapLands, PolicyRefused, Ends, Goes
<1>4. CASE ReadAccount(d) \/ Resolve(d) \/ createAtaAndThaw(d) \/ clusterTime(d)
  BY <1>4 DEF ReadAccount, Resolve, createAtaAndThaw, clusterTime, Ends, Goes
<1>5. CASE Simulate(d)
  BY <1>5 DEF Simulate, Ends, Goes
<1>6. CASE Lands(d) \/ Attest(d) \/ AttestRefused(d)
  BY <1>6 DEF Lands, Attest, AttestRefused, Ends, Goes
<1> QED BY <1>1, <1>2, <1>3, <1>4, <1>5, <1>6 DEF ClientStep

\* Only its own step gives a client another answer.
LEMMA AnswersAreOwn ==
  ASSUME ClientInv, ClientNext, NEW c \in Clients, task'[c].answer # task[c].answer
  PROVE  ClientStep(c) \/ \E cmd \in Menu[c] : Start(c, cmd)
<1>1. task \in [Clients -> Tasks]
  BY DEF ClientInv, TasksHold
<1>2. ~Event
  BY DEF Event
<1>3. PICK d \in Clients : ClientStep(d) \/ (\E cmd \in Menu[d] : Start(d, cmd))
  BY <1>2 DEF ClientNext
<1>4. ASSUME d # c PROVE FALSE
  <2>1. CASE \E next : Goes(d, next)
    BY <1>1, <1>4, <2>1 DEF Goes
  <2>2. CASE Outdates(d, "done")
    <3>1. task'[c] = [task[c] EXCEPT !.fresh = FALSE]
      BY <1>4, <2>2 DEF Outdates
    <3> QED BY <1>1, <3>1 DEF Tasks
  <2> QED BY <1>3, <2>1, <2>2, StepsOwnTask
<1> QED BY <1>3, <1>4

\* An update changes what its flags say and nothing else, unless another
\* policy landed since it read.
THEOREM UpdatesKeepTheRest == ClientSpec => UpdateKeepsTheRest
<1> DEFINE Keeps(c) ==
      LET f == task[c].cmd.flags
      IN  task[c].pc = "send" /\ task[c].cmd.name = "policy update" /\ task[c].fresh
            /\ task'[c].answer = "done" =>
          /\ policy'.authority = policy.authority /\ policy'.issuer_program = policy.issuer_program
          /\ policy'.check_blacklist = Or(f.blacklist, policy.check_blacklist)
          /\ policy'.allowlist_mode = Or(f.allowlist, policy.allowlist_mode)
          /\ f.credential = {} /\ ~f.noSas =>
               policy'.require_sas = policy.require_sas /\ policy'.sas = policy.sas
          /\ f.minKyc = {} /\ ~f.noSas => policy'.min_kyc_level = policy.min_kyc_level
<1>1. ASSUME ClientInv, ClientNext, NEW c \in Clients PROVE Keeps(c)
  <2> SUFFICES ASSUME task[c].pc = "send", task[c].cmd.name = "policy update", task[c].fresh,
                      task'[c].answer = "done"
               PROVE  Keeps(c)
    OBVIOUS
  <2> DEFINE f == task[c].cmd.flags
             args == toPolicyArgs(Merged(policy, policyFromFlags(f, policy)), policy.authority)
  <2>1. task[c] \in Tasks /\ OneTask(task[c]) /\ task[c].answer = "none"
    BY <1>1 DEF ClientInv, TasksHold, OneTask, Unanswered
  <2>2. ClientStep(c)
    <3>1. ~\E cmd \in Menu[c] : Start(c, cmd)
      BY DEF Start, At
    <3> QED BY <1>1, <2>1, <3>1, AnswersAreOwn
  <2>3. LandPolicy(c)
    <3>1. ~PolicyRefused(c)
      BY <1>1 DEF PolicyRefused, Ends, ClientInv, TasksHold, IdleTask
    <3>2. /\ ~ReadForFlags(c) /\ ~updatePolicy(c) /\ ~setupExtraMetas(c) /\ ~initPolicy(c)
          /\ ~swapGate(c) /\ ~SwapPolicy(c) /\ ~tokenAclMetadataIxs(c) /\ ~ReadAccount(c)
          /\ ~Resolve(c) /\ ~Simulate(c) /\ ~createAtaAndThaw(c) /\ ~clusterTime(c)
      BY DEF ReadForFlags, updatePolicy, setupExtraMetas, initPolicy, swapGate, SwapPolicy,
             tokenAclMetadataIxs, ReadAccount, Resolve, Simulate, createAtaAndThaw, clusterTime, At
    <3>3. ~SwapLands(c) /\ ~Lands(c) /\ ~Attest(c) /\ ~AttestRefused(c)
      BY DEF SwapLands, Lands, Attest, AttestRefused, HolderCommands
    <3> QED BY <2>2, <3>1, <3>2, <3>3 DEF ClientStep
  <2>4. /\ ~BadFlags(f, policy) /\ ~task[c].creates /\ task[c].args = {args}
    BY <2>1 DEF OneTask, Fresh, OnItsWay
  <2>5. Or(task[c].args, policy) = args
    <3> HIDE DEF args
    <3>1. task[c].args = {args}
      BY <2>4
    <3> QED BY <3>1, OrGiven
  <2> HIDE DEF args
  <2>6. policy' = Apply(args)
    BY <2>3, <2>4, <2>5 DEF LandPolicy, UpdatePolicy
  <2>7. /\ policy'.authority = args.authority /\ policy'.issuer_program = args.issuer_program
        /\ policy'.check_blacklist = args.check_blacklist
        /\ policy'.allowlist_mode = args.allowlist_mode
        /\ policy'.require_sas = args.require_sas /\ policy'.sas = args.sas
        /\ policy'.min_kyc_level = args.min_kyc_level
    BY <2>6 DEF Apply
  <2>8. policy \in Policies /\ Plain(policy)
    BY <1>1 DEF ClientInv, MintHolds, TypeOK
  <2>9. f \in Flags /\ f.authority = {}
    BY <2>1 DEF OneTask, OnItsWay, Commands
  <2>10. /\ args.authority = policy.authority /\ args.issuer_program = policy.issuer_program
         /\ args.check_blacklist = Or(f.blacklist, policy.check_blacklist)
         /\ args.allowlist_mode = Or(f.allowlist, policy.allowlist_mode)
         /\ f.credential = {} /\ ~f.noSas =>
              args.require_sas = policy.require_sas /\ args.sas = policy.sas
         /\ f.minKyc = {} /\ ~f.noSas => args.min_kyc_level = policy.min_kyc_level
    BY <2>4, <2>8, <2>9, UpdateArgs DEF args
  <2> QED BY <2>7, <2>10
<1>2. ClientInv /\ [ClientNext]_all_vars => [\A c \in Clients : Keeps(c)]_all_vars
  BY <1>1
<1>3. UpdateKeepsTheRest <=> [][\A c \in Clients : Keeps(c)]_all_vars
  BY DEF UpdateKeepsTheRest
<1> HIDE DEF Keeps
<1> QED BY <1>2, <1>3, ClientInvariance, PTL DEF ClientSpec

-----------------------------------------------------------------------------
(* What the clients say.                                                   *)

\* A simulation under ThawGate that ran to a decision, on the account as the
\* transaction finds it: the decision is the policy's.
LEMMA SimulationDecides ==
  ASSUME ClientInv, NEW c \in Clients, task[c].cmd.account \in Accounts, gating = "thawgate",
         NEW ix \in Lookups, NEW outcome \in Outcomes(c, ix, FALSE), outcome \in {"allowed", "denied"}
  PROVE  LET a   == task[c].cmd.account
             t   == tokens[a]
             ata == t.state = "none" \/ t.immutable_owner
         IN  /\ ix.op = "Thaw" =>
                  /\ t.state # "initialized" /\ enabled.thaw
                  /\ outcome = "allowed" <=> ata /\ Verdict(a) = "clear"
             /\ ix.op = "Freeze" =>
                  /\ t.state = "initialized" /\ enabled.freeze
                  /\ outcome = "allowed" <=> Verdict(a) = "flagged"
<1> DEFINE a == task[c].cmd.account
           t == tokens[a]
           found == Found(c)
           ata == t.state = "none" \/ t.immutable_owner
           list == IF ix.op = "Thaw" THEN metas.thaw ELSE metas.freeze
           decision == Decide(ix.op, policy, list, world, found.owner, found.owner \in Pdas,
                              found.immutable_owner, now)
<1>1. /\ TypeOK /\ ListsMatchPolicy /\ policy.version # 0
      /\ ix.op \in Ops /\ t \in TokenAccounts
  BY DEF ClientInv, MintHolds, Lookups, TypeOK
<1>2. /\ found.owner = t.owner /\ found.owner \in Wallets
      /\ found.immutable_owner \in BOOLEAN /\ (found.immutable_owner <=> ata)
      /\ found.state = "initialized" <=> t.state = "initialized"
      /\ found.state = "frozen" <=> t.state # "initialized"
  BY <1>1 DEF Found, TokenAccounts
<1>3. list = ExtraMetas(policy)
  BY <1>1 DEF ListsMatchPolicy
<1>4. decision = Decided(ix.op, t.owner, found.immutable_owner)
  BY <1>1, <1>2, <1>3, DecideReadsPolicy
<1>5. /\ Decided("Thaw", t.owner, found.immutable_owner).allow
           <=> found.immutable_owner /\ Readable(policy, t.owner) /\ Complies(policy, t.owner)
      /\ Decided("Freeze", t.owner, found.immutable_owner).allow
           <=> Readable(policy, t.owner) /\ ~Complies(policy, t.owner)
  BY <1>1, <1>2, DecidedMeaning DEF ListsMatchPolicy
<1>6. /\ Verdict(a) = "clear" <=> Readable(policy, t.owner) /\ Complies(policy, t.owner)
      /\ Verdict(a) = "flagged" <=> Readable(policy, t.owner) /\ ~Complies(policy, t.owner)
  BY <1>1 DEF Verdict
<1> HIDE DEF decision
<1>7. /\ found.state # (IF ix.op = "Thaw" THEN "initialized" ELSE "frozen")
      /\ IF ix.op = "Thaw" THEN enabled.thaw ELSE enabled.freeze
      /\ outcome = IF decision.allow THEN "allowed" ELSE "denied"
  BY DEF Outcomes, decision
<1> HIDE DEF found, list, ata, t, a
<1>8. CASE ix.op = "Thaw"
  BY <1>2, <1>4, <1>5, <1>6, <1>7, <1>8 DEF ata, t, a
<1>9. CASE ix.op = "Freeze"
  BY <1>2, <1>4, <1>5, <1>6, <1>7, <1>9 DEF t, a
<1> QED BY <1>1, <1>8, <1>9 DEF Ops, ata, t, a

\* The lookup a simulation or a transaction uses is the one that was resolved.
LEMMA IxTyped ==
  ASSUME ClientInv, NEW c \in Clients, task[c].list # {}
  PROVE  Ix(c) \in task[c].list /\ Ix(c) \in Lookups
<1>1. task[c].list \in Option(Lookups)
  BY DEF ClientInv, TasksHold, Tasks
<1>2. PICK ix \in Lookups : task[c].list = {ix}
  BY <1>1 DEF Option
<1>3. Ix(c) = ix
  BY <1>2 DEF Ix
<1> QED BY <1>2, <1>3

\* What a check answers, word by word.
LEMMA ChecksAnswerTruly ==
  ASSUME ClientInv, NEW c \in Clients, Simulate(c), gating = "thawgate",
         task'[c].answer # task[c].answer
  PROVE  LET a   == task[c].cmd.account
             t   == tokens[a]
             ata == t.state = "none" \/ t.immutable_owner
             answer == task'[c].answer
         IN  \/ answer \in {"error", "not frozen", "none", "already_unlocked"}
             \/ answer = "already frozen" /\ t.state = "frozen"
             \/ answer = "can_unlock" /\ t.state # "initialized" /\ enabled.thaw
                  /\ Verdict(a) = "clear" /\ ata
             \/ answer = "denied" /\ t.state # "initialized" /\ (Verdict(a) # "clear" \/ ~ata)
             \/ answer = "freezable" /\ t.state = "initialized" /\ enabled.freeze
                  /\ Verdict(a) = "flagged"
             \/ answer = "compliant" /\ t.state = "initialized" /\ Verdict(a) # "flagged"
<1> DEFINE a   == task[c].cmd.account
           t   == tokens[a]
           ata == t.state = "none" \/ t.immutable_owner
           ix  == Ix(c)
           name == task[c].cmd.name
           answer == task'[c].answer
<1>1. /\ task \in [Clients -> Tasks] /\ OneTask(task[c]) /\ task[c].pc = "simulate"
      /\ task[c].answer = "none"
  BY DEF ClientInv, TasksHold, Simulate, At, OneTask, Unanswered
<1>2. /\ ix \in Lookups /\ ix.op = task[c].op /\ ix.op \in Ops
  <2>1. task[c].list # {} /\ \A x \in task[c].list : x.op = task[c].op
    BY <1>1 DEF OneTask, Looked
  <2>2. Ix(c) \in task[c].list /\ Ix(c) \in Lookups
    BY <2>1, IxTyped
  <2> QED BY <2>1, <2>2 DEF Lookups
<1>3. a \in Accounts /\ name \in {"explain", "unlock", "freeze-if-invalid"}
  BY <1>1 DEF OneTask, OnItsWay, Commands
<1>4. t.state \in {"none", "frozen", "initialized"}
  BY <1>3 DEF ClientInv, MintHolds, TypeOK, TokenAccounts
<1>5. PICK outcome \in Outcomes(c, ix, Idempotent(c)) :
        CASE name = "freeze-if-invalid" ->
               CASE outcome = "skipped" -> Ends(c, "already frozen")
                 [] outcome = "allowed" -> Goes(c, [task[c] EXCEPT !.pc = "send"])
                 [] OTHER -> Ends(c, "not frozen")
          [] name = "unlock" /\ Status(ix.op, outcome) = "can_unlock" ->
               Goes(c, [task[c] EXCEPT !.pc = "build", !.list = {}, !.answer = Status(ix.op, outcome)])
          [] OTHER -> Ends(c, Reported(c, ix.op, Status(ix.op, outcome)))
  BY DEF Simulate
<1>6. \A said : Ends(c, said) => answer = said
  BY <1>1 DEF Ends, IdleTask
<1>7. CASE name = "freeze-if-invalid"
  <2>1. /\ ix.op = "Freeze" /\ t.state # "none"
    BY <1>1, <1>2, <1>7 DEF OneTask, Looked
  <2>2. CASE outcome = "skipped"
    <3>1. answer = "already frozen"
      BY <1>5, <1>6, <1>7, <2>2
    <3>2. Found(c).state = "frozen"
      BY <2>1, <2>2, <1>5 DEF Outcomes
    <3> QED BY <2>1, <3>1, <3>2 DEF Found
  <2>3. CASE outcome = "allowed"
    <3>1. Goes(c, [task[c] EXCEPT !.pc = "send"])
      BY <1>5, <1>7, <2>3
    <3>2. answer = task[c].answer
      BY <1>1, <3>1 DEF Goes, Tasks
    <3> QED BY <3>2, <1>1
  <2>4. CASE outcome \notin {"skipped", "allowed"}
    BY <1>5, <1>6, <1>7, <2>4
  <2> QED BY <2>2, <2>3, <2>4
<1>8. CASE name # "freeze-if-invalid"
  <2>1. outcome \in Outcomes(c, ix, FALSE)
    BY <1>5, <1>8 DEF Idempotent
  <2>2. answer \in {"already_unlocked", Status(ix.op, outcome)}
    <3> DEFINE status == Status(ix.op, outcome)
    <3>1. CASE name = "unlock" /\ status = "can_unlock"
      <4>1. Goes(c, [task[c] EXCEPT !.pc = "build", !.list = {}, !.answer = status])
        BY <1>5, <1>8, <3>1
      <4> HIDE DEF status
      <4> QED BY <1>1, <4>1 DEF Goes, Tasks, status
    <3>2. CASE ~(name = "unlock" /\ status = "can_unlock")
      <4>1. answer = Reported(c, ix.op, status)
        BY <1>5, <1>6, <1>8, <3>2
      <4> QED BY <4>1 DEF Reported
    <3> QED BY <3>1, <3>2
  <2>3. outcome \in {"failed", "allowed", "denied"}
    BY <2>1, <1>4 DEF Outcomes
  <2>4. CASE outcome = "failed"
    BY <2>2, <2>4 DEF Status
  <2>5. CASE outcome \in {"allowed", "denied"}
    <3>1. /\ ix.op = "Thaw" =>
               /\ t.state # "initialized" /\ enabled.thaw
               /\ outcome = "allowed" <=> ata /\ Verdict(a) = "clear"
          /\ ix.op = "Freeze" =>
               /\ t.state = "initialized" /\ enabled.freeze
               /\ outcome = "allowed" <=> Verdict(a) = "flagged"
      BY <1>2, <1>3, <2>1, <2>5, SimulationDecides
    <3>2. CASE ix.op = "Thaw"
      BY <2>2, <2>5, <3>1, <3>2 DEF Status
    <3>3. CASE ix.op = "Freeze"
      BY <2>2, <2>5, <3>1, <3>3 DEF Status
    <3> QED BY <1>2, <3>2, <3>3 DEF Ops
  <2> QED BY <2>3, <2>4, <2>5
<1> QED BY <1>7, <1>8

\* A thaw or freeze that lands leaves the account as it says.
LEMMA LandingsAnswerTruly ==
  ASSUME ClientInv, NEW c \in Clients, Lands(c), task'[c].answer # task[c].answer
  PROVE  LET answer == task'[c].answer
             state  == tokens'[task[c].cmd.account].state
         IN  \/ answer = "error"
             \/ answer = "unlocked" /\ state = "initialized"
             \/ answer = "frozen" /\ state = "frozen"
<1> DEFINE a == task[c].cmd.account
           answer == task'[c].answer
<1>1. /\ task \in [Clients -> Tasks] /\ task[c].pc = "send" /\ task[c].cmd \in Commands
      /\ a \in Accounts
  BY DEF ClientInv, TasksHold, Lands, At, OneTask, OnItsWay, Commands
<1>2. tokens \in [Accounts -> TokenAccounts]
  BY DEF ClientInv, MintHolds, TypeOK
<1>3. \A said : Ends(c, said) => answer = said
  BY <1>1 DEF Ends, IdleTask
<1>4. PICK outcome \in Outcomes(c, Ix(c), TRUE) :
        IF outcome \in {"allowed", "skipped"}
          THEN /\ tokens' = [tokens EXCEPT ![a] =
                    [Found(c) EXCEPT !.state = IF Ix(c).op = "Thaw" THEN "initialized" ELSE "frozen"]]
               /\ Ends(c, IF Ix(c).op = "Thaw" THEN "unlocked" ELSE "frozen")
          ELSE Ends(c, "error")
  BY DEF Lands
<1>5. CASE outcome \in {"allowed", "skipped"}
  <2> DEFINE state == IF Ix(c).op = "Thaw" THEN "initialized" ELSE "frozen"
  <2>1. answer = IF Ix(c).op = "Thaw" THEN "unlocked" ELSE "frozen"
    BY <1>3, <1>4, <1>5
  <2>2. tokens' = [tokens EXCEPT ![a] = [Found(c) EXCEPT !.state = state]]
    BY <1>4, <1>5
  <2>3. Found(c) \in TokenAccounts
    BY <1>1, <1>2 DEF Found, TokenAccounts
  <2>4. tokens'[a].state = state
    <3> HIDE DEF state
    <3> QED BY <1>1, <1>2, <2>2, <2>3 DEF TokenAccounts
  <2> QED BY <2>1, <2>4
<1>6. CASE outcome \notin {"allowed", "skipped"}
  BY <1>3, <1>4, <1>6
<1> QED BY <1>5, <1>6

\* Every other step has nothing to say of an account, but a freeze that found
\* it frozen.
LEMMA OthersSayNothing ==
  ASSUME ClientInv, NEW c \in Clients,
         ClientStep(c) \/ (\E cmd \in Menu[c] : Start(c, cmd)),
         ~Simulate(c), ~Lands(c), task'[c].answer # task[c].answer
  PROVE  \/ task'[c].answer \in {"none", "error", "done", "permissionless_disabled", "already_unlocked"}
         \/ /\ task'[c].answer = "already frozen"
            /\ tokens[task[c].cmd.account].state = "frozen" /\ UNCHANGED tokens
<1>1. task \in [Clients -> Tasks]
  BY DEF ClientInv, TasksHold
<1>2. \A said : Ends(c, said) => task'[c].answer = said
  BY <1>1 DEF Ends, IdleTask
<1>3. \A next : Goes(c, next) => task'[c] = next
  BY <1>1 DEF Goes
<1>4. CASE \E cmd \in Menu[c] : Start(c, cmd)
  BY <1>3, <1>4 DEF Start, IdleTask
<1>5. CASE ReadForFlags(c)
  BY <1>1, <1>2, <1>3, <1>5 DEF ReadForFlags, Tasks
<1>6. CASE updatePolicy(c)
  BY <1>1, <1>2, <1>3, <1>6 DEF updatePolicy, Tasks
<1>7. CASE setupExtraMetas(c) \/ initPolicy(c)
  BY <1>1, <1>2, <1>3, <1>7 DEF setupExtraMetas, initPolicy, Tasks
<1>8. CASE swapGate(c) \/ SwapPolicy(c)
  BY <1>1, <1>2, <1>3, <1>8 DEF swapGate, SwapPolicy, Tasks
<1>9. CASE tokenAclMetadataIxs(c) \/ PolicyRefused(c)
  BY <1>1, <1>2, <1>3, <1>9 DEF tokenAclMetadataIxs, PolicyRefused, Tasks
<1>10. CASE LandPolicy(c) \/ SwapLands(c)
  <2>1. Outdates(c, "done")
    BY <1>10 DEF LandPolicy, SwapLands
  <2> QED BY <2>1 DEF Outdates, IdleTask
<1>11. CASE ReadAccount(c)
  <2>1. UNCHANGED tokens
    BY <1>11 DEF ReadAccount, Chain, vars
  <2> DEFINE state == tokens[task[c].cmd.account].state
             op == IF state = "initialized" THEN "Freeze" ELSE "Thaw"
             simulates == [task[c] EXCEPT !.pc = "resolve", !.config = {Config}, !.op = op]
  <2>2. simulates.answer = task[c].answer /\ [task[c] EXCEPT !.pc = "resolve"].answer = task[c].answer
    <3> HIDE DEF op
    <3> QED BY <1>1 DEF Tasks
  <2>3. CASE Ends(c, "error") \/ Ends(c, Reported(c, op, "permissionless_disabled"))
    <3> HIDE DEF op
    <3> QED BY <1>2, <2>3 DEF Reported
  <2>4. CASE Ends(c, "already frozen") /\ state = "frozen"
    BY <1>2, <2>1, <2>4
  <2>5. CASE Goes(c, [task[c] EXCEPT !.pc = "resolve"]) \/ Goes(c, simulates)
    <3> HIDE DEF simulates
    <3> QED BY <1>3, <2>2, <2>5
  <2> QED BY <1>11, <2>3, <2>4, <2>5 DEF ReadAccount
<1>12. CASE Resolve(c) \/ createAtaAndThaw(c)
  BY <1>1, <1>2, <1>3, <1>12 DEF Resolve, createAtaAndThaw, Tasks
<1>13. CASE clusterTime(c)
  <2> DEFINE expiry == IF task[c].cmd.expiry = 0 THEN 0 ELSE task[c].cmd.expiry + now
             next == [task[c] EXCEPT !.pc = "send", !.cmd.expiry = expiry]
  <2>1. next.answer = task[c].answer
    <3> HIDE DEF expiry
    <3> QED BY <1>1 DEF Tasks
  <2>2. Goes(c, next)
    BY <1>13 DEF clusterTime
  <2> HIDE DEF next
  <2> QED BY <1>3, <2>1, <2>2
<1>14. CASE Attest(c) \/ AttestRefused(c)
  BY <1>2, <1>14 DEF Attest, AttestRefused
<1> QED BY <1>4, <1>5, <1>6, <1>7, <1>8, <1>9, <1>10, <1>11, <1>12, <1>13, <1>14 DEF ClientStep

\* What a command finds by simulating or sending is so when it reports it,
\* whatever it read before is by then; not the unlock's already_unlocked, which
\* is what the account was when it was read.
THEOREM AnswersStayTrue == ClientSpec => AnswersAreTrue
<1> DEFINE Says(c) ==
      LET a == task[c].cmd.account
          t == tokens[a]
          answer == task'[c].answer
          ata == t.state = "none" \/ t.immutable_owner
      IN  task'[c].answer # task[c].answer /\ task'[c].cmd = task[c].cmd /\ gating = "thawgate" =>
          /\ answer = "can_unlock" =>
               t.state # "initialized" /\ enabled.thaw /\ Verdict(a) = "clear" /\ ata
          /\ answer = "denied" => t.state # "initialized" /\ (Verdict(a) # "clear" \/ ~ata)
          /\ answer = "freezable" => t.state = "initialized" /\ enabled.freeze /\ Verdict(a) = "flagged"
          /\ answer = "compliant" => t.state = "initialized" /\ Verdict(a) # "flagged"
          /\ answer \in {"frozen", "already frozen"} => tokens'[a].state = "frozen"
          /\ answer = "unlocked" => tokens'[a].state = "initialized"
<1>1. ASSUME ClientInv, ClientNext, NEW c \in Clients PROVE Says(c)
  <2> SUFFICES ASSUME task'[c].answer # task[c].answer, gating = "thawgate"
               PROVE  Says(c)
    OBVIOUS
  <2>1. ClientStep(c) \/ (\E cmd \in Menu[c] : Start(c, cmd))
    BY <1>1, AnswersAreOwn
  <2>2. CASE Simulate(c)
    <3>1. UNCHANGED tokens
      BY <2>2 DEF Simulate, Chain, vars
    <3> QED BY <1>1, <2>2, <3>1, ChecksAnswerTruly
  <2>3. CASE Lands(c)
    BY <1>1, <2>3, LandingsAnswerTruly
  <2>4. CASE ~Simulate(c) /\ ~Lands(c)
    BY <1>1, <2>1, <2>4, OthersSayNothing
  <2> QED BY <2>2, <2>3, <2>4
<1>2. ClientInv /\ [ClientNext]_all_vars => [\A c \in Clients : Says(c)]_all_vars
  BY <1>1
<1>3. AnswersAreTrue <=> [][\A c \in Clients : Says(c)]_all_vars
  BY DEF AnswersAreTrue
<1> HIDE DEF Says
<1> QED BY <1>2, <1>3, ClientInvariance, PTL DEF ClientSpec
=============================================================================
