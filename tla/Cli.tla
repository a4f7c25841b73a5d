--------------------------------- MODULE Cli ---------------------------------
(***************************************************************************)
(* The operator's command line (cli/src) over the SDK.  A command sends    *)
(* its transactions one after the other, each when the one before is       *)
(* confirmed, and then (the commands of commands.ts) writes one line to    *)
(* the audit log.  A transaction lands, or is refused or lost; the process *)
(* may be gone before it learns which.                                     *)
(*                                                                         *)
(* A command is [name, txs]; a transaction is a record whose field do      *)
(* names the builder of Sdk and whose other fields are its arguments.      *)
(* Commands that only read (list, status, supply, holders, config,         *)
(* audit-log) change nothing and are left out, as are their prompts and    *)
(* --dry-run.                                                              *)
(***************************************************************************)
EXTENDS Sdk, Sequences

CONSTANTS
  Scripts,        \* the sets of commands an operator may have at hand
  MaxInterrupts   \* bound on commands cut off in the middle

\* What the builders take: keys, accounts, u64 amounts (mint.rs and burn.rs refuse
\* zero), dates; dated says whether the caller gave one.
Transactions ==
  [do: {"initialize"}, by: Keys, args: InitArgType] \cup
  [do: {"enableTokenAcl"}, by: Keys, check_blacklist: BOOLEAN] \cup
  [do: {"setupMinting"}, by: Keys, amount: U64, attestor: Keys, staleness: Nat \ {0},
   dated: BOOLEAN, as_of: Nat] \cup
  [do: {"mintTokens"}, by: Keys, recipient: Keys, amount: 1 .. U64Max] \cup
  [do: {"burnTokens"}, by: Keys, amount: 1 .. U64Max] \cup
  [do: {"freezeAccount", "thawAccount"}, by: Keys, account: Accounts] \cup
  [do: {"pause", "unpause"}, by: Keys] \cup
  [do: {"updateRoles"}, by: Keys, holder: Keys, role: Roles, active: BOOLEAN] \cup
  [do: {"updateMinter"}, by: Keys, minter: Keys, limit: U64,
   period: {"Daily", "Weekly", "Monthly", "Lifetime"}] \cup
  [do: {"transferAuthority"}, by: Keys, new_authority: Keys] \cup
  [do: {"addToBlacklist"}, by: Keys, target: Keys, account: Accounts] \cup
  [do: {"removeFromBlacklist"}, by: Keys, target: Keys] \cup
  [do: {"addToAllowlist", "removeFromAllowlist"}, by: Keys, wallet: Keys] \cup
  [do: {"seize"}, by: Keys, owner: Keys, account: Accounts, treasury: Accounts] \cup
  [do: {"attestReserves"}, by: Keys, amount: U64, dated: BOOLEAN, as_of: Nat]

Commands == UNION Scripts
Audited == {"init", "mint", "burn", "freeze", "thaw", "pause", "unpause", "roles", "transfer-authority",
            "blacklist", "unblacklist", "seize", "minters"}

\* A command sends something; the two that move supply send that one
\* transaction and write it down.
ASSUME CliAssumption ==
  /\ Scripts # {} /\ MaxInterrupts \in Nat
  /\ \A command \in Commands :
       /\ command.txs \in Seq(Transactions) /\ command.txs # <<>>
       /\ \A i \in DOMAIN command.txs :
            command.txs[i].do \in {"mintTokens", "burnTokens"} =>
              Len(command.txs) = 1 /\ command.name \in Audited

VARIABLES
  script,      \* this operator's commands
  cli,         \* the command under way: phase, command, step, tx
  stray,       \* transactions in the network whose process is gone
  interrupts,
  audit        \* what the audit log's lines add up to: tokens minted and burned by commands

cli_vars == <<script, cli, stray, interrupts, audit>>

AtPrompt ==
  [phase |-> "prompt", command |-> [name |-> "none", txs |-> <<>>], step |-> 0, tx |-> [do |-> "nothing"]]

CliInit ==
  /\ script \in Scripts
  /\ cli = AtPrompt
  /\ stray = {} /\ interrupts = 0
  /\ audit = [minted |-> 0, burned |-> 0]

-----------------------------------------------------------------------------
(* What the transactions of each command do when they land.                *)

Initializes(tx)  == tx.do = "initialize" /\ Initialize(tx.by, tx.args)
EnablesAcl(tx)   == tx.do = "enableTokenAcl" /\ enableTokenAcl(tx.by, tx.check_blacklist)
SetsUp(tx)       == tx.do = "setupMinting"
                    /\ setupMinting(tx.by, tx.amount, tx.attestor, tx.staleness, tx.amount, tx.as_of)
Mints(tx)        == tx.do = "mintTokens" /\ mintTokens(tx.by, tx.recipient, tx.amount)
Burns(tx)        == tx.do = "burnTokens" /\ burnTokens(tx.by, tx.amount)

\* The commands name no role record: the builders' defaults.
Freezes(tx)      == tx.do = "freezeAccount" /\ freezeAccount(tx.by, "MasterAuthority", tx.account)
Thaws(tx)        == tx.do = "thawAccount" /\ thawAccount(tx.by, "MasterAuthority", tx.account)
Pauses(tx)       == tx.do = "pause" /\ pause(tx.by, "Pauser")
Unpauses(tx)     == tx.do = "unpause" /\ unpause(tx.by, "Pauser")

GrantsRole(tx)   == tx.do = "updateRoles" /\ updateRoles(tx.by, tx.holder, tx.role, tx.active)
SetsMinter(tx)   == tx.do = "updateMinter" /\ updateMinter(tx.by, tx.minter, tx.limit, tx.period)
HandsOver(tx)    == tx.do = "transferAuthority" /\ transferAuthority(tx.by, tx.new_authority)
Blacklists(tx)   == tx.do = "addToBlacklist" /\ addToBlacklist(tx.by, tx.target, tx.account)
Unblacklists(tx) == tx.do = "removeFromBlacklist" /\ removeFromBlacklist(tx.by, tx.target)
Allowlists(tx)   == \/ tx.do = "addToAllowlist" /\ addToAllowlist(tx.by, tx.wallet)
                    \/ tx.do = "removeFromAllowlist" /\ removeFromAllowlist(tx.by, tx.wallet)
PostsReserves(tx) == tx.do = "attestReserves" /\ attestReserves(tx.by, tx.amount, tx.as_of)

\* The command passes no remaining accounts.
Seizes(tx) == tx.do = "seize" /\ seize(tx.by, tx.owner, tx.account, tx.treasury, FALSE)

Execute(tx) ==
  \/ Initializes(tx) \/ EnablesAcl(tx) \/ SetsUp(tx) \/ Mints(tx) \/ Burns(tx)
  \/ Freezes(tx) \/ Thaws(tx) \/ Pauses(tx) \/ Unpauses(tx)
  \/ GrantsRole(tx) \/ SetsMinter(tx) \/ HandsOver(tx) \/ Allowlists(tx) \/ PostsReserves(tx)
  \/ Blacklists(tx) \/ Unblacklists(tx) \/ Seizes(tx)

\* A post's as_of is the cluster's time when the transaction is built, unless
\* --as-of gave one (dated).
Dated(tx) == IF tx.do \in {"setupMinting", "attestReserves"} /\ ~tx.dated
             THEN [tx EXCEPT !.as_of = now] ELSE tx

\* reserves post reads the attestation first and refuses what it can.
Builds(tx) ==
  tx.do = "attestReserves" => reserve.attestor = tx.by /\ reserve.as_of <= Dated(tx).as_of

Sending(command, step) ==
  /\ Builds(command.txs[step])
  /\ cli' = [phase |-> "sent", command |-> command, step |-> step, tx |-> Dated(command.txs[step])]

Run(command) ==
  /\ command \in script /\ cli.phase = "prompt"
  /\ Sending(command, 1)
  /\ UNCHANGED <<vars, script, stray, interrupts, audit>>

Lands ==
  /\ cli.phase = "sent"
  /\ Execute(cli.tx)
  /\ cli' = [cli EXCEPT !.phase = "landed"]
  /\ UNCHANGED <<script, stray, interrupts, audit>>

\* Refused by the preflight or by the program, or expired: the command throws
\* and what it sent before stands.
Throws ==
  /\ cli.phase = "sent"
  /\ cli' = AtPrompt
  /\ UNCHANGED <<vars, script, stray, interrupts, audit>>

\* sendAndConfirmTransaction returns: the command's next transaction.
NextTx ==
  /\ cli.phase = "landed" /\ cli.step < Len(cli.command.txs)
  /\ Sending(cli.command, cli.step + 1)
  /\ UNCHANGED <<vars, script, stray, interrupts, audit>>

Minted(tx) == IF tx.do = "mintTokens" THEN tx.amount ELSE 0
Burned(tx) == IF tx.do = "burnTokens" THEN tx.amount ELSE 0

AuditLine(tx) == audit' = [minted |-> audit.minted + Minted(tx), burned |-> audit.burned + Burned(tx)]

\* Mutant: the line is written when the transaction is sent.
DoneWhenSent ==
  /\ cli.phase \in {"sent", "landed"} /\ cli.step = Len(cli.command.txs)
  /\ cli' = AtPrompt
  /\ IF cli.command.name \in Audited THEN AuditLine(cli.tx) ELSE UNCHANGED audit
  /\ UNCHANGED <<vars, script, stray, interrupts>>

\* ... or, after the last one, the audit log's line.
Done ==
  /\ cli.phase = "landed" /\ cli.step = Len(cli.command.txs)
  /\ cli' = AtPrompt
  /\ IF cli.command.name \in Audited THEN AuditLine(cli.tx) ELSE UNCHANGED audit
  /\ UNCHANGED <<vars, script, stray, interrupts>>

\* ^C, a lost connection, a closed terminal: what was sent may yet land.
Interrupted ==
  /\ interrupts < MaxInterrupts /\ cli.phase \in {"sent", "landed"}
  /\ interrupts' = interrupts + 1
  /\ stray' = IF cli.phase = "sent" THEN stray \cup {cli.tx} ELSE stray
  /\ cli' = AtPrompt
  /\ UNCHANGED <<vars, script, audit>>

StrayLands(tx) ==
  /\ Execute(tx)
  /\ stray' = stray \ {tx}
  /\ UNCHANGED <<script, cli, interrupts, audit>>

StrayLost(tx) ==
  /\ stray' = stray \ {tx}
  /\ UNCHANGED <<vars, script, cli, interrupts, audit>>

CliNext ==
  \/ \E command \in Commands : Run(command)
  \/ Lands \/ Throws \/ NextTx \/ Done \/ Interrupted
  \/ \E tx \in stray : StrayLands(tx) \/ StrayLost(tx)
=============================================================================
