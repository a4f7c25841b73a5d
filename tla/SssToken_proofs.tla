-------------------------- MODULE SssToken_proofs --------------------------
(***************************************************************************)
(* Proofs about SssToken, for any keys, accounts, arguments and bounds.    *)
(* The inductive invariant adds to the checked ones what the instructions  *)
(* rely on: before initialize nobody has a role and nothing is paused, and *)
(* posted reserves are the present attestor's.                             *)
(***************************************************************************)
EXTENDS SssToken, TLAPS

ConfigType == [authority: Keys \cup {Nobody}, mode: Modes, hook: BOOLEAN, delegate: BOOLEAN,
               frozen: BOOLEAN, allowlist: BOOLEAN, paused: BOOLEAN,
               total_minted: U64, total_burned: U64]
QuotaType  == [exists: BOOLEAN, limit: U64, used: U64,
               period: {"Daily", "Weekly", "Monthly", "Lifetime"}]
TokenType  == [state: {"none", "frozen", "thawed"}, amount: U64, delegate: Keys \cup {Nobody}]
ReserveType == [attestor: Keys \cup {Nobody}, reserves: U64, as_of: 0 .. MaxTime, max_staleness: Nat]
MintType   == [supply: U64, paused: BOOLEAN, freeze_authority: {"config", "token_acl"}]
PeriodNames == {"Daily", "Weekly", "Monthly", "Lifetime"}
Amounts64  == 1 .. U64Max
Positive   == Nat \ {0}

(***************************************************************************)
(* The instructions with any arguments of their types.  Next tries some of *)
(* them; what is proved of a step is proved of all.                        *)
(***************************************************************************)
AnyAuthority(k) ==
  \/ \E args \in InitArgType : Initialize(k, args)
  \/ \E minter \in Keys, limit \in U64, period \in PeriodNames : UpdateMinter(k, minter, limit, period)
  \/ \E grant \in Keys \X Roles, active \in BOOLEAN : UpdateRoles(k, grant[1], grant[2], active)
  \/ \E new_authority \in Keys : TransferAuthority(k, new_authority)
  \/ \E attestor \in Keys, s \in Positive : SetReserveAttestor(k, attestor, s)
  \/ \E w \in Keys : AddToAllowlist(k, w) \/ RemoveFromAllowlist(k, w)
  \/ \E check_blacklist \in BOOLEAN : EnableTokenAcl(k, check_blacklist)

AnyOperator(k) ==
  \/ \E reserves \in U64, as_of \in 0 .. MaxTime : AttestReserves(k, reserves, as_of)
  \/ \E a \in Accounts, amount \in Amounts64 : MintTokens(k, a, amount) \/ BurnTokens(k, a, amount)
  \/ Pause(k) \/ Unpause(k)
  \/ \E a \in Accounts : FreezeAccount(k, a) \/ ThawAccount(k, a) \/ AddToBlacklist(k, a)
  \/ \E w \in Keys : RemoveFromBlacklist(k, w)
  \/ \E a, t \in Accounts : Seize(k, a, t)

AnyExternal ==
  \/ \E a \in Accounts : CreateAccount(a) \/ GateThaw(a) \/ GateFreeze(a)
  \/ \E a \in Accounts, amount \in Amounts64 : HolderBurn(a, amount)
  \/ \E a \in Accounts, d \in Keys : Approve(a, d) \/ Revoke(a)
  \/ \E s \in Keys, a, b \in Accounts, amount \in Amounts64 : Transfer(s, a, b, amount)
  \/ Tick

AnyNext == (\E k \in Keys : AnyAuthority(k) \/ AnyOperator(k)) \/ AnyExternal

\* Before initialize nobody has a role and the mint is not paused.
Untouched == config.authority = Nobody => ~paused /\ \A k \in Keys : roles[k] = {}

\* Positive reserves were signed by the attestor of record.
ReservesSigned == reserve.reserves > 0 => signed_by = reserve.attestor /\ signed_by # Nobody

Inv == TypeOK /\ OneMaster /\ PauseInStep /\ Untouched /\ ReservesSigned

USE DEF Amounts64, Positive, PeriodNames

\* What the runs try is among them.
LEMMA NextIsAny == [Next]_vars => [AnyNext]_vars
<1>. USE SssConstants DEF U64
<1>1. ASSUME NEW k \in Keys, AuthorityNext(k) PROVE AnyAuthority(k)
  BY <1>1 DEF AuthorityNext, AnyAuthority
<1>2. ASSUME NEW k \in Keys, OperatorNext(k) PROVE AnyOperator(k)
  BY <1>2 DEF OperatorNext, AnyOperator
<1>3. ExternalNext => AnyExternal
  <2>1. \A pair \in Delegations : pair[1] \in Accounts /\ pair[2] \in Keys
    OBVIOUS
  <2>. QED  BY <2>1 DEF ExternalNext, AnyExternal
<1>. QED  BY <1>1, <1>2, <1>3 DEF Next, AnyNext

-----------------------------------------------------------------------------
(* Initial states, and what a step of each group of variables preserves.   *)

\* The initial state satisfies the invariant.
LEMMA InitInv == Init => Inv
<1>1. SUFFICES ASSUME Init PROVE Inv
  OBVIOUS
<1>z. 0 \in U64 /\ 0 \in 0 .. MaxTime
  BY SssConstants DEF U64
<1>a. config \in ConfigType
  BY <1>1, <1>z DEF Init, ConfigType, Modes
<1>b. quota \in [Keys -> QuotaType]
  BY <1>1, <1>z DEF Init, QuotaType
<1>c. tokens \in [Accounts -> TokenType] /\ mint \in MintType
  BY <1>1, <1>z DEF Init, TokenType, MintType
<1>d. reserve \in ReserveType
  BY <1>1, <1>z DEF Init, NoReserve, ReserveType
<1>e. roles \in [Keys -> SUBSET Roles] /\ last_mint \in [Keys -> 0 .. MaxTime]
  BY <1>1, <1>z DEF Init
<1>2. TypeOK
  BY <1>1, <1>a, <1>b, <1>c, <1>d, <1>e
     DEF Init, TypeOK, ConfigType, QuotaType, ReserveType, TokenType, MintType
<1>3. OneMaster /\ Untouched
  BY <1>1 DEF Init, OneMaster, Untouched
<1>4. PauseInStep
  <2>1. config.paused = FALSE /\ paused = FALSE /\ mint.paused = FALSE
    BY <1>1 DEF Init
  <2>. QED  BY <2>1 DEF PauseInStep
<1>5. ReservesSigned
  BY <1>1 DEF Init, ReservesSigned, NoReserve
<1>. QED  BY <1>2, <1>3, <1>4, <1>5 DEF Inv

\* Changing one account's state keeps the type of the token accounts.
LEMMA SetStateType ==
  ASSUME NEW a \in Accounts, NEW s \in {"frozen", "thawed"},
         tokens \in [Accounts -> TokenType], SetState(a, s)
  PROVE  tokens' \in [Accounts -> TokenType]
BY DEF SetState, TokenType

\* Naming or dropping a delegate keeps it, and every state and balance.
LEMMA DelegateType ==
  ASSUME NEW a \in Accounts, NEW d \in Keys, tokens \in [Accounts -> TokenType],
         Approve(a, d) \/ Revoke(a)
  PROVE  /\ tokens' \in [Accounts -> TokenType]
         /\ \A c \in Accounts : tokens'[c].amount = tokens[c].amount
BY DEF Approve, Revoke, TokenType

\* A move of `amount` between two accounts keeps the type.
LEMMA MoveType ==
  ASSUME NEW a \in Accounts, NEW b \in Accounts, a # b, NEW amount \in U64,
         tokens \in [Accounts -> TokenType], amount <= tokens[a].amount,
         tokens[b].amount + amount \in U64,
         tokens' = [tokens EXCEPT ![a].amount = @ - amount, ![b].amount = @ + amount]
  PROVE  /\ tokens' \in [Accounts -> TokenType]
         /\ \A c \in Accounts : tokens'[c].state = tokens[c].state
         /\ tokens'[a].amount = tokens[a].amount - amount
         /\ tokens'[b].amount = tokens[b].amount + amount
         /\ \A c \in Accounts \ {a, b} : tokens'[c] = tokens[c]
BY SssConstants DEF TokenType, U64

\* What a seizure does to the accounts.
LEMMA SeizeMoves ==
  ASSUME NEW k \in Keys, NEW a \in Accounts, NEW t \in Accounts,
         tokens \in [Accounts -> TokenType], Seize(k, a, t)
  PROVE  /\ tokens' \in [Accounts -> TokenType]
         /\ t # a => /\ tokens'[a].state = tokens[a].state /\ tokens'[a].amount = 0
                     /\ tokens'[t].state = tokens[t].state
                     /\ tokens'[t].amount = tokens[t].amount + tokens[a].amount
         /\ \A c \in Accounts \ {a, t} : tokens'[c] = tokens[c]
<1>1. CASE t = a
  BY <1>1 DEF Seize
<1>2. CASE t # a
  <2>1. tokens' = [tokens EXCEPT ![a].amount = 0, ![t].amount = @ + tokens[a].amount]
        /\ tokens[t].amount + tokens[a].amount \in U64 /\ 0 \in U64
    BY <1>2, SssConstants DEF Seize, SeizeTransfer, U64
  <2>2. tokens'[a] = [tokens[a] EXCEPT !.amount = 0]
    BY <1>2, <2>1 DEF TokenType
  <2>3. tokens'[t] = [tokens[t] EXCEPT !.amount = @ + tokens[a].amount]
    BY <1>2, <2>1 DEF TokenType
  <2>4. \A c \in Accounts \ {a, t} : tokens'[c] = tokens[c]
    BY <2>1
  <2>5. tokens' = [c \in Accounts |-> tokens'[c]] /\ \A c \in Accounts : tokens[c] \in TokenType
    BY <2>1
  <2>6. tokens'[a] \in TokenType /\ tokens'[a].state = tokens[a].state /\ tokens'[a].amount = 0
    BY <2>1, <2>2, <2>5 DEF TokenType
  <2>7. /\ tokens'[t] \in TokenType /\ tokens'[t].state = tokens[t].state
        /\ tokens'[t].amount = tokens[t].amount + tokens[a].amount
    BY <2>1, <2>3, <2>5 DEF TokenType
  <2>8. \A c \in Accounts : tokens'[c] \in TokenType
    BY <2>4, <2>5, <2>6, <2>7
  <2>. QED  BY <1>2, <2>4, <2>5, <2>6, <2>7, <2>8
<1>. QED  BY <1>1, <1>2

\* A burn keeps the types of the mint and of its accounts.
LEMMA DebitType ==
  ASSUME NEW a \in Accounts, NEW amount \in U64, tokens \in [Accounts -> TokenType],
         mint \in MintType, Debit(a, amount)
  PROVE  tokens' \in [Accounts -> TokenType] /\ mint' \in MintType
BY SssConstants DEF Debit, TokenType, MintType, U64

-----------------------------------------------------------------------------
(* Types.                                                                  *)

\* The parts of TypeOK by name.
LEMMA TypeParts ==
  TypeOK <=> /\ config \in ConfigType /\ roles \in [Keys -> SUBSET Roles]
             /\ quota \in [Keys -> QuotaType] /\ reserve \in ReserveType
             /\ paused \in BOOLEAN /\ mint \in MintType
             /\ gate \in {"none", "open", "blacklist"}
             /\ blacklist \subseteq Keys /\ allowlist \subseteq Keys
             /\ tokens \in [Accounts -> TokenType] /\ now \in 0 .. MaxTime
             /\ signed_by \in Keys \cup {Nobody} /\ last_mint \in [Keys -> 0 .. MaxTime]
BY DEF TypeOK, ConfigType, QuotaType, ReserveType, MintType, TokenType

\* The same, after a step.
LEMMA TypePartsNext ==
  TypeOK' <=> /\ config' \in ConfigType /\ roles' \in [Keys -> SUBSET Roles]
              /\ quota' \in [Keys -> QuotaType] /\ reserve' \in ReserveType
              /\ paused' \in BOOLEAN /\ mint' \in MintType
              /\ gate' \in {"none", "open", "blacklist"}
              /\ blacklist' \subseteq Keys /\ allowlist' \subseteq Keys
              /\ tokens' \in [Accounts -> TokenType] /\ now' \in 0 .. MaxTime
              /\ signed_by' \in Keys \cup {Nobody} /\ last_mint' \in [Keys -> 0 .. MaxTime]
BY DEF TypeOK, ConfigType, QuotaType, ReserveType, MintType, TokenType

\* Every step keeps the types.
LEMMA TypeStep == TypeOK /\ [AnyNext]_vars => TypeOK'
<1>. SUFFICES ASSUME TypeOK, [AnyNext]_vars PROVE TypeOK'
  OBVIOUS
<1>. USE SssConstants, TypeParts
<1>1. ASSUME NEW k \in Keys, NEW args \in InitArgType,
              Initialize(k, args)
      PROVE  TypeOK'
  <2>1. config' \in ConfigType
    BY <1>1 DEF Initialize, ConfigType, InitArgType, Modes, U64
  <2>2. roles' \in [Keys -> SUBSET Roles]
    BY <1>1 DEF Initialize, Roles
  <2>. QED  BY <1>1, <2>1, <2>2, TypePartsNext DEF Initialize
<1>2. ASSUME NEW k \in Keys, NEW m \in Keys, NEW limit \in U64,
              NEW period \in PeriodNames,
              UpdateMinter(k, m, limit, period)
      PROVE  TypeOK'
  <2>1. roles' \in [Keys -> SUBSET Roles]
    BY <1>2 DEF UpdateMinter, Roles
  <2>2. quota' \in [Keys -> QuotaType]
    BY <1>2 DEF UpdateMinter, QuotaType, U64
  <2>3. last_mint' \in [Keys -> 0 .. MaxTime]
    BY <1>2 DEF UpdateMinter
  <2>. QED  BY <1>2, <2>1, <2>2, <2>3, TypePartsNext DEF UpdateMinter
<1>3. ASSUME NEW k \in Keys, NEW grant \in (Keys \X Roles), NEW active \in BOOLEAN,
              UpdateRoles(k, grant[1], grant[2], active)
      PROVE  TypeOK'
  <2>1. roles' \in [Keys -> SUBSET Roles]
    BY <1>3 DEF UpdateRoles, Roles
  <2>. QED  BY <1>3, <2>1, TypePartsNext DEF UpdateRoles
<1>4. ASSUME NEW k \in Keys, NEW n \in Keys,
              TransferAuthority(k, n)
      PROVE  TypeOK'
  <2>1. roles' \in [Keys -> SUBSET Roles]
    BY <1>4 DEF TransferAuthority, Roles
  <2>2. config' \in ConfigType
    BY <1>4 DEF TransferAuthority, ConfigType, InitArgType, Modes, U64
  <2>. QED  BY <1>4, <2>1, <2>2, TypePartsNext DEF TransferAuthority
<1>5. ASSUME NEW k \in Keys, NEW x \in Keys, NEW s \in Positive,
              SetReserveAttestor(k, x, s)
      PROVE  TypeOK'
  <2>1. reserve' \in ReserveType
    BY <1>5 DEF SetReserveAttestor, ReserveType, U64
  <2>. QED  BY <1>5, <2>1, TypePartsNext DEF SetReserveAttestor
<1>6. ASSUME NEW k \in Keys, NEW w \in Keys,
              AddToAllowlist(k, w) \/ RemoveFromAllowlist(k, w)
      PROVE  TypeOK'
  <2>1. allowlist' \subseteq Keys
    BY <1>6 DEF AddToAllowlist, RemoveFromAllowlist
  <2>. QED  BY <1>6, <2>1, TypePartsNext DEF AddToAllowlist, RemoveFromAllowlist
<1>7. ASSUME NEW k \in Keys, NEW check \in BOOLEAN,
              EnableTokenAcl(k, check)
      PROVE  TypeOK'
  <2>1. mint' \in MintType
    BY <1>7 DEF EnableTokenAcl, MintType, U64
  <2>2. gate' \in {"none", "open", "blacklist"}
    BY <1>7 DEF EnableTokenAcl
  <2>. QED  BY <1>7, <2>1, <2>2, TypePartsNext DEF EnableTokenAcl
<1>8. ASSUME NEW k \in Keys, NEW r \in U64, NEW t \in 0 .. MaxTime,
              AttestReserves(k, r, t)
      PROVE  TypeOK'
  <2>1. reserve' \in ReserveType
    BY <1>8 DEF AttestReserves, ReserveType, U64
  <2>2. signed_by' \in Keys \cup {Nobody}
    BY <1>8 DEF AttestReserves
  <2>. QED  BY <1>8, <2>1, <2>2, TypePartsNext DEF AttestReserves
<1>9. ASSUME NEW k \in Keys, NEW a \in Accounts, NEW amount \in Amounts64,
              MintTokens(k, a, amount)
      PROVE  TypeOK'
  <2>1. tokens' \in [Accounts -> TokenType]
    BY <1>9 DEF MintTokens, TokenType, U64
  <2>2. mint' \in MintType
    BY <1>9 DEF MintTokens, MintType, U64
  <2>3. quota' \in [Keys -> QuotaType]
    <3>1. quota' = [quota EXCEPT ![k].used = @ + amount] /\ quota[k].used + amount \in U64
      BY <1>9 DEF MintTokens
    <3>2. [quota[k] EXCEPT !.used = @ + amount] \in QuotaType
      BY <3>1 DEF QuotaType
    <3>. QED  BY <3>1, <3>2
  <2>4. config' \in ConfigType
    BY <1>9 DEF MintTokens, CountMinted, ConfigType, InitArgType, Modes, U64
  <2>5. last_mint' \in [Keys -> 0 .. MaxTime]
    BY <1>9 DEF MintTokens
  <2>. QED  BY <1>9, <2>1, <2>2, <2>3, <2>4, <2>5, TypePartsNext DEF MintTokens
<1>10. ASSUME NEW k \in Keys, NEW a \in Accounts, NEW amount \in Amounts64,
              BurnTokens(k, a, amount)
      PROVE  TypeOK'
  <2>1. tokens' \in [Accounts -> TokenType] /\ mint' \in MintType
    BY <1>10, DebitType DEF BurnTokens, U64
  <2>2. config' \in ConfigType
    BY <1>10 DEF BurnTokens, ConfigType, InitArgType, Modes, U64
  <2>. QED  BY <1>10, <2>1, <2>2, TypePartsNext DEF BurnTokens
<1>11. ASSUME NEW k \in Keys,
              Pause(k) \/ Unpause(k)
      PROVE  TypeOK'
  <2>2. PICK value \in BOOLEAN : SetPaused(k, value)
    BY <1>11 DEF Pause, Unpause
  <2>1. paused' \in BOOLEAN
    BY <2>2, Zenon DEF SetPaused
  <2>4. mint' = mint \/ mint' = [mint EXCEPT !.paused = value]
    BY <2>2 DEF SetPaused
  <2>5. mint' \in MintType
    BY <2>4 DEF MintType
  <2>3. config' \in ConfigType
    <3>1. config' = [config EXCEPT !.paused = value]
      BY <2>2 DEF SetPaused
    <3>. QED  BY <3>1 DEF ConfigType
  <2>6. UNCHANGED <<roles, quota, reserve, gate, blacklist, allowlist, tokens, now,
                    signed_by, last_mint>>
    BY <2>2 DEF SetPaused
  <2>. QED  BY <2>1, <2>3, <2>5, <2>6, TypePartsNext
<1>12. ASSUME NEW k \in Keys, NEW a \in Accounts,
              FreezeAccount(k, a) \/ ThawAccount(k, a)
      PROVE  TypeOK'
  <2>1. tokens' \in [Accounts -> TokenType]
    BY <1>12, SetStateType DEF FreezeAccount, ThawAccount
  <2>. QED  BY <1>12, <2>1, TypePartsNext DEF FreezeAccount, ThawAccount
<1>13. ASSUME NEW k \in Keys, NEW a \in Accounts,
              AddToBlacklist(k, a)
      PROVE  TypeOK'
  <2>1. tokens' \in [Accounts -> TokenType]
    BY <1>13, SetStateType DEF AddToBlacklist
  <2>2. blacklist' \subseteq Keys
    BY <1>13 DEF AddToBlacklist
  <2>. QED  BY <1>13, <2>1, <2>2, TypePartsNext DEF AddToBlacklist
<1>14. ASSUME NEW k \in Keys, NEW w \in Keys,
              RemoveFromBlacklist(k, w)
      PROVE  TypeOK'
  <2>1. blacklist' \subseteq Keys
    BY <1>14 DEF RemoveFromBlacklist
  <2>. QED  BY <1>14, <2>1, TypePartsNext DEF RemoveFromBlacklist
<1>15. ASSUME NEW k \in Keys, NEW a \in Accounts, NEW t \in Accounts,
              Seize(k, a, t)
      PROVE  TypeOK'
  <2>1. tokens' \in [Accounts -> TokenType]
    BY <1>15, SeizeMoves
  <2>2. config' \in ConfigType
    BY <1>15 DEF Seize, ConfigType, InitArgType, Modes, U64
  <2>. QED  BY <1>15, <2>1, <2>2, TypePartsNext DEF Seize
<1>16. ASSUME NEW a \in Accounts,
              CreateAccount(a) \/ GateThaw(a) \/ GateFreeze(a)
      PROVE  TypeOK'
  <2>1. tokens' \in [Accounts -> TokenType]
    BY <1>16, SetStateType DEF CreateAccount, GateThaw, GateFreeze
  <2>. QED  BY <1>16, <2>1, TypePartsNext DEF CreateAccount, GateThaw, GateFreeze
<1>17. ASSUME NEW a \in Accounts, NEW amount \in Amounts64,
              HolderBurn(a, amount)
      PROVE  TypeOK'
  <2>1. tokens' \in [Accounts -> TokenType] /\ mint' \in MintType
    BY <1>17, DebitType DEF HolderBurn, U64
  <2>. QED  BY <1>17, <2>1, TypePartsNext DEF HolderBurn
<1>18. ASSUME NEW s \in Keys, NEW a \in Accounts, NEW b \in Accounts, NEW amount \in Amounts64,
              Transfer(s, a, b, amount)
      PROVE  TypeOK'
  <2>1. /\ a # b /\ amount \in U64 /\ amount <= tokens[a].amount
        /\ tokens[b].amount + amount \in U64 /\ tokens \in [Accounts -> TokenType]
        /\ tokens' = [tokens EXCEPT ![a].amount = @ - amount, ![b].amount = @ + amount]
    BY <1>18 DEF Transfer, U64
  <2>2. tokens' \in [Accounts -> TokenType]
    BY ONLY <2>1, MoveType
  <2>. QED  BY <1>18, <2>2, TypePartsNext DEF Transfer
<1>21. ASSUME NEW a \in Accounts, NEW d \in Keys, Approve(a, d) \/ Revoke(a)
      PROVE  TypeOK'
  <2>1. tokens' \in [Accounts -> TokenType]
    BY <1>21, DelegateType
  <2>. QED  BY <1>21, <2>1, TypePartsNext DEF Approve, Revoke
<1>19. CASE Tick
  <2>1. now' \in 0 .. MaxTime
    BY <1>19 DEF Tick
  <2>. QED  BY <1>19, <2>1, TypePartsNext DEF Tick
<1>20. CASE UNCHANGED vars
  BY <1>20, TypePartsNext DEF vars
<1>. QED
  BY <1>1, <1>2, <1>3, <1>4, <1>5, <1>6, <1>7, <1>8, <1>9, <1>10, <1>11, <1>12, <1>13, <1>14, <1>15, <1>16, <1>17, <1>18, <1>19, <1>20, <1>21
     DEF AnyNext, AnyAuthority, AnyOperator, AnyExternal

-----------------------------------------------------------------------------
(* The inductive invariant.  Few steps touch what its parts speak of.      *)

\* A step that leaves roles, pause flags, reserves and who the config names.
Quiet ==
  /\ UNCHANGED <<roles, reserve, paused, signed_by, mint.paused>>
  /\ UNCHANGED <<config.authority, config.mode, config.hook, config.paused>>

\* The other steps: initialize, roles.rs, reserves.rs, pause.rs.
Loud(k) ==
  \/ \E args \in InitArgType : Initialize(k, args)
  \/ \E m \in Keys, limit \in U64, period \in PeriodNames : UpdateMinter(k, m, limit, period)
  \/ \E grant \in (Keys \X Roles), active \in BOOLEAN : UpdateRoles(k, grant[1], grant[2], active)
  \/ \E n \in Keys : TransferAuthority(k, n)
  \/ \E x \in Keys, s \in Positive : SetReserveAttestor(k, x, s)
  \/ \E r \in U64, t \in 0 .. MaxTime : AttestReserves(k, r, t)
  \/ \E value \in BOOLEAN : SetPaused(k, value)

\* Every step is one of the instructions the properties are about, or one that
\* leaves roles, flags, reserves and balances alone.
LEMMA Steps ==
  ASSUME TypeOK, [AnyNext]_vars
  PROVE  (\E k \in Keys : Loud(k)) \/ Quiet
<1>. USE TypeParts
<1>1. ASSUME NEW k \in Keys, NEW w \in Keys,
             AddToAllowlist(k, w) \/ RemoveFromAllowlist(k, w) \/ RemoveFromBlacklist(k, w)
      PROVE  Quiet
  BY <1>1 DEF AddToAllowlist, RemoveFromAllowlist, RemoveFromBlacklist, Quiet
<1>2. ASSUME NEW k \in Keys, NEW check \in BOOLEAN, EnableTokenAcl(k, check)
      PROVE  Quiet
  BY <1>2 DEF EnableTokenAcl, Quiet, MintType
<1>3. ASSUME NEW k \in Keys, NEW a \in Accounts, NEW amount \in Amounts64, MintTokens(k, a, amount)
      PROVE  Quiet
  BY <1>3 DEF MintTokens, CountMinted, Quiet, MintType, ConfigType
<1>4. ASSUME NEW k \in Keys, NEW a \in Accounts, NEW amount \in Amounts64, BurnTokens(k, a, amount)
      PROVE  Quiet
  BY <1>4 DEF BurnTokens, Debit, Quiet, MintType, ConfigType
<1>5. ASSUME NEW k \in Keys, NEW a \in Accounts,
             FreezeAccount(k, a) \/ ThawAccount(k, a) \/ AddToBlacklist(k, a)
      PROVE  Quiet
  BY <1>5 DEF FreezeAccount, ThawAccount, AddToBlacklist, Quiet
<1>6. ASSUME NEW k \in Keys, NEW a \in Accounts, NEW t \in Accounts, Seize(k, a, t)
      PROVE  Quiet
  BY <1>6 DEF Seize, Quiet, ConfigType
<1>7. ASSUME NEW s \in Keys, NEW a \in Accounts, NEW b \in Accounts, NEW amount \in Amounts64,
             Transfer(s, a, b, amount)
      PROVE  Quiet
  BY <1>7 DEF Transfer, Quiet
<1>8. ASSUME NEW a \in Accounts, CreateAccount(a) \/ GateThaw(a) \/ GateFreeze(a)
      PROVE  Quiet
  BY <1>8 DEF CreateAccount, GateThaw, GateFreeze, Quiet
<1>9. ASSUME NEW a \in Accounts, NEW amount \in Amounts64, HolderBurn(a, amount)
      PROVE  Quiet
  BY <1>9 DEF HolderBurn, Debit, Quiet, MintType
<1>14. ASSUME NEW a \in Accounts, NEW d \in Keys, Approve(a, d) \/ Revoke(a)
      PROVE  Quiet
  BY <1>14 DEF Approve, Revoke, Quiet
<1>10. Tick \/ UNCHANGED vars => Quiet
  BY DEF Tick, vars, Quiet
<1>11. ASSUME NEW k \in Keys, AnyAuthority(k)
       PROVE  Loud(k) \/ Quiet
  BY <1>1, <1>2, <1>11, Zenon DEF AnyAuthority, Loud
<1>12. ASSUME NEW k \in Keys, AnyOperator(k)
       PROVE  Loud(k) \/ Quiet
  <2>1. Pause(k) \/ Unpause(k) => Loud(k)
    BY DEF Pause, Unpause, Loud
  <2>. QED  BY <1>1, <1>3, <1>4, <1>5, <1>6, <1>12, <2>1, Zenon DEF AnyOperator, Loud
<1>13. ASSUME AnyExternal
       PROVE  Quiet
  BY <1>7, <1>8, <1>9, <1>10, <1>13, <1>14, Zenon DEF AnyExternal
<1>. QED  BY <1>10, <1>11, <1>12, <1>13 DEF AnyNext

\* The invariant is inductive.
LEMMA InvStep == Inv /\ [AnyNext]_vars => Inv'
<1>. SUFFICES ASSUME Inv, [AnyNext]_vars PROVE Inv'
  OBVIOUS
<1>. USE DEF Inv
<1>t. TypeOK'
  BY TypeStep
<1>. USE TypeParts, SssConstants
<1>1. ASSUME NEW k \in Keys, NEW args \in InitArgType, Initialize(k, args)
      PROVE  Inv'
  <2>1. config.authority = Nobody /\ ~paused /\ mint.paused = FALSE
    BY <1>1 DEF Initialize, Untouched, PauseInStep
  <2>2. config'.authority = k /\ config'.paused = FALSE /\ k # Nobody
    BY <1>1 DEF Initialize
  <2>3. UNCHANGED <<mint, paused, reserve, signed_by>>
    BY <1>1 DEF Initialize
  <2>4. \A j \in Keys : roles'[j] = IF j = k THEN {"MasterAuthority"} ELSE {}
    BY <1>1, <2>1 DEF Initialize, Untouched
  <2>5. OneMaster' /\ Untouched'
    BY <2>2, <2>4 DEF OneMaster, IsMaster, Untouched
  <2>6. PauseInStep'
    BY <2>1, <2>2, <2>3 DEF PauseInStep
  <2>7. ReservesSigned'
    BY <2>3 DEF ReservesSigned
  <2>. QED  BY <1>t, <2>5, <2>6, <2>7
<1>2. ASSUME NEW k \in Keys, NEW m \in Keys, NEW role \in Roles \ {"MasterAuthority"},
             IsMaster(k), roles' = [roles EXCEPT ![m] = @ \cup {role}]
                          \/ roles' = [roles EXCEPT ![m] = @ \ {role}],
             UNCHANGED <<config, reserve, paused, mint, signed_by>>
      PROVE  Inv'
  <2>1. config.authority # Nobody
    BY <1>2 DEF IsMaster, Untouched
  <2>2. \A j \in Keys : IsMaster(j)' <=> IsMaster(j)
    BY <1>2 DEF IsMaster
  <2>3. OneMaster' /\ Untouched'
    BY <1>2, <2>1, <2>2 DEF OneMaster, Untouched
  <2>4. PauseInStep' /\ ReservesSigned'
    BY <1>2 DEF PauseInStep, UsesTokenAcl, ReservesSigned
  <2>. QED  BY <1>t, <2>3, <2>4
<1>3. ASSUME NEW k \in Keys, NEW m \in Keys, NEW limit \in U64, NEW period \in PeriodNames,
             UpdateMinter(k, m, limit, period)
      PROVE  Inv'
  <2>1. /\ IsMaster(k) /\ "Minter" \in Roles \ {"MasterAuthority"}
        /\ roles' = [roles EXCEPT ![m] = @ \cup {"Minter"}]
        /\ UNCHANGED <<config, reserve, paused, mint, signed_by>>
    BY <1>3 DEF UpdateMinter, Roles
  <2>. QED  BY <1>2, <2>1
<1>4. ASSUME NEW k \in Keys, NEW grant \in (Keys \X Roles), NEW active \in BOOLEAN,
             UpdateRoles(k, grant[1], grant[2], active)
      PROVE  Inv'
  <2>1. grant[1] \in Keys /\ grant[2] \in Roles \ {"MasterAuthority"}
    BY <1>4 DEF UpdateRoles
  <2>. QED  BY <1>2, <1>4, <2>1 DEF UpdateRoles
<1>5. ASSUME NEW k \in Keys, NEW n \in Keys, TransferAuthority(k, n)
      PROVE  Inv'
  <2>1. n \in Keys /\ n # k /\ k = config.authority
    BY <1>5 DEF TransferAuthority, IsMaster, OneMaster, Untouched
  <2>2. config'.authority = n /\ config'.paused = config.paused /\ config'.mode = config.mode
    BY <1>5 DEF TransferAuthority, ConfigType
  <2>3. UNCHANGED <<reserve, paused, mint, signed_by>>
    BY <1>5 DEF TransferAuthority
  <2>4. \A j \in Keys : roles'[j] = IF j = k THEN roles[k] \ {"MasterAuthority"}
                                   ELSE IF j = n THEN roles[n] \cup {"MasterAuthority"}
                                   ELSE roles[j]
    BY <1>5, <2>1 DEF TransferAuthority
  <2>5. \A j \in Keys : IsMaster(j)' <=> j = n
    BY <1>5, <2>1, <2>4 DEF OneMaster, IsMaster, TransferAuthority
  <2>6. OneMaster' /\ Untouched'
    BY <2>1, <2>2, <2>5 DEF OneMaster, Untouched
  <2>7. PauseInStep' /\ ReservesSigned'
    BY <2>2, <2>3 DEF PauseInStep, UsesTokenAcl, ReservesSigned
  <2>. QED  BY <1>t, <2>6, <2>7
<1>6. ASSUME NEW k \in Keys, NEW x \in Keys, NEW s \in Positive, SetReserveAttestor(k, x, s)
      PROVE  Inv'
  <2>1. OneMaster' /\ Untouched' /\ PauseInStep'
    BY <1>6 DEF SetReserveAttestor, OneMaster, IsMaster, Untouched, PauseInStep, UsesTokenAcl
  <2>2. ReservesSigned'
    BY <1>6 DEF SetReserveAttestor, ReservesSigned, ReserveType
  <2>. QED  BY <1>t, <2>1, <2>2
<1>7. ASSUME NEW k \in Keys, NEW r \in U64, NEW t \in 0 .. MaxTime, AttestReserves(k, r, t)
      PROVE  Inv'
  <2>1. OneMaster' /\ Untouched' /\ PauseInStep'
    BY <1>7 DEF AttestReserves, OneMaster, IsMaster, Untouched, PauseInStep, UsesTokenAcl
  <2>2. ReservesSigned'
    BY <1>7 DEF AttestReserves, ReservesSigned, ReserveType
  <2>. QED  BY <1>t, <2>1, <2>2
<1>8. ASSUME NEW k \in Keys, NEW value \in BOOLEAN, SetPaused(k, value)
      PROVE  Inv'
  <2>1. config.authority # Nobody
    BY <1>8 DEF SetPaused, ValidatePauser, Untouched
  <2>2. /\ config'.authority = config.authority /\ config'.mode = config.mode
        /\ config'.paused = value
    BY <1>8 DEF SetPaused, ConfigType
  <2>3. paused' = value /\ UNCHANGED <<roles, reserve, signed_by>>
    BY <1>8 DEF SetPaused
  <2>4. OneMaster' /\ Untouched' /\ ReservesSigned'
    BY <2>1, <2>2, <2>3 DEF OneMaster, IsMaster, Untouched, ReservesSigned
  <2>5. CASE UsesTokenAcl
    <3>1. mint'.paused = value /\ UsesTokenAcl'
      BY <1>8, <2>2, <2>5 DEF SetPaused, UsesTokenAcl, MintType
    <3>. QED  BY <1>t, <2>2, <2>3, <2>4, <3>1 DEF PauseInStep
  <2>6. CASE ~UsesTokenAcl
    <3>1. mint'.paused = FALSE /\ ~UsesTokenAcl'
      BY <1>8, <2>2, <2>6 DEF SetPaused, UsesTokenAcl, PauseInStep
    <3>. QED  BY <1>t, <2>2, <2>3, <2>4, <3>1 DEF PauseInStep
  <2>. QED  BY <2>5, <2>6
<1>9. CASE Quiet
  BY <1>t, <1>9 DEF Quiet, OneMaster, IsMaster, Untouched, PauseInStep, UsesTokenAcl, ReservesSigned
<1>. QED
  BY <1>1, <1>3, <1>4, <1>5, <1>6, <1>7, <1>8, <1>9, Steps DEF Loud

\* It holds in every reachable state.
LEMMA Invariant == Spec => []Inv
BY InitInv, InvStep, NextIsAny, PTL DEF Spec

-----------------------------------------------------------------------------
(* Steps that move tokens.                                                 *)

\* A step that moves none.
Still == mint'.supply = mint.supply /\ \A a \in Accounts : tokens'[a].amount = tokens[a].amount

\* Tokens move by a mint, a burn, a transfer or a seizure.
LEMMA Moves ==
  ASSUME TypeOK, [AnyNext]_vars
  PROVE  \/ \E k \in Keys, a \in Accounts, amount \in Amounts64 : MintTokens(k, a, amount)
         \/ \E a \in Accounts, amount \in Amounts64 : Debit(a, amount)
         \/ \E s \in Keys, a, b \in Accounts, amount \in Amounts64 : Transfer(s, a, b, amount)
         \/ \E k \in Keys, a, t \in Accounts : Seize(k, a, t)
         \/ Still
<1>. USE TypeParts
<1>1. ASSUME NEW a \in Accounts, NEW s \in {"frozen", "thawed"}, SetState(a, s), mint' = mint
      PROVE  Still
  BY <1>1 DEF SetState, Still, TokenType
<1>2. ASSUME NEW k \in Keys, NEW a \in Accounts,
             FreezeAccount(k, a) \/ ThawAccount(k, a) \/ AddToBlacklist(k, a)
      PROVE  Still
  BY <1>1, <1>2 DEF FreezeAccount, ThawAccount, AddToBlacklist
<1>3. ASSUME NEW a \in Accounts, CreateAccount(a) \/ GateThaw(a) \/ GateFreeze(a)
      PROVE  Still
  BY <1>1, <1>3 DEF CreateAccount, GateThaw, GateFreeze
<1>4. ASSUME NEW k \in Keys, NEW value \in BOOLEAN, SetPaused(k, value)
      PROVE  Still
  <2>1. tokens' = tokens /\ (mint' = mint \/ mint' = [mint EXCEPT !.paused = value])
    BY <1>4 DEF SetPaused
  <2>. QED  BY <2>1 DEF Still, MintType
<1>5. ASSUME NEW k \in Keys, NEW check \in BOOLEAN, EnableTokenAcl(k, check)
      PROVE  Still
  BY <1>5 DEF EnableTokenAcl, Still, MintType
<1>6. ASSUME UNCHANGED <<mint, tokens>>
      PROVE  Still
  BY <1>6 DEF Still
<1>7. ASSUME NEW a \in Accounts, NEW d \in Keys, Approve(a, d) \/ Revoke(a)
      PROVE  Still
  BY <1>7, DelegateType DEF Approve, Revoke, Still
<1>. QED
  BY <1>2, <1>3, <1>4, <1>5, <1>6, <1>7
     DEF AnyNext, AnyAuthority, AnyOperator, AnyExternal, Initialize, UpdateMinter, UpdateRoles,
         TransferAuthority, SetReserveAttestor, AddToAllowlist, RemoveFromAllowlist,
         AttestReserves, Pause, Unpause, RemoveFromBlacklist, Tick, BurnTokens, HolderBurn, vars

\* What a mint, a burn and a transfer do to supply and balances.
LEMMA MintMoves ==
  ASSUME TypeOK, NEW k \in Keys, NEW a \in Accounts, NEW amount \in Amounts64, MintTokens(k, a, amount)
  PROVE  /\ mint'.supply = mint.supply + amount
         /\ tokens[a].state # "frozen"
         /\ tokens'[a].amount = tokens[a].amount + amount
         /\ \A c \in Accounts \ {a} : tokens'[c] = tokens[c]
BY TypeParts DEF MintTokens, Thawed, TokenType, MintType

\* A burn takes from one account what it takes from the supply.
LEMMA BurnMoves ==
  ASSUME TypeOK, NEW a \in Accounts, NEW amount \in Amounts64, Debit(a, amount)
  PROVE  /\ mint'.supply = mint.supply - amount
         /\ tokens[a].state = "thawed" /\ ~mint.paused
         /\ tokens'[a].amount = tokens[a].amount - amount
         /\ \A c \in Accounts \ {a} : tokens'[c] = tokens[c]
BY TypeParts DEF Debit, Thawed, TokenType, MintType

\* A transfer moves an amount between two thawed accounts.
LEMMA TransferMoves ==
  ASSUME TypeOK, NEW s \in Keys, NEW a \in Accounts, NEW b \in Accounts, NEW amount \in Amounts64, Transfer(s, a, b, amount)
  PROVE  /\ mint' = mint /\ a # b
         /\ tokens[a].state = "thawed" /\ tokens[b].state = "thawed" /\ ~mint.paused
         /\ s \in {OwnerOf[a], tokens[a].delegate} /\ HookAllows(s, b)
         /\ tokens'[a].amount = tokens[a].amount - amount
         /\ tokens'[b].amount = tokens[b].amount + amount
         /\ \A c \in Accounts \ {a, b} : tokens'[c] = tokens[c]
<1>1. amount \in U64
  BY SssConstants DEF U64
<1>2. /\ a # b /\ amount <= tokens[a].amount /\ tokens[b].amount + amount \in U64
      /\ tokens' = [tokens EXCEPT ![a].amount = @ - amount, ![b].amount = @ + amount]
  BY DEF Transfer
<1>3. /\ mint' = mint /\ ~mint.paused /\ HookAllows(s, b)
      /\ tokens[a].state = "thawed" /\ tokens[b].state = "thawed"
      /\ s \in {OwnerOf[a], tokens[a].delegate}
  BY DEF Transfer, Thawed
<1>4. tokens \in [Accounts -> TokenType]
  BY TypeParts
<1>. HIDE DEF Transfer
<1>. QED  BY <1>1, <1>2, <1>3, <1>4, MoveType

-----------------------------------------------------------------------------
(* The theorems.                                                           *)

\* Types are kept (the program's checked arithmetic included).
THEOREM SssTypeCorrect == Spec => []TypeOK
BY Invariant, PTL DEF Inv

\* MasterAuthority is neither doubled nor lost.
THEOREM MasterIsUnique == Spec => []OneMaster
BY Invariant, PTL DEF Inv

\* PauseState, the config and the Pausable extension agree.
THEOREM PauseStaysInStep == Spec => []PauseInStep
BY Invariant, PTL DEF Inv

\* Frozen balances move only by seizure from a blacklisted owner.
THEOREM FrozenStaysPut == Spec => FrozenMovesOnlyBySeizure
<1>1. ASSUME Inv, [AnyNext]_vars, NEW a \in Accounts,
             tokens[a].state = "frozen", tokens'[a].amount # tokens[a].amount
      PROVE  /\ OwnerOf[a] \in blacklist
             /\ tokens'[a].state = "frozen" /\ tokens'[a].amount = 0
             /\ mint'.supply = mint.supply
  <2>. USE <1>1 DEF Inv
  <2>1. ASSUME NEW k \in Keys, NEW b \in Accounts, NEW amount \in Amounts64, MintTokens(k, b, amount)
        PROVE  FALSE
    BY <2>1, MintMoves
  <2>2. ASSUME NEW b \in Accounts, NEW amount \in Amounts64, Debit(b, amount)
        PROVE  FALSE
    BY <2>2, BurnMoves
  <2>3. ASSUME NEW s \in Keys, NEW b \in Accounts, NEW c \in Accounts, NEW amount \in Amounts64, Transfer(s, b, c, amount)
        PROVE  FALSE
    BY <2>3, TransferMoves
  <2>4. ASSUME NEW k \in Keys, NEW b \in Accounts, NEW t \in Accounts, Seize(k, b, t)
        PROVE  /\ OwnerOf[a] \in blacklist
               /\ tokens'[a].state = "frozen" /\ tokens'[a].amount = 0
               /\ mint'.supply = mint.supply
    <3>1. t # b
      BY <2>4 DEF Seize
    <3>2. Thawed(t) /\ OwnerOf[b] \in blacklist /\ mint' = mint
      BY <2>4, <3>1 DEF Seize, SeizeTransfer, SeizeChecks
    <3>3. /\ tokens'[b].state = tokens[b].state /\ tokens'[b].amount = 0
          /\ \A c \in Accounts \ {b, t} : tokens'[c] = tokens[c]
      BY <2>4, <3>1, SeizeMoves, TypeParts
    <3>4. a # t
      BY <3>2 DEF Thawed
    <3>5. a = b
      BY <3>3, <3>4
    <3>. QED  BY <3>2, <3>3, <3>5
  <2>5. ~Still
    BY DEF Still
  <2>. QED  BY <2>1, <2>2, <2>3, <2>4, <2>5, Moves
<1>2. Inv /\ [AnyNext]_vars =>
        \A a \in Accounts :
          tokens[a].state = "frozen" /\ tokens'[a].amount # tokens[a].amount =>
            /\ OwnerOf[a] \in blacklist
            /\ tokens'[a].state = "frozen" /\ tokens'[a].amount = 0
            /\ mint'.supply = mint.supply
  BY <1>1
<1>. QED  BY <1>2, Invariant, NextIsAny, PTL DEF Spec, FrozenMovesOnlyBySeizure

\* New supply is covered by fresh reserves that the attestor of record signed.
LEMMA MintIsBacked ==
  ASSUME Inv, [AnyNext]_vars, mint'.supply > mint.supply,
         UsesTokenAcl \/ reserve.attestor # Nobody
  PROVE  /\ signed_by = reserve.attestor /\ signed_by # Nobody
         /\ mint'.supply <= reserve.reserves
         /\ now - reserve.as_of <= reserve.max_staleness
<1>. USE DEF Inv
<1>. USE TypeParts, SssConstants
<1>1. mint.supply \in U64 /\ \A amount \in Amounts64 : amount \in U64 /\ amount > 0
  BY DEF MintType, U64
<1>2. ASSUME NEW k \in Keys, NEW a \in Accounts, NEW amount \in Amounts64, MintTokens(k, a, amount)
      PROVE  /\ signed_by = reserve.attestor /\ signed_by # Nobody
             /\ mint'.supply <= reserve.reserves
             /\ now - reserve.as_of <= reserve.max_staleness
  <2>1. /\ reserve.attestor # Nobody
        /\ now - reserve.as_of <= reserve.max_staleness
        /\ mint.supply + amount <= reserve.reserves
    BY <1>2 DEF MintTokens, CheckReserveAttestation
  <2>2. mint'.supply <= reserve.reserves
    BY <1>2, <2>1, MintMoves
  <2>3. reserve.reserves > 0
    BY <1>1, <2>1 DEF U64, ReserveType
  <2>. QED  BY <2>1, <2>2, <2>3 DEF ReservesSigned
<1>3. ASSUME NEW a \in Accounts, NEW amount \in Amounts64, Debit(a, amount)
      PROVE  FALSE
  BY <1>1, <1>3, BurnMoves DEF U64
<1>4. ASSUME NEW s \in Keys, NEW a \in Accounts, NEW b \in Accounts, NEW amount \in Amounts64, Transfer(s, a, b, amount)
      PROVE  FALSE
  BY <1>1, <1>4, TransferMoves DEF U64
<1>5. ASSUME NEW k \in Keys, NEW a \in Accounts, NEW t \in Accounts, Seize(k, a, t)
      PROVE  FALSE
  BY <1>1, <1>5 DEF Seize, U64
<1>6. ~Still
  BY <1>1 DEF Still, U64
<1>. QED  BY <1>2, <1>3, <1>4, <1>5, <1>6, Moves

\* So it is in every step of the program.
THEOREM MintsStayBacked == Spec => MintsAreBacked
<1>1. Inv /\ [AnyNext]_vars =>
        (mint'.supply > mint.supply /\ (UsesTokenAcl \/ reserve.attestor # Nobody) =>
           /\ signed_by = reserve.attestor /\ signed_by # Nobody
           /\ mint'.supply <= reserve.reserves
           /\ now - reserve.as_of <= reserve.max_staleness)
  BY MintIsBacked
<1>. QED  BY <1>1, Invariant, NextIsAny, PTL DEF Spec, MintsAreBacked

\* While a Token ACL mode mint is paused only a seizure lowers a balance.
THEOREM PausedMintStaysStill == Spec => PausedMintIsStill
<1>1. ASSUME Inv, [AnyNext]_vars, paused, UsesTokenAcl
      PROVE  /\ mint'.supply = mint.supply
             /\ \A a \in Accounts :
                  tokens'[a].amount < tokens[a].amount =>
                    tokens[a].state = "frozen" /\ OwnerOf[a] \in blacklist
  <2>. USE <1>1 DEF Inv
  <2>0. mint.paused /\ \A a \in Accounts : tokens[a].amount \in U64
    BY TypeParts DEF PauseInStep, TokenType
  <2>1. ASSUME NEW k \in Keys, NEW a \in Accounts, NEW amount \in Amounts64, MintTokens(k, a, amount)
        PROVE  FALSE
    BY <2>1 DEF MintTokens
  <2>2. ASSUME NEW a \in Accounts, NEW amount \in Amounts64, Debit(a, amount)
        PROVE  FALSE
    BY <2>0, <2>2, BurnMoves
  <2>3. ASSUME NEW s \in Keys, NEW a \in Accounts, NEW b \in Accounts, NEW amount \in Amounts64, Transfer(s, a, b, amount)
        PROVE  FALSE
    BY <2>0, <2>3, TransferMoves
  <2>4. ASSUME NEW k \in Keys, NEW b \in Accounts, NEW t \in Accounts, Seize(k, b, t),
               NEW a \in Accounts, tokens'[a].amount < tokens[a].amount
        PROVE  tokens[a].state = "frozen" /\ OwnerOf[a] \in blacklist
    <3>1. CASE t = b
      BY <2>0, <2>4, <3>1 DEF Seize, U64
    <3>2. CASE t # b
      <4>0. tokens \in [Accounts -> TokenType] /\ Seize(k, b, t)
        BY <2>4, TypeParts
      <4>1. /\ tokens'[t].amount = tokens[t].amount + tokens[b].amount
            /\ \A c \in Accounts \ {b, t} : tokens'[c] = tokens[c]
        BY ONLY <4>0, <3>2, SeizeMoves
      <4>2. a = b
        BY <2>0, <2>4, <4>1 DEF U64
      <4>. QED  BY <2>4, <4>2 DEF Seize, SeizeChecks
    <3>. QED  BY <3>1, <3>2
  <2>5. ASSUME NEW k \in Keys, NEW a \in Accounts, NEW t \in Accounts, Seize(k, a, t)
        PROVE  mint'.supply = mint.supply
    BY <2>5 DEF Seize
  <2>6. CASE Still
    BY <2>0, <2>6 DEF Still, U64
  <2>. QED  BY <2>1, <2>2, <2>3, <2>4, <2>5, <2>6, Moves
<1>2. Inv /\ [AnyNext]_vars =>
        (paused /\ UsesTokenAcl =>
           /\ mint'.supply = mint.supply
           /\ \A a \in Accounts :
                tokens'[a].amount < tokens[a].amount =>
                  tokens[a].state = "frozen" /\ OwnerOf[a] \in blacklist)
  BY <1>1
<1>. QED  BY <1>2, Invariant, NextIsAny, PTL DEF Spec, PausedMintIsStill

\* With the hook no transfer reaches a blacklisted wallet, and one leaves it only
\* under the signature of a delegate he approved who is not blacklisted.
THEOREM HookKeepsBlacklistedStill == Spec => HookHoldsBlacklisted
<1>1. ASSUME Inv, [AnyNext]_vars, config.hook, NEW a \in Accounts, OwnerOf[a] \in blacklist
      PROVE  /\ tokens'[a].amount > tokens[a].amount => mint'.supply > mint.supply
             /\ tokens'[a].amount < tokens[a].amount =>
                  \/ mint'.supply < mint.supply
                  \/ tokens[a].state = "frozen"
                  \/ tokens[a].delegate \notin blacklist \cup {Nobody}
  <2>. USE <1>1 DEF Inv
  <2>0. /\ mint.supply \in U64 /\ \A c \in Accounts : tokens[c].amount \in U64
        /\ \A amount \in Amounts64 : amount \in U64 /\ amount > 0
    BY TypeParts, SssConstants DEF TokenType, MintType, U64
  <2>1. ASSUME NEW k \in Keys, NEW b \in Accounts, NEW amount \in Amounts64, MintTokens(k, b, amount)
        PROVE  mint'.supply > mint.supply /\ ~(tokens'[a].amount < tokens[a].amount)
    BY <2>0, <2>1, MintMoves DEF U64
  <2>2. ASSUME NEW b \in Accounts, NEW amount \in Amounts64, Debit(b, amount)
        PROVE  mint'.supply < mint.supply /\ ~(tokens'[a].amount > tokens[a].amount)
    BY <2>0, <2>2, BurnMoves DEF U64
  <2>3. ASSUME NEW s \in Keys, NEW b \in Accounts, NEW c \in Accounts, NEW amount \in Amounts64, Transfer(s, b, c, amount)
        PROVE  /\ ~(tokens'[a].amount > tokens[a].amount)
               /\ tokens'[a].amount < tokens[a].amount =>
                    tokens[a].delegate \notin blacklist \cup {Nobody}
    <3>1. /\ s \in {OwnerOf[b], tokens[b].delegate} /\ s \notin blacklist /\ s # Nobody
          /\ OwnerOf[c] \notin blacklist
      BY <2>3, TransferMoves, SssConstants DEF HookAllows
    <3>2. a # c
      BY <3>1
    <3>3. CASE a # b
      <4>1. tokens'[a] = tokens[a]
        BY <2>3, <3>2, <3>3, TransferMoves
      <4>. QED  BY <2>0, <4>1 DEF U64
    <3>4. CASE a = b
      <4>1. tokens'[a].amount = tokens[a].amount - amount
        BY <2>3, <3>4, TransferMoves
      <4>2. tokens[a].delegate \notin blacklist \cup {Nobody}
        BY <3>1, <3>4
      <4>. QED  BY <2>0, <4>1, <4>2 DEF U64
    <3>. QED  BY <3>3, <3>4
  <2>4. ASSUME NEW k \in Keys, NEW b \in Accounts, NEW t \in Accounts, Seize(k, b, t)
        PROVE  /\ ~(tokens'[a].amount > tokens[a].amount)
               /\ tokens'[a].amount < tokens[a].amount => tokens[a].state = "frozen"
    <3>1. CASE t = b
      BY <2>0, <2>4, <3>1 DEF Seize, U64
    <3>2. CASE t # b
      <4>1. /\ tokens'[b].state = tokens[b].state /\ tokens'[b].amount = 0
            /\ \A c \in Accounts \ {b, t} : tokens'[c] = tokens[c]
        BY <2>4, <3>2, SeizeMoves, TypeParts
      <4>2. a # t /\ tokens[b].state = "frozen"
        <5>1. HookAllows(Nobody, t) /\ tokens[b].state = "frozen"
          BY <2>4, <3>2 DEF Seize, SeizeChecks, SeizeTransfer
        <5>. QED  BY <5>1 DEF HookAllows
      <4>3. CASE a = b
        BY <2>0, <4>1, <4>2, <4>3 DEF U64
      <4>4. CASE a # b
        BY <2>0, <4>1, <4>2, <4>4 DEF U64
      <4>. QED  BY <4>3, <4>4
    <3>. QED  BY <3>1, <3>2
  <2>5. CASE Still
    BY <2>0, <2>5 DEF Still, U64
  <2>6. tokens'[a] = tokens[a] => tokens'[a].amount = tokens[a].amount
    OBVIOUS
  <2>. QED  BY <2>0, <2>1, <2>2, <2>3, <2>4, <2>5, <2>6, Moves DEF U64
<1>2. Inv /\ [AnyNext]_vars =>
        \A a \in Accounts :
          config.hook /\ OwnerOf[a] \in blacklist =>
            /\ tokens'[a].amount > tokens[a].amount => mint'.supply > mint.supply
            /\ tokens'[a].amount < tokens[a].amount =>
                 \/ mint'.supply < mint.supply
                 \/ tokens[a].state = "frozen"
                 \/ tokens[a].delegate \notin blacklist \cup {Nobody}
  BY <1>1
<1>. QED  BY <1>2, Invariant, NextIsAny, PTL DEF Spec, HookHoldsBlacklisted
-----------------------------------------------------------------------------
(* What the counters say of the supply.                                    *)

\* Before initialize there is no supply to count.
CountedFromZero == config.authority = Nobody => mint.supply = 0

CountInv == Inv /\ SupplyWithinMinted /\ CountedFromZero

\* total_minted grows with a mint, starts at zero with initialize, and stands
\* otherwise; and a config that has an authority keeps one.
LEMMA Counts ==
  ASSUME TypeOK, [AnyNext]_vars
  PROVE  \/ \E k \in Keys, a \in Accounts, amount \in Amounts64 :
              MintTokens(k, a, amount) /\ config'.total_minted = config.total_minted + amount
         \/ config.authority = Nobody /\ config'.authority # Nobody
            /\ config'.total_minted = 0 /\ mint' = mint
         \/ /\ config'.total_minted = config.total_minted
            /\ config'.authority = config.authority \/ config'.authority # Nobody
<1>. USE TypeParts, SssConstants
<1>. DEFINE Stands == /\ config'.total_minted = config.total_minted
                      /\ config'.authority = config.authority \/ config'.authority # Nobody
            Mints == \E k \in Keys, a \in Accounts, amount \in Amounts64 :
                       MintTokens(k, a, amount)
                       /\ config'.total_minted = config.total_minted + amount
            Starts == config.authority = Nobody /\ config'.authority # Nobody
                      /\ config'.total_minted = 0 /\ mint' = mint
<1>1. ASSUME NEW k \in Keys, NEW args \in InitArgType, Initialize(k, args)
      PROVE  Starts
  BY <1>1 DEF Initialize
<1>2. ASSUME NEW k \in Keys, NEW n \in Keys, TransferAuthority(k, n)
      PROVE  Stands
  BY <1>2 DEF TransferAuthority, ConfigType
<1>3. ASSUME NEW k \in Keys, NEW a \in Accounts, NEW amount \in Amounts64, MintTokens(k, a, amount)
      PROVE  Mints
  BY <1>3 DEF MintTokens, CountMinted, ConfigType
<1>4. ASSUME NEW k \in Keys, NEW a \in Accounts, NEW amount \in Amounts64, BurnTokens(k, a, amount)
      PROVE  Stands
  BY <1>4 DEF BurnTokens, ConfigType
<1>5. ASSUME NEW k \in Keys, NEW value \in BOOLEAN, SetPaused(k, value)
      PROVE  Stands
  <2>1. config' = [config EXCEPT !.paused = value]
    BY <1>5 DEF SetPaused
  <2>. QED  BY <2>1 DEF ConfigType
<1>6. ASSUME NEW k \in Keys, NEW a \in Accounts, NEW t \in Accounts, Seize(k, a, t)
      PROVE  Stands
  BY <1>6 DEF Seize, ConfigType
<1>7. ASSUME UNCHANGED config
      PROVE  Stands
  BY <1>7
<1>. HIDE DEF Stands, Starts, Mints
<1>8. Mints \/ Starts \/ Stands
  BY <1>1, <1>2, <1>3, <1>4, <1>5, <1>6, <1>7
     DEF AnyNext, AnyAuthority, AnyOperator, AnyExternal, UpdateMinter, UpdateRoles,
         SetReserveAttestor, AddToAllowlist, RemoveFromAllowlist, EnableTokenAcl,
         AttestReserves, Pause, Unpause, FreezeAccount, ThawAccount, AddToBlacklist,
         RemoveFromBlacklist, CreateAccount, GateThaw, GateFreeze, Approve, Revoke, Transfer,
         HolderBurn, Tick, vars
<1>. QED  BY <1>8 DEF Stands, Starts, Mints

\* No more is ever in supply than was counted as minted.
THEOREM SupplyStaysWithinMinted == Spec => []SupplyWithinMinted
<1>1. Init => CountInv
  <2>1. Init => mint.supply = 0 /\ config.total_minted = 0
    BY DEF Init
  <2>. QED  BY <2>1, InitInv DEF CountInv, SupplyWithinMinted, CountedFromZero
<1>2. CountInv /\ [AnyNext]_vars => CountInv'
  <2>. SUFFICES ASSUME CountInv, [AnyNext]_vars PROVE CountInv'
    OBVIOUS
  <2>1. Inv' /\ TypeOK /\ TypeOK'
    BY InvStep DEF CountInv, Inv
  <2>2. /\ mint.supply \in U64 /\ config.total_minted \in U64
        /\ mint'.supply \in U64 /\ config'.total_minted \in U64
        /\ \A amount \in Amounts64 : amount \in U64 /\ amount > 0
    BY <2>1, TypeParts, TypePartsNext, SssConstants DEF ConfigType, MintType, U64
  <2>3. ASSUME NEW k \in Keys, NEW a \in Accounts, NEW amount \in Amounts64,
               MintTokens(k, a, amount)
        PROVE  config.authority # Nobody /\ mint'.supply = mint.supply + amount
               /\ config'.authority = config.authority
               /\ config'.total_minted = config.total_minted + amount
    <3>1. roles[k] # {}
      BY <2>3 DEF MintTokens
    <3>2. config.authority # Nobody
      BY <3>1 DEF CountInv, Inv, Untouched
    <3>3. config' = [config EXCEPT !.total_minted = @ + amount] /\ config \in ConfigType
      BY <2>1, <2>3, TypeParts DEF MintTokens, CountMinted
    <3>4. /\ config'.authority = config.authority
          /\ config'.total_minted = config.total_minted + amount
      BY <3>3 DEF ConfigType
    <3>. QED  BY <2>1, <2>3, <3>2, <3>4, MintMoves
  <2>4. ASSUME NEW k \in Keys, NEW a \in Accounts, NEW amount \in Amounts64,
               MintTokens(k, a, amount)
        PROVE  SupplyWithinMinted' /\ CountedFromZero'
    BY <2>2, <2>3, <2>4 DEF CountInv, SupplyWithinMinted, CountedFromZero, U64
  <2>5. (\E k \in Keys, a \in Accounts, amount \in Amounts64 : MintTokens(k, a, amount))
        \/ mint'.supply <= mint.supply
    <3>1. ASSUME NEW a \in Accounts, NEW amount \in Amounts64, Debit(a, amount)
          PROVE  mint'.supply <= mint.supply
      BY <2>1, <2>2, <3>1, BurnMoves DEF U64
    <3>2. ASSUME NEW s \in Keys, NEW a \in Accounts, NEW b \in Accounts, NEW amount \in Amounts64,
                 Transfer(s, a, b, amount)
          PROVE  mint'.supply <= mint.supply
      BY <2>1, <2>2, <3>2, TransferMoves DEF U64
    <3>3. ASSUME NEW k \in Keys, NEW a \in Accounts, NEW t \in Accounts, Seize(k, a, t)
          PROVE  mint'.supply <= mint.supply
      BY <2>2, <3>3 DEF Seize, U64
    <3>4. CASE Still
      BY <2>2, <3>4 DEF Still, U64
    <3>. QED  BY <2>1, <3>1, <3>2, <3>3, <3>4, Moves
  <2>6. ASSUME mint'.supply <= mint.supply
        PROVE  SupplyWithinMinted' /\ CountedFromZero'
    <3>1. CASE /\ config'.total_minted = config.total_minted
               /\ config'.authority = config.authority \/ config'.authority # Nobody
      BY <2>2, <2>6, <3>1 DEF CountInv, SupplyWithinMinted, CountedFromZero, U64
    <3>2. CASE /\ config.authority = Nobody /\ config'.authority # Nobody
               /\ config'.total_minted = 0 /\ mint' = mint
      BY <2>2, <3>2 DEF CountInv, SupplyWithinMinted, CountedFromZero, U64
    <3>. QED  BY <2>1, <2>4, <3>1, <3>2, Counts
  <2>. QED  BY <2>1, <2>4, <2>5, <2>6 DEF CountInv
<1>. QED  BY <1>1, <1>2, NextIsAny, PTL DEF Spec, CountInv
=============================================================================
