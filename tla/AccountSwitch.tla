--------------------------- MODULE AccountSwitch ---------------------------
(***************************************************************************)
(* The active account is kept four times: the keys in native memory, the   *)
(* is_active row, the wallet and the account id of the user interface. A   *)
(* switch moves them one after the other; creations, deletions and the     *)
(* refresh of the account list move some of them too.                      *)
(*                                                                         *)
(* One operation at a time is a switch or a creation (switchingRef); a     *)
(* switch asked for meanwhile is remembered (pendingSwitchRef). Deletions  *)
(* look at neither.                                                        *)
(***************************************************************************)
EXTENDS Naturals, FiniteSets

CONSTANTS
    Account,
    NoAccount,
    First,      \* the accounts there are at the start
    Overlap,    \* whether deletions overlap switches and creations
    MaxAsks,    \* bound on switches the user asks for
    MaxReads    \* bound on refreshes

ASSUME SwitchAssumption ==
    /\ NoAccount \notin Account /\ First \subseteq Account /\ First # {}
    /\ MaxAsks \in Nat /\ MaxReads \in Nat /\ Overlap \in BOOLEAN

VARIABLES
    exists,     \* rows of the accounts table
    active,     \* the row with is_active = 1
    rust,       \* the account the native key store holds keys of
    wallet,     \* the wallet of the user interface
    activeId,   \* activeAccountId of the user interface
    password,   \* whether the session password is known
    op,         \* what holds switchingRef
    pc,         \* its next step
    target,     \* the account it moves to
    queued,     \* pendingSwitchRef
    known,      \* the account list the running switch was asked with
    asked,      \* the account the user wants, by what was asked last
    outcome,    \* how the last operation ended, or the one under way is going
    deleting,   \* step of a deletion
    victim,     \* the account it deletes
    reads,      \* what refreshes under way have read
    stray,      \* a switch was queued behind a creation
    asks, refreshes

dbVars == <<exists, active>>
uiVars == <<wallet, activeId>>
opVars == <<op, pc, target, queued, known, outcome>>
delVars == <<deleting, victim>>
askVars == <<asked, stray, asks>>
readVars == <<reads, refreshes>>
switchVars == <<dbVars, rust, uiVars, password, opVars, delVars, askVars, readVars>>

\* One invariant for the types of all variables.
SwitchTypeOK ==
    /\ exists \subseteq Account /\ active \in Account \cup {NoAccount}
    /\ rust \in Account /\ wallet \in Account /\ activeId \in Account
    /\ password \in BOOLEAN /\ stray \in BOOLEAN
    /\ op \in {"none", "switch", "create"}
    /\ pc \in {"idle", "derive", "setdb", "password", "state", "create",
               "store", "row", "expose", "preload"}
    /\ op = "none" <=> pc = "idle"
    /\ target \in Account \cup {NoAccount} /\ queued \in Account \cup {NoAccount}
    /\ known \subseteq Account
    /\ asked \in Account
    /\ outcome \in {"ok", "nokeys", "failed"}
    /\ deleting \in {"none", "delete", "activate", "refresh", "derive", "state"}
    /\ victim \in Account \cup {NoAccount}
    /\ reads \subseteq Account
    /\ asks \in 0..MaxAsks /\ refreshes \in 0..MaxReads

SwitchInit ==
    /\ exists = First
    /\ active \in First /\ rust = active /\ wallet = active /\ activeId = active
    /\ password = TRUE
    /\ op = "none" /\ pc = "idle" /\ target = NoAccount /\ queued = NoAccount
    /\ known = {}
    /\ asked = active /\ outcome = "ok"
    /\ deleting = "none" /\ victim = NoAccount
    /\ reads = {} /\ stray = FALSE
    /\ asks = 0 /\ refreshes = 0

Goto(s) == pc' = s /\ UNCHANGED <<op, target, queued, known, outcome>>

\* MUTANT of EndSwitch: the request that was made meanwhile is not taken up.
EndKeepsQueued(how) ==
    /\ outcome' = how
    /\ op' = "none" /\ pc' = "idle" /\ target' = NoAccount
    /\ UNCHANGED <<queued, known>>

\* The finally of switchAccount: the latest request that was queued starts at
\* once, however this one ended, unless it asks for the same account. It is looked
\* up in the list this one was asked with.
EndSwitch(how) ==
    /\ queued' = NoAccount
    /\ IF queued \in known \ {target}
         THEN /\ op' = "switch" /\ pc' = "derive" /\ target' = queued /\ outcome' = "ok"
              /\ UNCHANGED known
         ELSE /\ op' = "none" /\ pc' = "idle" /\ target' = NoAccount /\ known' = {}
              /\ outcome' = IF queued \in {NoAccount, target} THEN how ELSE "failed"

\* The finally of createNewAccount and importAccount leaves the queue alone.
EndCreate(how) ==
    /\ outcome' = how
    /\ op' = "none" /\ pc' = "idle" /\ target' = NoAccount
    /\ UNCHANGED <<queued, known>>

End(how) == IF op = "switch" THEN EndSwitch(how) ELSE EndCreate(how)

(***************************************************************************)
(* A switch.                                                               *)
(***************************************************************************)
\* switchAccount up to its first await: the sync is cancelled, results under way
\* are made stale. While another operation runs the request is remembered.
AskSwitch(a) ==
    /\ a \in exists /\ asks < MaxAsks /\ (Overlap \/ deleting = "none")
    /\ asks' = asks + 1 /\ asked' = a
    /\ IF op # "none"
         THEN queued' = a /\ UNCHANGED <<op, pc, target, known, outcome>>
         ELSE /\ op' = "switch" /\ pc' = "derive" /\ target' = a /\ known' = exists
              /\ outcome' = "ok" /\ UNCHANGED queued
    /\ stray' = (stray \/ op = "create")
    /\ UNCHANGED <<dbVars, rust, uiVars, password, delVars, readVars>>

\* switch_account_from_store: keys are derived and stored in one native call.
Derive ==
    /\ pc = "derive"
    /\ \/ rust' = target /\ Goto("setdb")
       \/ password /\ UNCHANGED rust /\ Goto("password")
       \/ ~password /\ UNCHANGED rust /\ EndSwitch("failed")
    /\ UNCHANGED <<dbVars, uiVars, password, delVars, askVars, readVars>>

\* switchAccount of accounts.ts: one statement marks the row and unmarks the
\* others. A row that is gone leaves none marked.
Activate(a) == active' = IF a \in exists THEN a ELSE NoAccount

SetDb ==
    /\ pc = "setdb"
    /\ \/ Activate(target) /\ Goto("expose")
       \/ UNCHANGED active /\ EndSwitch("failed")
    /\ UNCHANGED <<exists, rust, uiVars, password, delVars, askVars, readVars>>

\* Without keys in native memory the password decrypts them (AccountsContext).
\* It is cleared even when that gave no keys.
WithPassword ==
    /\ pc = "password"
    /\ \/ Activate(target) /\ Goto("state") /\ UNCHANGED password
       \/ UNCHANGED active /\ EndSwitch("failed") /\ password' = FALSE
    /\ UNCHANGED <<exists, rust, uiVars, delVars, askVars, readVars>>

\* ... which sets the account id, then reads the list again.
WithPasswordState ==
    /\ pc = "state"
    /\ activeId' = target
    /\ password' = FALSE
    /\ Goto("store")
    /\ UNCHANGED <<dbVars, rust, wallet, delVars, askVars, readVars>>

\* MUTANT of StoreKeys: the native store is not told.
StoreNothing ==
    /\ pc = "store"
    /\ pc' = IF op = "switch" THEN "expose" ELSE "row"
    /\ UNCHANGED <<op, target, queued, known, outcome>>
    /\ UNCHANGED <<dbVars, rust, uiVars, password, delVars, askVars, readVars>>

\* storeKeysInRust logs a failure and goes on.
StoreKeys ==
    /\ pc = "store"
    /\ \/ rust' = target /\ UNCHANGED outcome
       \/ UNCHANGED rust /\ outcome' = "nokeys"
    /\ pc' = IF op = "switch" THEN "expose" ELSE "row"
    /\ UNCHANGED <<op, target, queued, known>>
    /\ UNCHANGED <<dbVars, uiVars, password, delVars, askVars, readVars>>

Kept == IF outcome = "nokeys" THEN "nokeys" ELSE "ok"

\* setWallet; an account whose snapshot is cached is shown at once, another
\* after its rows were read.
Expose ==
    /\ pc = "expose"
    /\ wallet' = target
    /\ \/ op = "switch" /\ activeId' = target /\ End(Kept)
       \/ UNCHANGED activeId /\ Goto("preload")
    /\ UNCHANGED <<dbVars, rust, password, delVars, askVars, readVars>>

\* Rows that could not be read are shown as none: the switch goes on.
Preloaded ==
    /\ pc = "preload"
    /\ activeId' = target
    /\ End(Kept)
    /\ asked' = IF op = "create" /\ queued = NoAccount THEN target ELSE asked
    /\ UNCHANGED <<dbVars, rust, wallet, password, delVars, stray, asks, readVars>>

(***************************************************************************)
(* A creation or an import.                                                *)
(***************************************************************************)
AskCreate ==
    /\ op = "none" /\ password /\ exists # Account /\ (Overlap \/ deleting = "none")
    /\ op' = "create" /\ pc' = "create"
    /\ outcome' = "ok"
    /\ UNCHANGED <<dbVars, rust, uiVars, password, target, queued, known, delVars, asked, stray, asks,
                   readVars>>

\* One transaction unmarks the other rows and inserts the new one marked.
CreateRow ==
    /\ pc = "create"
    /\ \/ \E a \in Account \ exists :
            /\ exists' = exists \cup {a} /\ active' = a /\ target' = a
            /\ pc' = "store" /\ UNCHANGED <<op, queued, known, outcome>>
       \/ UNCHANGED dbVars /\ EndCreate("failed")
    /\ UNCHANGED <<rust, uiVars, password, delVars, askVars, readVars>>

ReadRow ==
    /\ pc = "row"
    /\ \/ target \in exists /\ Goto("expose")
       \/ EndCreate("failed")
    /\ UNCHANGED <<dbVars, rust, uiVars, password, delVars, askVars, readVars>>

(***************************************************************************)
(* A deletion.                                                             *)
(***************************************************************************)
AskDelete(a) ==
    /\ deleting = "none" /\ a \in exists /\ Cardinality(exists) > 1 /\ (Overlap \/ op = "none")
    /\ deleting' = "delete" /\ victim' = a
    /\ UNCHANGED <<dbVars, rust, uiVars, password, opVars, asked, stray, asks, readVars>>

\* deleteAccount of accounts.ts: the rows go in one transaction; whether the
\* account was active was read before.
DeleteRows ==
    /\ deleting = "delete"
    /\ \/ /\ exists' = exists \ {victim}
          /\ active' = IF active = victim THEN NoAccount ELSE active
          /\ deleting' = IF active = victim THEN "activate" ELSE "refresh"
          /\ UNCHANGED victim
       \/ UNCHANGED dbVars /\ deleting' = "none" /\ victim' = NoAccount
    /\ UNCHANGED <<rust, uiVars, password, opVars, askVars, readVars>>

\* The most recent of the others is activated; a failure is only logged.
ActivateOther ==
    /\ deleting = "activate" /\ deleting' = "refresh"
    /\ \E a \in exists : active' \in {a, active}
    /\ UNCHANGED <<exists, victim, rust, uiVars, password, opVars, askVars, readVars>>

EndDelete(how) == deleting' = "none" /\ victim' = NoAccount /\ outcome' = how

\* refreshAccounts of the account context, then the active row is read again.
DeleteRefreshes ==
    /\ deleting = "refresh"
    /\ IF active = NoAccount
         THEN UNCHANGED activeId /\ EndDelete("failed")
         ELSE activeId' = active /\ deleting' = "derive" /\ UNCHANGED <<victim, outcome>>
    /\ UNCHANGED <<dbVars, rust, wallet, password, op, pc, target, queued, known, askVars, readVars>>

\* The keys of the row that is active now: derived in native memory, or
\* decrypted with the password, which leaves native memory as it is.
DeleteDerives ==
    /\ deleting = "derive" /\ active # NoAccount
    /\ \/ rust' = active /\ outcome' = "ok"
       \/ password /\ UNCHANGED rust /\ outcome' = "nokeys"
    /\ wallet' = active /\ asked' = active
    /\ deleting' = "state"
    /\ UNCHANGED <<dbVars, activeId, password, op, pc, target, queued, known, victim, stray, asks, readVars>>

DeleteFindsNoKeys ==
    /\ deleting = "derive" /\ (~password \/ active = NoAccount)
    /\ EndDelete("failed")
    /\ UNCHANGED <<dbVars, rust, uiVars, password, op, pc, target, queued, known, askVars, readVars>>

DeleteEnds ==
    /\ deleting = "state"
    /\ activeId' = wallet
    /\ EndDelete(IF outcome = "nokeys" THEN "nokeys" ELSE "ok")
    /\ UNCHANGED <<dbVars, rust, wallet, password, op, pc, target, queued, known, askVars, readVars>>

(***************************************************************************)
(* refreshAccounts, after switches and after each background sync: the row  *)
(* that is active is read, and applied when the answer arrives.            *)
(***************************************************************************)
RefreshReads ==
    /\ refreshes < MaxReads /\ active # NoAccount
    /\ refreshes' = refreshes + 1
    /\ reads' = reads \cup {active}
    /\ UNCHANGED <<dbVars, rust, uiVars, password, opVars, delVars, askVars>>

RefreshApplies(a) ==
    /\ a \in reads
    /\ reads' = reads \ {a}
    /\ activeId' = a
    /\ UNCHANGED <<dbVars, rust, wallet, password, opVars, delVars, askVars, refreshes>>

Operation == \/ Derive \/ SetDb \/ WithPassword \/ WithPasswordState \/ StoreKeys
             \/ Expose \/ Preloaded \/ CreateRow \/ ReadRow
Deletion == DeleteRows \/ ActivateOther \/ DeleteRefreshes \/ DeleteDerives \/ DeleteFindsNoKeys \/ DeleteEnds

SwitchNext ==
    \/ \E a \in Account : AskSwitch(a) \/ AskDelete(a) \/ RefreshApplies(a)
    \/ AskCreate \/ RefreshReads
    \/ Operation
    \/ Deletion

SwitchSpec == SwitchInit /\ [][SwitchNext]_switchVars

(***************************************************************************)
(* Properties.                                                             *)
(***************************************************************************)
AtRest == op = "none" /\ deleting = "none" /\ outcome = "ok"

\* Rapid clicks A, B, C land on C (the finally of switchAccount), creations and
\* deletions in between included. Not when a request was queued behind a
\* creation, which never drains it.
LastRequestWins == AtRest /\ ~stray => wallet = asked

\* When all is done and nothing failed, the keys that sign, the wallet that is
\* shown and the row that a restart would open are of one account, which exists.
CopiesAgree == AtRest => rust = wallet /\ active = wallet /\ wallet \in exists

\* useAccountSwitching.ts sets the wallet before the id "to prevent 'one behind'
\* bug": when the id changes, which starts a sync, the wallet is that account's.
WalletBeforeId == [][activeId' # activeId => wallet' = activeId']_switchVars
=============================================================================
