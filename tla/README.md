# Verification of Simply Sats

Simply Sats is a desktop Bitcoin SV wallet: a TypeScript front end (`src/src`) in a
Tauri shell whose Rust side (`src/src-tauri`) keeps the keys, signs, and serves a
local HTTP bridge to applications. This directory holds TLA+ models of the parts of
it that are concurrent, or that must survive failures, with the TLC runs that check
them and TLAPS proofs about them. Paths below are relative to the repository.

## 1. Inventory

The front end is one JavaScript thread: code between two `await`s is atomic, and
everything else interleaves. State lives in an SQLite file (reached over a pool of
five connections), in module-level variables, in React state, and in Rust mutexes.

| Component | State | Operations | Hard because | Correct when | Module |
|---|---|---|---|---|---|
| Sync lock and session (`services/cancellation.ts`) | a promise chain and a flag per account, one controller for all | acquire, release, startNewSync, cancelSync | any number of waiters, cancellation at any await, release in `finally` | one owner, first come first served, nobody waits for ever, the newest sync is not dropped | `SyncMutex` |
| UTXO table (`infrastructure/database/utxoRepository.ts`) | `spending_status`, `pending_*`, `spendable`, `frozen` of each row | mark, roll back, confirm, add, mark spent, freeze, recover | several writers, most of them blind updates | what is in flight is not offered, what is owned is not written off | `WalletLedger` |
| Sends (`services/wallet/transactions.ts`, `hooks/useWalletSend.ts`) | the candidates read by the caller, the inputs | select, lock, mark, broadcast, roll back or record | candidates are read before the lock, the answer may be lost, every statement may fail, the application may end | reserved while in flight, recorded as a whole | `WalletLedger`, `SpendPlans` |
| Lock creation (`services/wallet/lockCreation.ts`) | as a send, and a row in `locks` | lockBSV | takes no sync lock, ignores statement results | as a send | `WalletLedger`, `SpendPlans` |
| Lock release (`services/wallet/lockUnlocking.ts`, `lockReconciliation.ts`, `contexts/LocksContext.tsx`, `hooks/useUnlockHandler.ts`) | `locks`, the list on the screen, the sets of known and in-flight unlocks | unlock by the user or by an application, detection in two passes, reconciliation | checks and broadcasts with awaits between, a lagging indexer, passes that merge an old list | whoever is told of an unlock is told the truth; a lock the indexer serves keeps its row, a closed one leaves the list | `TimeLocks` |
| Sync (`services/sync/*.ts`) | the listing, the rows it compares with, the pending set | recover, list, add, mark spent, history, resolve, purge | its inputs are old when it applies them; an indexer that lags | the table converges to the chain | `WalletLedger` |
| Transactions table (`infrastructure/database/txRepository.ts`) | status of each transaction | add, upsert, update status, list pending | decides what the sync spares | pending is not for ever | `WalletLedger` |
| Database handle (`infrastructure/database/connection.ts`) | queue, depth, flag; the connections | withTransaction | overlap of flows, pool of connections, failing statements | atomic, serial, never stuck | `TransactionQueue` |
| Broadcasting (`arc_broadcaster.rs`) | none | ARC, then WhatsOnChain | accepted but reported as failed | the caller can tell | outcomes in `WalletLedger` |
| Coin selection, fees and builders (`domain/transaction`, `transaction.rs`, the callers in `services`) | the coins chosen, fee, change | select, estimate, build, record | estimate, builder and record are three programs in two languages | recorded rows are the outputs built; the fee pays for the size | `SpendPlans` |
| BRC-100 requests (`services/brc100/*`, `hooks/useBrc100Handler.ts`) | pending requests, the approval on the screen | listen, ask, approve, reject, expire, execute, respond | two time-outs of different length, two queues over one map, the wallet may change under a request | what runs was approved, with the keys of its owner; one answer | `Brc100Requests` |
| HTTP bridge and session (`http_server.rs`, `lib.rs`, the SDK's `request`) | token, nonces, signed answers, parked calls | validate, rotate, forward, respond | concurrent requests, late answers, bounded sets | the client keeps up with the token; a nonce is good once | `SessionTokens` |
| Account switching (`hooks/useAccountSwitching.ts`, `services/accounts.ts`, `contexts/AccountsContext.tsx`, `key_store.rs`) | active account in Rust, database and React, one switch remembered | switch, create, delete, refresh | four copies, moved one await at a time | the copies agree at rest, the last request wins | `AccountSwitch` |
| Data of the screen (`contexts/WalletContext.tsx`, `hooks/useSyncData.ts`, `useSyncOrchestration.ts`, `useCheckSync.ts`, `contexts/SyncContext.tsx`, `services/accountSnapshotCache.ts`) | six slices of data, their scope, snapshots, a version | fetchData, fetchDataFromDB, performSync, preload, detection | many loads in flight across switches; each compares a version or an account at some awaits only | where the comparisons reach, the screen mixes no accounts; it settles | `ShownAccount` |
| Wallet lock (`hooks/useWalletLock.ts`, `useWalletInit.ts`, `useWalletActions.ts`, `services/autoLock.ts`) | locked flag, wallet, session password, keys, timer | start, create, lock, unlock, time out, delete | order of awaits, operations that overlap | the lock screen hides no keys; an idle wallet locks; the right password opens | `WalletSession` |
| Rate limiter (`rate_limiter.rs`) | attempts, lockout, both on disk | check, record failure, record success | two callers count, exponent of 2 in 64 bits | a lockout ends | `UnlockLimiter` |
| Payments (`services/messageBox.ts`, `hooks/usePaymentListener.ts`) | notifications in memory and in localStorage, failures, timers | list, recognise, acknowledge, save | acknowledging deletes the only other copy; checks overlap; back-off | what the server forgot is kept; each payment announced once; every message taken | `PaymentInbox` |

How they interact: a **send** reads candidates from the UTXO table (ordinal and token
transfers: from the indexer), takes the sync lock of its account, marks, broadcasts
through Rust, and records through the database handle. A **sync** starts a session
(cancelling the previous one, of any account), takes the same lock, and rewrites the
table from the indexer. Account switching and wallet deletion cancel the session
without taking the lock, and outdate the **loads** of the screen. BRC-100 requests
arrive from the bridge as events, wait for the user, and then call the same operations;
some of them (lockBSV) take no lock. Locking the wallet clears the keys all of them use.

`PROJECT.json` lists the hazards, each at its line, with the properties that cover it.

## 2. Modules

| Module | Models | Extends / uses |
|---|---|---|
| `AccountLock` | abstract: a FIFO lock per account | |
| `SyncMutex`, `SyncMutexProofs` | `cancellation.ts` and the shape of syncWallet and sendBSV | refines `AccountLock` |
| `WalletLedger`, `WalletLedgerProofs` | the UTXO, transactions and locks tables, sends, lockBSV, the sync, the network, the indexer, restarts | composes `AccountLock` |
| `SpendPlans`, `RequestProofs` | amounts: selection, fees, the Rust builders, what is recorded | |
| `AtomicStore` | abstract: calls that take effect whole or not at all | |
| `TransactionQueue`, `TransactionQueueProofs` | `connection.ts`, with SQLite's savepoints and the pool | refines `AtomicStore` |
| `TimeLocks`, `TimeLocksProofs` | unlocks, detection and reconciliation of locks | |
| `Brc100Requests`, `RequestProofs` | the life of a request from the bridge to its answer | |
| `SessionTokens`, `SessionProofs` | token, nonces and signatures of the bridge, and a client | |
| `AccountSwitch`, `SessionProofs` | the four copies of the active account | |
| `ShownAccount`, `ShownAccountProofs` | what is shown of an account, and what loads it | |
| `UnlockLimiter`, `WalletSession`, `SessionProofs` | the counter of failed unlocks; what is open of the wallet | `WalletSession` extends `UnlockLimiter` |
| `PaymentInbox`, `PaymentInboxProofs` | payments announced through the message box | |
| `MC*` | the constants of the TLC runs; several hold two or three instances, of which the initial state chooses one | |

The proofs about `Brc100Requests` and `SpendPlans` share a module, and so do those about
`WalletSession`, `AccountSwitch` and `SessionTokens`: their state does not meet, and their
names do not either (`PlanSpec`, `SwitchSpec`, `TokenSpec`).

### SyncMutex
`chain[a]` is the sequence of promises that `acquire()` made for account `a`; `_tail` is
its last element, and a request waits for the one just before it (`PrevResolved`).
`resolved` holds the promises whose `release()` ran. `controller` and `aborted` are
`syncController` and the cancelled tokens. `StartSync` is syncWallet up to its first
await: it aborts the previous session **before** it queues. `SyncBatch` is one unit of
work between two checks of the token. A sync ends with its result (`SyncCompletes`), with
undefined when a check finds it cancelled (`SyncAborts`), or by throwing (`SyncThrows`).
All of them go through `finally`, so each releases (`ReleaseLock`). `AccountLock` is the
refinement: `line` is the chain without resolved promises, `owns` the running operations.

### WalletLedger
A transaction `t` is at once the process that sends it, the record in `transactions`
and the name of its change output; a coin is an output received before. An account is
the process that syncs it.

- *Rows*: `status`, `pendingBy`, `spendable`, `frozen` are the four columns; each
  repository function is one operator with the `WHERE` of its statement (`MarkPending`
  passes over rows that are not unspent; `RollbackPending` does not ask who marked;
  `AddRow` resets everything except `frozen`).
- *Sends*: `Call` (the caller reads its candidates, **then** the operation asks for
  the lock), `GrantedTo`, `BuildAndMark`, `Broadcast`, `AnswerAccepted` or
  `AnswerRefused`, `RollBack` or `Record`. `StatementFails` and `MarkFails` are the error paths
  that leave marks behind. `Kind` tells the callers apart: `send` reads the table,
  `live` the indexer, `lock` takes no lock.
- *Sync*: `StartSync`, `SyncGranted`, `RecoverPending`, `FetchListing`, `ReadRows`,
  `AddListed`*, `MarkMissing`*, `AddressDone`, `SyncHistory`, `ResolvePending`,
  `PurgePhantoms`, with `ListingUnusable`, `IndexerUnavailable` and `SyncCancelled` for
  what is skipped. The listing and the rows are read at two moments, as in the code.
- *World*: the network accepts, refuses, mines or drops; the indexer learns; time passes
  (`age`: under 5 minutes, over 5, over 30); the application restarts (`Crash`), which
  loses processes and locks and keeps the tables.

`Adversity` selects what may go wrong, so that a run can say which promise depends on
what: `lag`, `timeout`, `fault`, `drop`, `freeze`, `sleep`.

Simplifications, all of them stated here: one address per account; the indexer is never
wrong, only late, except that it may not answer; the loop of `markUtxosPendingSpend` and
the loops of `resolvePendingTransactions` and of the purge are one step; the set of
pending transactions is read with each mark of `MarkMissing` instead of once before the
loop; a send picks any nonempty set of candidates (which one is in `SpendPlans`); BRC-100
`createAction`, `unlockBSV`, forced resets and account deletion do not write to this
table.

### SpendPlans
The same operations, one at a time, with their amounts. `Ask` is the call with the coins
the table offers, `Take` one turn of the selection, `Build` the command in Rust (fee,
change or no change), `Broadcast` and `Record` what the chain and the table get. `Plan`
is what may be asked: kind, outputs, bytes, amount, rate. Fees are rounded up as in
`feeFromBytes`, with the rate as a fraction. A coin is `[tx, vout, sats, by]`, so that the
rows the record writes (`Recorded`) can be compared with the outputs the builder made.
Left out: inscriptions, actions paid from the wallet's own special outputs,
createLockTransaction, calculateMaxSend and its exact fee, the rounding of floating
point, sends to oneself.

### TransactionQueue
`queue` is the chain of handlers, its head the one that runs; `depth` and `inside` are the
globals; `level[c]` is the local `depth` of `executeTransaction`. Each connection is a
stack of savepoints with the rows written in each, `disk` the durable rows. A call made
while `depth` is not 0 does not queue (`Call`): the code cannot know whether it really is
nested. A write finds `Busy` when another connection holds the write lock. `Undoes` is the
catch: at level 0 the ROLLBACKs reach a nonempty subset of the pool. A flow calls once; a
statement is issued and takes effect in one step; restarts are not modelled here.

### TimeLocks
`chain` is the truth about the output of a lock, `row` its row in `locks`, `shown` and
`known` are `locks` and `knownUnlockedLocksRef` of the React state, `txs` the recorded
transactions that made or spent a lock.

- *Refresh*: `FetchBegin` starts a detection pass with the rows it preloaded;
  `FetchDetects` starts one without any, after the outputs were fetched (`FetchFails`: they
  were not). Nobody awaits a pass, so several run at once.
- *Pass*: it keeps what it was given (`pre`, `skip`), detects (`DetectSome`, any part of
  what is there, or `DetectNothing`), asks for the transaction of each row it did not
  detect (`AskVoid`), closes the row of one that was a 404 in a step of its own (`MarkVoid`),
  merges (`Merge`), persists one lock after the other (`PersistOne`) and shows the result.
- *Sync*: `HistoryBegins` leaves out what is recorded; then, for each new transaction,
  `HistoryMeetsLock` adds the row and `HistoryChecks` asks whether it is spent, or
  `HistoryMeetsUnlock` goes on to `HistoryMarks`; `HistoryRecords` makes every later sync
  skip it, whether or not the check and the mark succeeded.
- *Unlock*: `Lookup`, `BroadcastUnlock`, `Probe` (is it spent after all?), `RecordUnlock`; an
  application passes the guard of `inflightUnlocks` (`AppUnlock`, `EndAppUnlock`), the user
  does not.
- *World*: `CreatePhantom` is a lock whose transaction the network never accepted; `Lag`
  lets the indexer be behind the miners.

A step is the code between two awaits. `Mixes` bounds which passes, unlocks and syncs
take part in one behaviour, not what each of them does.

### Brc100Requests and SessionTokens
`Brc100Requests`: `channel` and `told` are the parked call of the bridge and what the
application got, `held` and `owner` the map of RequestManager and the identity kept with
each request, `modal` the request on the screen. `Listen` is the handler of the event;
`Approve`, `Reject` and `Expire` are the ways out, `Execute`, `Settle` and `Respond` the
awaits after them. A request may be approved by two calls at once (the listener and the
handler both notify), which is why `approval` is a pair. The identity is compared with the
wallet shown (`wallet`) before the await of recordActionRequest; what is executed after it
uses the keys of the native store (`keys`). A switch moves the two one after the other
(`ChangeKeys`, `ChangeWallet`), a lock and an unlock in the other order, and no guard orders
either with a request. `overtaken` is history: the requests whose keys changed between the
check and the execution, or were not those of the wallet when it was checked.
`RunsForItsOwner` excuses exactly these.

`SessionTokens`: a call of the SDK is one request, or two with a nonce. The bridge checks
token and nonce, forwards, and on the way back rotates and signs in different layers
(`WalletAnswers`, `RotateAged`, `Sign`); the client adopts the token before it verifies
(`Receive`). `behind` and `crossed` are history: what may excuse a client that is behind.

### AccountSwitch and ShownAccount
`AccountSwitch` has one step per await of switchAccount, switchAccountFromDB,
createNewAccount, deleteAccount and refreshAccounts, and the four copies they move.
`ShownAccount` takes a switch as the two phases the screen can tell (`keys`, `rows`) and
models what is shown: `now` is what was set, `screen` what React rendered, and a
callback sees `screen`. A load (`loads`) is one call of fetchData or fetchDataFromDB,
with the sync or the operation before it, at the await it is in; `current` says that
`fetchVersionRef` is still what the load captured, `keys` and `id` are the wallet and
the account it works for. Rows of the database are those of `id`, answers of the network
those of `keys`; each slice of data is marked with the account it came from.

Everything may overlap that the code lets overlap: loads start and end during a switch,
operations under another account than they began with, callbacks run before React
rendered, and each read of the database may fail by itself and leave its slice as it was
(`Misses`). The code orders most of it by comparing the version or the account after an
await, but not all; what no comparison reaches is *recorded, not forbidden*. `loose` marks a
load whose version, account and wallet were not captured at one moment under one account;
`stray` holds the slices last set by such a load, by a merge or a reconciliation after its
account was left, by totals that were compared before a switch was rendered, or kept
because they could not be read. No guard reads either. `ScreenNeverMixes` speaks of all
slices that do not stray, and a slice stops straying as soon as it is set properly.
`NothingMixes`, without the excuse, does not hold: each place where it breaks is a finding.
`watched` is the set of slices a behaviour follows: no step reads one slice to set another,
so that the run follows one of each kind by itself, and the proof any set.
Left out: deletion, refreshAccounts, basket balances, creation and import (a switch to
an account without snapshot), the background cache of ordinals, syncs of other accounts.

### WalletSession and UnlockLimiter
One variable for each thing that opens or closes (`shown`, `locked`, `session`, `native`,
`armed`), one step variable for each operation. `late` records that an operation took a
step after another one had undone what it builds on, such as keys stored behind the lock
screen. The code has no guard against that; `SessionAgrees` states what holds otherwise.
`UnlockLimiter` is the Rust counter; the code's milliseconds are seconds here, and what its
64-bit product comes to is in `Duration`.

### PaymentInbox
A check is one call of checkMessageBox: `Listed`, `Process`, `Acknowledge`, `Save`, with
`Unauthorized` and `ListFails` and the back-off of `_authFailureCount`. Checks of a
listener that was stopped go on; memory and storage are one for all accounts.
Left out: failing writes to localStorage, addManualNotification, getDerivationForUtxo,
clearNotifications, and the timers of the notice on the screen.

## 3. Runs

| Run | Bounds | Checks |
|---|---|---|
| `SyncMutexQueue` | 3 operations, 2 accounts, 1 batch | `OneByOneInOrder`, `LockedFlagTruthful`, `OneLiveSync`, `EveryRequestServed`, `NewestSyncNotDropped`, `ImplementsAccountLock` |
| `LedgerSends` | 2 sends of one coin, with change, 1 restart; lag, timeout, drop, freeze | `InFlightInputsReserved`, `LiveCoinsKept`, `MarksHaveOperations` |
| `LedgerRecorded` | a send and a live transfer of one coin, the first with change; timeout, fault, drop, freeze | `RecordedInputsStaySpent`, `LockHeldByWork` |
| `LedgerMix` | *crash*: 1 send, 2 coins, 1 restart; lag, timeout, drop. *fault*: 1 lockBSV; fault, sleep, drop | `TableConverges`, `NothingPendingForEver` |
| `QueueTransactions` | *overlap*: 2 calls and a direct writer, 2 connections, 1 fault. *serial*: 3 calls, 1 connection, 3 faults | `QueueSerializes`, `EveryCallSettles`; `SerialCallsAreAtomic` |
| `TimeLocks` | 1 lock, further locks, lag; 1 refresh between its two passes at a time, and three at a time of: 2 passes, the user's unlock, 2 by applications, the syncs | `UnlockedMeansSpent`, `OneUnlockAtATime`, `EveryAppAnswered`, `ClosedLocksLeave`, `LiveLocksStayListed` |
| `Brc100Requests` | *crowd*: 3 requests (1 trusted), 2 accounts, 2 pending. *switches*: 2 requests, 3 changes of wallet or keys. *plans*: coins of 600, 700 and 1500, 2 transactions, six kinds, rates 1/20 and 1 | `UserDecides`, `RunsForItsOwner`, `AnsweredOnce`; `RowsAreOwned`, `FeePaysForSize`, `ActivityTellsBalance` |
| `SessionTokens` | *tokens*: 3 calls, 2 nonces, 1 remembered, 3 tokens, 1 switch. *switches*: 3 accounts (2 at first), 2 requests to switch, 1 refresh, no deletion during another operation (`Overlap`) | `ClientKeepsUp`, `NonceAcceptedOnce`; `LastRequestWins`, `CopiesAgree` |
| `ShownAccount` | 1 failure, one slice of four kinds; *moves*: 3 accounts, 2 switches, *opened*: 2 accounts, the first check and 1 switch, *works*: 2 accounts, 1 switch, 1 operation, 1 snapshot | `ScreenNeverMixes`, `ScreenSettles` |
| `WalletSession` | 1 lock call, 3 wrong passwords, 2 creations, restarts or deletions | `TypeOK`, `SessionAgrees`, `AutoLockFires`, `LockedWalletOpens` |
| `PaymentInbox` | 2 accounts, 2 payments, 4 messages, 2 checks, 1 kept, 2 failures, 3 changes | `DeletedIsKept`, `AnnouncedOnce`, `EveryMessageTaken` |
| `LedgerCrash` | 2 sends, 2 coins, 1 restart; lag | **violated**: `NoDoubleSpendAfterCrash` |

Each run ends in less than four minutes with two workers, with 10,000 to 3,200,000
distinct states.

Why the bounds are enough. Three operations are the least that tells a chain from a pair
("not just 2" says the comment of the class). In the ledger a conflict needs two
transactions, the sync that comes between them, and a coin they share; one may spend the
change of the other. One restart is enough for a mark to outlive its operation; the syncs
are unbounded. In the queue an accident needs a host, a guest and, for the pool, a second
connection. The coins of `SpendPlans` and the amounts asked leave exactly 100, or just
above: the boundary of the change. A race of unlocks needs two applications on one lock,
or the user and one, and a pass with old rows beside them; a stale answer needs two
passes, or a pass and a sync. Refreshes and syncs come back without end, one at a time
between its two passes; larger mixes are left to the proofs. Three requests overflow a
limit of two, with one answered by trust; keys, wallet and keys again is the least that
overtakes an approval and comes back. Two rotations that cross need two calls that change
state, and a third to see the result; a set of one nonce overflows with two. A stale load
needs a switch away, and two to come back, or to go on to a third account. With one kept
notification and two payments the cut happens, and with two failures so does the
suppression.

`CHECK_DEADLOCK` is off in `Brc100Requests`, `SessionTokens`, `TimeLocks`, `ShownAccount`
and `WalletSession`: once the bounded requests, calls and switches are used up the system
rests. It is on elsewhere; `Finished` in `SyncMutex` and `TransactionQueue` is the
stuttering step of a model in which every operation was used up.

**Fairness.** `SyncMutex`: a resolved promise resumes its waiter, and the owner of a lock
goes on, because each of its awaits is a local call or a request with a timeout.
`WalletLedger!FairSpec`: the same for sends; the network decides, the indexer catches up,
a transaction is mined or dropped, time passes; syncs are started again and again
(useCheckSync: on start, on focus, after operations). A sync can be cancelled at any
check, hence strong fairness for the steps a cancellation competes with: not every sync is
cancelled at the same check for ever. The *fault* part of `LedgerMix` adds that a
statement every sync issues again does not fail for ever. `TransactionQueue`: a statement
is answered. `TimeLocks`: refreshes and syncs come again, a pass, a sync and an unlock go
on, and the fetch of the outputs, which a refresh makes before its second pass, does not
fail for ever (strong fairness of `FetchDetects`); that a sync meets a transaction twice
is not assumed, because it does not. `PaymentInbox`: time passes, a check goes on; strong
for what competes with changes of the keys and with the server (the listener starts,
ticks, is listed and acknowledged again and again). `WalletSession`: the steps of a lock
and of an unlock, the callback of a timer that ran out, the end of a lockout, and a user
who tries the right password. `ShownAccount`: React renders what was set; keys, rows and
the network answer or time out. Nothing is assumed of what the user may do otherwise.

**The run that expects a violation.** `LedgerCrash`: a send is broadcast and the
application ends before the answer; after the restart the indexer still lists the input,
the sync writes it as unspent, and a second send spends it again. The comment of
`markUtxosPendingSpend` (utxoRepository.ts:373) says that marking prevents exactly this;
the marks survive the restart, but the sync (addressSync.ts:194) resets them.

### What else the models showed

`PROJECT.json` lists under "findings" what contradicts a comment, a document or a test.
These properties are defined in the modules and break; they are no part of a run:
`CompletedMeansSpent`, `PassesKeepOpenLocks`, `FreshLocksStayListed`,
`ServedLocksStayListed`, `SpentLocksLeave` (`TimeLocks`), `EachRunsOnce`,
`TimedOutNeverRuns`, `NeverForAnother` (`Brc100Requests`), `NothingMixes`, `AlwaysShown`
(`ShownAccount`), `OverlapKeepsToken`
(`SessionTokens`), `WalletBeforeId` (`AccountSwitch`), `ArmedWhileShown`,
`LockScreenHasWallet`, `StoredWalletOffered`, `FiveAttempts` (`WalletSession`),
`ResolvedIsNotLost`, `DepthRests` (`TransactionQueue`), `NoPaymentLost` (`PaymentInbox`).
Met on the way, without a document that says otherwise:

- *Ledger.* A freeze is undone by the next sync that lists the output. A record whose
  upsert fails commits the rest of its statements. With a lagging indexer a sync resets
  the inputs of a recorded send. With two accounts and failing statements the recovery
  of one account's sync resets marks of the other's.
- *Database handle.* A write on another connection is durable although its call rejects.
- *Bridge.* `handle_get_nonce` does not check the capacity that `generate_csrf_nonce`
  checks. An account switch clears the used nonces while `csrf_secret` stays. Calls that
  overlap can report a forged answer (-32010) for an honest one.
- *Accounts.* A creation and an import do not drain `pendingSwitchRef`. The session
  password is cleared even when the keys were not found. A queued switch is looked up in
  the account list of the render that queued it. `deleteAccount` ignores `switchingRef`
  and does not raise `fetchVersionRef`. A failed database update leaves native memory
  with the keys of the other account.
- *Session.* A switch or a creation in flight when the wallet locks calls
  `setIsLocked(false)`. A failed `clear_keys` is logged and ignored. `handleCreateWallet`
  stores no keys in Rust. After a partial deletion the lock screen opens the deleted
  wallet. A creation during a deletion is wiped with it.
- *Payments.* Messages are acknowledged before they are saved.
- *Builders.* A rest of 100 or less is left to the miners without being counted in the
  fee that is shown. Token transfers pay a fixed 0.05. The MAX button offers the total
  less the fee, but a send needs 100 more than its amount.
- *Locks.* `handleLock` of LocksContext appends the new lock to whatever account is shown.

## 4. Proofs

TLC checks the instances above; TLAPS proves the following for every value of the
constants. Each theorem is proved from the assumptions of its module on the constants
(names are distinct, bounds are natural numbers) and, where the table says so, from one
more; no other fact is assumed.

| Theorem | Says | Assumes |
|---|---|---|
| `SyncMutexTypeOK`, `SyncMutexFifo`, `SyncMutexExclusion`, `SyncMutexOneByOne`, `SyncMutexFlag`, `SyncMutexOneSession` | `OneByOneInOrder`, `LockedFlagTruthful`, `OneLiveSync` and what they rest on | |
| `SyncMutexIsAccountLock` | the refinement `ImplementsAccountLock` | |
| `SyncMutexNobodyStuck`, `SyncMutexNewestLives` | the state parts of `EveryRequestServed`, `NewestSyncNotDropped` | |
| `LedgerTypeOK` | types | |
| `LedgerLockHeld`, `LedgerMarksOwned` | `LockHeldByWork`, `MarksHaveOperations` | |
| `LedgerReservation` | `InFlightInputsReserved` | `ReservedWorld`: no lockBSV, no failing statement, no operation lasts five minutes; and all operations are sends, or there is no restart |
| `LedgerOneAccount` | `InFlightInputsReserved` | `OneAccount`, `NoLocks`; anything may fail |
| `LedgerRecorded` | `RecordedInputsStaySpent` | `NoLocks`, no lag |
| `LedgerKeepsCoins` | `LiveCoinsKept` | `KeptWorld`: no failing statement, and no lag with locks |
| `QueueTypeOK`, `QueueRunsOneByOne`, `QueueNeverWedges` | types; `QueueSerializes`; the state part of `EveryCallSettles` | |
| `SerialQueueIsAtomic` | the refinement `ImplementsAtomicStore`, which the run checks as `SerialCallsAreAtomic` | `OneAtATime`: calls do not overlap, one connection, no write outside of a call |
| `SerialAllOrNothing`, `SerialDepthReturns` | all rows of a resolved call are durable and none of another; the depth returns to 0 (`DepthRests`) | `OneAtATime` |
| `TimeLocksTypeOK`, `UnlockInvariant`, `ToldUnlockedIsSpent`, `OneApplicationUnlocks`, `TimeLocksKeepLive` | types; `UnlockedMeansSpent`, `OneUnlockAtATime`, and the action property `LiveLocksStayListed` | |
| `UnlockWaitersServed` | the state part of `EveryAppAnswered`; `inflightUnlocks` within its limit | |
| `InboxTypeOK`, `InboxDeletedIsKept`, `InboxAnnouncedOnce` | types; `DeletedIsKept`, `AnnouncedOnce` | |
| `RequestTypeOK`, `UserDecidesAlways`, `OwnersKeys`, `OneAnswer` | types; `UserDecides`, and the action properties `RunsForItsOwner` and `AnsweredOnce` | |
| `PlansRowsAreOwned`, `PlansFeePays`, `PlansActivityTells` | `RowsAreOwned`, `FeePaysForSize`, and the action property `ActivityTellsBalance` | |
| `ShownInvariant`, `ScreenIsOwn`, `ShownTypeOK` | `ScreenNeverMixes`, types | |
| `SessionTyped`, `SessionAgreement`, `SessionCanAutoLock` | types; `SessionAgrees`; the state part of `AutoLockFires` | |
| `SwitchKeepsTypes` | types | |
| `SwitchCopiesAgree`, `SwitchLastWins` | `CopiesAgree`, `LastRequestWins` | `Overlap = FALSE` |
| `TokensTyped`, `TokensKeepUp`, `TokensAcceptOnce` | types; `ClientKeepsUp`, `NonceAcceptedOnce` | |

The hypotheses are those under which the code keeps the promise, and TLC shows a
counterexample without them: a lockBSV, which takes no lock, breaks the reservation; with
two accounts and a restart so do two transfers that chose one coin from the indexer,
because the recovery in the sync of the other account lifts the mark of the first, which
the restart cut short, from under the second (`ReservedWorld` leaves out nothing less); a
lagging indexer resets recorded inputs; a phantom lock takes the record that protects its
change with it; a deletion that overlaps a switch leaves the copies apart; calls of
withTransaction that overlap share a transaction, and when the nested one ends last the
depth stays 1 for ever. `Overlap = FALSE` of `AccountSwitch` excludes only a deletion that
overlaps a switch or a creation; switches, creations and refreshes overlap freely.

**How the invariants become inductive.**

*SyncMutex.* Exclusion is not inductive. `LockInv` adds that each operation stands in one
chain at one place, that what comes before a running operation is resolved, and that
resolved means done. The flag and the order of service follow. That one sync is live needs
`SessionIsLive`: the controller's session is the only one not aborted. For the refinement,
`ServedIsPrefix` says that the resolved promises are the first of their chain: what is
left of it is the abstract line (`LineOf`), whose head is then the operation that is
granted or that releases. acquire() is a Request, the resumption of its await a Grant,
release() a Release, and every other step a stutter.

*WalletLedger.* `LockPart` says that who is past the lock owns it, at the head of its
line; `WorkPart` adds the converse, that who owns it is past the lock and has not ended,
which together are `LockHeldByWork` and need no hypothesis. `MarksHaveOperations` is
inductive as it stands and needs no lock: a mark passes over rows that are pending
already, so a pending row keeps the operation that marked it, and that operation leaves
its phase by a step that settles the row, by a restart, or past a failing statement.
`LedgerReservation` adds that rows and lists stay within their account (`RowsApart`), that
no mark of a transaction in flight is old (`MarksFresh`), and `RowPart`: a pending input
of a transaction in flight is its own mark, and a pending row among the candidates
somebody read before the lock is the mark of an operation that holds the lock. With
statements that fail that last part is false, since marks outlive their operation, and
with two accounts so is the property: the sync of one account recovers old marks, which a
failed send of the other left. Within one account `LedgerOneAccount` needs no statement
about marks: whoever resets a row owns the lock, and so does whoever is in flight.
`LedgerRecorded` needs to know of the chain that an operation is recorded after its
transaction landed, that nobody spends an output whose transaction is still being sent
(`ParentsOver`), and that the listing a sync applies was not read before the record
(`SnapFree`), which is where the lag enters. `LedgerKeepsCoins` needs none of the lock:
what is missing in a listing is spent or is change of a pending transaction, because a
change output that has a row is listed or its transaction is pending (`ChangeKnown`), and
that stays so from the listing to the step that writes off (`MissingKnown`).

*TransactionQueue.* At most the head of the queue is inside, and every other queued call
has issued nothing; a call that nests by accident is not in the queue. For the refinement,
`SerialInv` says that what the call in progress wrote is in the one savepoint of its
BEGIN, so that COMMIT makes all of it durable and ROLLBACK none. A ROLLBACK that fails
leaves rows in a transaction that nobody commits: the next BEGIN fails in it, and that
call rejects.

*TimeLocks.* `UnlockInv` carries the truth of the chain through the stages of an unlock:
from an accepted broadcast on, the output is spent. `LiveLocksStayListed` relates two
states. Besides `UnlockInv` it needs `NewsIsTrue`: what a sync is about to mark was seen
spent, when it was listed or when it was checked. A pass closes a row only after a 404,
and none is answered once the indexer serves the lock; the one that may be pending from
before is what the property names (`doubt`).

*PaymentInbox.* A message gone from the server was processed by the check that deleted it
(`ProcessedIsKept`), and what is in memory but not in storage is about to be saved
(`StoredIsKnown`). `OnceInv` adds that two checks cannot both take a payment for new,
because looking it up and adding it is one step.

*Brc100Requests, SpendPlans.* `Sound` is said of one request at a time: which approval,
owner, keys and phase fit together: an approved request that was not executed has the keys
of its owner in the native store, or it is `overtaken`. Of a plan, `RecordMatches` says
that the rows to be recorded are the outputs as built; the fee needs `OutputNotEmpty` and
`FeeCoversSize`. The activity needs `WorthInv`: the total is what the coins taken are
worth, nothing is left over, and the output recorded is of a transaction that was not sent
before. A balance is the number of satoshis of a set of coins (`Balance`), so that sums of
disjoint sets add up by the theorems about cardinalities, without an induction; `MCBrc100`
asserts that it is the sum.

*ShownAccount.* `ShownInv` says of every load and detection at every await what it may
still set, and that it is of the account last set whenever the comparison that guards it
succeeds and the load is not `loose`; while a switch is under way there is no such load
(`GoodLoad`, `GoodDetection`). It holds of every behaviour: what the comparisons let
through is in `stray`, and the proof shows that this is all there is of it.

*WalletSession.* `AgreeInv`: while the start loads nothing is open; a wallet that is shown
is stored, unlocked, and no lock is on its way; one that is not shown has no session
password, and its native keys are gone as soon as lockWallet is about to show the lock
screen. A lockout is bounded because each value of the doubling is computed
(`BackoffBounded`).

*AccountSwitch.* `CopiesPart` says for each step of a switch, a creation and a deletion
which copies have moved already and that the user's last request is the target or the one
queued. Keys that were not found (`outcome` "nokeys") are the excuse for the native copy.

*SessionTokens.* `TokenPart`: an answer on its way that carries a token was rotated after
its request was checked (`CarriedOlder`), an old token has no successor on its way
(`AgedAlone`, which is what the second check of the age is for), and without a crossing at
most one answer carries one, the token of the bridge, or the client has it
(`OneOutstanding`). `Remembered`: what was accepted and not forgotten is in `used_nonces`
or has lapsed.

**What is proved of the liveness properties.** The provers have no rule for fairness, but
each of five liveness properties rests on a state invariant which says that nothing blocks
the way, and that is proved for every value of the constants. Whoever waits for a lock
stands behind an operation that has a step to take (`NobodyIsStuck`; the first unresolved
promise of a chain is never that of a waiter whose predecessor is unresolved). The newest
session is never cancelled (`NewestSessionLives`). The head of the queue of transactions
executes or may start (`QueueMoves`). An application that waits in `inflightUnlocks` waits
for an unlock that another one is doing (`WaitersAreServed`). An idle wallet left open has
its timer running and no lockWallet in its way (`OpenWalletMayLock`). That the step is
taken at last is what the fairness of the runs adds.

## 5. Only model-checked, and not modelled

*Only model-checked.* The liveness properties (`EveryRequestServed`, `NewestSyncNotDropped`,
`TableConverges`, `NothingPendingForEver`, `EveryCallSettles`, `EveryAppAnswered`,
`ClosedLocksLeave`, `ScreenSettles`, `EveryMessageTaken`, `AutoLockFires`,
`LockedWalletOpens`): the provers have no rule for fairness and ENABLED.
What is proved of five of them is said above. Every safety property of the passing runs is
stated by a theorem; `SerialCallsAreAtomic` is `ImplementsAtomicStore` of the serial
instance of its run. Two worlds that no run holds are covered by a theorem alone: a lockBSV
beside a sync keeps the coins of the wallet (`LedgerKeepsCoins`), and the types of
`PaymentInbox` (`InboxTypeOK`).

*Not modelled.* The HTTP client and its caches (pure I/O; each call is modelled by its
outcomes, and RequestCache is used by tests only), backup and restore (sequences of writes
without concurrency), rendering, cryptography and script formats, most of the SDK and of
the extension (they shape parameters), the pausing of the auto-lock timer, and what each
module above lists as left out. Most lines of the repository are of these kinds: user
interface, formats, keys and I/O; the modules stand for about a tenth of all lines, which
holds nearly all of the code that is concurrent or that must survive a failure.

*Next.* A hypothesis sharper than `KeptWorld` for lagging indexers with locks;
`lockCreation.ts` and `LocksContext.tsx` beyond what `WalletLedger` and `TimeLocks` take of
them; a forced reset, which deletes the rows of an account before it holds the lock; a
property about frozen rows, once the code keeps the flag through a sync.
