----------------------------- MODULE SyncMutex -----------------------------
(***************************************************************************)
(* The sync lock and the sync session of the wallet.                       *)
(*                                                                         *)
(* cancellation.ts keeps one SyncMutex per account (a chain of promises:   *)
(* every acquire replaces _tail and waits for the promise it replaced) and *)
(* ONE CancellationController for the whole application.  syncWallet       *)
(* (services/sync/orchestration.ts) starts a new session, which aborts the *)
(* previous one whatever its account, and only then queues for the lock of *)
(* its account; the sends of services/wallet/transactions.ts queue without *)
(* starting a session.                                                     *)
(*                                                                         *)
(* JavaScript runs one callback at a time, so the code between two awaits  *)
(* is one action.                                                          *)
(***************************************************************************)
EXTENDS Naturals, Sequences, FiniteSets

CONSTANTS Account,      \* accounts that have a mutex
          Op,           \* operations that may run, each once
          NoOp,         \* "no controller", "no holder"
          MaxBatches    \* bound: cancellation checkpoints in one sync

ASSUME NoOpAssumption == NoOp \notin Op
ASSUME BatchAssumption == MaxBatches \in Nat \ {0}

VARIABLES
    chain,        \* [Account -> Seq(Op)]: the promises made so far; _tail is the last
    resolved,     \* operations whose promise is resolved (their release() ran)
    locked,       \* [Account -> BOOLEAN]: SyncMutex._locked
    pc,           \* [Op -> {"idle", "waiting", "running", "done"}]
    kind,         \* [Op -> {"none", "sync", "send"}]
    acct,         \* [Op -> Account \cup {NoOp}]: the account it asked the lock of
    controller,   \* the sync whose controller is syncController, or NoOp
    aborted,      \* syncs whose controller was cancelled
    batches,      \* [Op -> Nat]: units of work a sync did under the lock
    outcome       \* [Op -> Outcomes]: how the sync ended

\* A sync returns its result, returns undefined, or throws.
Outcomes == {"none", "complete", "undefined", "thrown"}

vars == <<chain, resolved, locked, pc, kind, acct, controller, aborted, batches, outcome>>

TypeOK ==
    /\ chain \in [Account -> Seq(Op)]
    /\ resolved \subseteq Op
    /\ locked \in [Account -> BOOLEAN]
    /\ pc \in [Op -> {"idle", "waiting", "running", "done"}]
    /\ kind \in [Op -> {"none", "sync", "send"}]
    /\ acct \in [Op -> Account \cup {NoOp}]
    /\ controller \in Op \cup {NoOp}
    /\ aborted \subseteq Op
    /\ batches \in [Op -> Nat]
    /\ outcome \in [Op -> Outcomes]

Init ==
    /\ chain = [a \in Account |-> <<>>]
    /\ resolved = {}
    /\ locked = [a \in Account |-> FALSE]
    /\ pc = [op \in Op |-> "idle"]
    /\ kind = [op \in Op |-> "none"]
    /\ acct = [op \in Op |-> NoOp]
    /\ controller = NoOp
    /\ aborted = {}
    /\ batches = [op \in Op |-> 0]
    /\ outcome = [op \in Op |-> "none"]

-----------------------------------------------------------------------------
(* acquire(): the promise a new request waits for is the tail it replaces. *)
Enqueue(op, a, k) ==
    /\ pc[op] = "idle"
    /\ chain' = [chain EXCEPT ![a] = Append(@, op)]
    /\ pc' = [pc EXCEPT ![op] = "waiting"]
    /\ kind' = [kind EXCEPT ![op] = k]
    /\ acct' = [acct EXCEPT ![op] = a]

\* MUTANTS of PrevResolved: any earlier promise will do; nobody waits.
SomeResolved(a, i) == i > 1 => \E p \in 1..(i - 1) : chain[a][p] \in resolved
NobodyWaits(a, i) == TRUE

\* The promise that the i-th request of account a awaits is resolved.
PrevResolved(a, i) == \A p \in 1..Len(chain[a]) : p + 1 = i => chain[a][p] \in resolved

\* MUTANT of Cancelled: the session is replaced without being aborted.
KeepPrevious == aborted

\* cancelSync(): abort the one controller there is, and forget it.
Cancelled == IF controller = NoOp THEN aborted ELSE aborted \cup {controller}

\* MUTANT of ReleaseLock: the promise is resolved and the flag stays up.
ReleaseKeepsFlag(op) ==
    /\ resolved' = resolved \cup {op}
    /\ pc' = [pc EXCEPT ![op] = "done"]
    /\ UNCHANGED <<chain, locked>>

\* release(): the flag is lowered before the promise is resolved.
ReleaseLock(op) ==
    /\ locked' = [locked EXCEPT ![acct[op]] = FALSE]
    /\ resolved' = resolved \cup {op}
    /\ pc' = [pc EXCEPT ![op] = "done"]
    /\ UNCHANGED chain

-----------------------------------------------------------------------------
\* syncWallet up to its first await: startNewSync(), then acquireSyncLock().
StartSync(op, a) ==
    /\ Enqueue(op, a, "sync")
    /\ aborted' = Cancelled
    /\ controller' = op
    /\ UNCHANGED <<resolved, locked, batches, outcome>>

\* A send (sendBSV and its variants) only takes the lock.
StartSend(op, a) ==
    /\ Enqueue(op, a, "send")
    /\ UNCHANGED <<resolved, locked, controller, aborted, batches, outcome>>

\* The await in acquire() resumes: the caller owns the lock.
Granted(op) ==
    /\ pc[op] = "waiting"
    /\ \E i \in 1..Len(chain[acct[op]]) :
          /\ chain[acct[op]][i] = op
          /\ PrevResolved(acct[op], i)
    /\ locked' = [locked EXCEPT ![acct[op]] = TRUE]
    /\ pc' = [pc EXCEPT ![op] = "running"]
    /\ UNCHANGED <<chain, resolved, kind, acct, controller, aborted, batches, outcome>>

\* A check of token.isCancelled passes and the sync goes on to the unit of work
\* after it (a batch of addresses, the history of an address, the locks...).
SyncBatch(op) ==
    /\ pc[op] = "running" /\ kind[op] = "sync"
    /\ op \notin aborted
    /\ batches[op] < MaxBatches
    /\ batches' = [batches EXCEPT ![op] = @ + 1]
    /\ UNCHANGED <<chain, resolved, locked, pc, kind, acct, controller, aborted, outcome>>

\* MUTANTS of SyncAborts: the early return is outside the try whose finally
\* releases; a check fires though the token is not aborted.
AbortsWithoutRelease(op) ==
    /\ pc[op] = "running" /\ kind[op] = "sync" /\ op \in aborted
    /\ pc' = [pc EXCEPT ![op] = "done"]
    /\ outcome' = [outcome EXCEPT ![op] = "undefined"]
    /\ UNCHANGED <<chain, resolved, locked, kind, acct, controller, aborted, batches>>
AbortsAnyway(op) ==
    /\ pc[op] = "running" /\ kind[op] = "sync"
    /\ ReleaseLock(op)
    /\ outcome' = [outcome EXCEPT ![op] = "undefined"]
    /\ UNCHANGED <<kind, acct, controller, aborted, batches>>

\* A check finds the token aborted: return undefined; finally releases.
SyncAborts(op) ==
    /\ pc[op] = "running" /\ kind[op] = "sync"
    /\ op \in aborted
    /\ ReleaseLock(op)
    /\ outcome' = [outcome EXCEPT ![op] = "undefined"]
    /\ UNCHANGED <<kind, acct, controller, aborted, batches>>

\* The last check passed and the result is returned, also by a sync that is aborted
\* after that check.  The session keeps its controller: nothing sets syncController to
\* null at the end of a sync.
SyncCompletes(op) ==
    /\ pc[op] = "running" /\ kind[op] = "sync"
    /\ batches[op] = MaxBatches
    /\ ReleaseLock(op)
    /\ outcome' = [outcome EXCEPT ![op] = "complete"]
    /\ UNCHANGED <<kind, acct, controller, aborted, batches>>

\* Work after the first check throws (the derived addresses cannot be read, a query of
\* an address fails...): the error leaves syncWallet, and finally releases.
SyncThrows(op) ==
    /\ pc[op] = "running" /\ kind[op] = "sync"
    /\ batches[op] > 0
    /\ ReleaseLock(op)
    /\ outcome' = [outcome EXCEPT ![op] = "thrown"]
    /\ UNCHANGED <<kind, acct, controller, aborted, batches>>

\* A send returns or throws: its finally releases the lock.
SendReturns(op) ==
    /\ pc[op] = "running" /\ kind[op] = "send"
    /\ ReleaseLock(op)
    /\ UNCHANGED <<kind, acct, controller, aborted, batches, outcome>>

\* Account switch, account creation, import and wallet deletion.
CancelSync ==
    /\ controller # NoOp
    /\ aborted' = Cancelled
    /\ controller' = NoOp
    /\ UNCHANGED <<chain, resolved, locked, pc, kind, acct, batches, outcome>>

Returns(op) == SyncAborts(op) \/ SyncCompletes(op) \/ SyncThrows(op) \/ SendReturns(op)

\* Every operation has run: only a bound of the model stops it here.
Finished == /\ \A op \in Op : pc[op] = "done"
            /\ controller = NoOp
            /\ UNCHANGED vars

Next ==
    \/ \E op \in Op, a \in Account : StartSync(op, a) \/ StartSend(op, a)
    \/ \E op \in Op : Granted(op) \/ SyncBatch(op) \/ Returns(op)
    \/ CancelSync
    \/ Finished

Spec == Init /\ [][Next]_vars

(* A promise that is resolved resumes its waiter (the microtask queue), and *)
(* code that holds the lock returns: every request it makes has a timeout.  *)
Fairness == \A op \in Op : WF_vars(Granted(op)) /\ WF_vars(SyncBatch(op) \/ Returns(op))
FairSpec == Spec /\ Fairness

-----------------------------------------------------------------------------
Holds(op, a) == pc[op] = "running" /\ acct[op] = a

(* "Ensures only one sync/send operation runs at a time" (cancellation.ts,  *)
(* the comment of SyncMutex), for each account, whatever number of          *)
(* operations queued while the lock was held.                               *)
MutualExclusion ==
    \A a \in Account : \A op1, op2 \in Op : Holds(op1, a) /\ Holds(op2, a) => op1 = op2

(* What isSyncInProgress reports is the truth: _locked is raised exactly    *)
(* while some operation runs under the lock, although release() of one      *)
(* operation and the resumption of the next are different callbacks.        *)
LockedFlagTruthful ==
    \A a \in Account : locked[a] <=> \E op \in Op : Holds(op, a)

(* A session that was superseded can still be in the queue or between two   *)
(* checks, but in the whole application only one sync that has not returned *)
(* is live, across accounts: "cancels any previous sync in progress".       *)
OneLiveSync ==
    \A op1, op2 \in Op :
        /\ kind[op1] = "sync" /\ pc[op1] \in {"waiting", "running"} /\ op1 \notin aborted
        /\ kind[op2] = "sync" /\ pc[op2] \in {"waiting", "running"} /\ op2 \notin aborted
        => op1 = op2

(* The lock is handed over in the order of the calls to acquire(): nobody   *)
(* who asked later runs before one who asked earlier has released.          *)
FirstComeFirstServed ==
    \A a \in Account : \A j \in 1..Len(chain[a]) :
        pc[chain[a][j]] \in {"running", "done"} =>
            \A i \in 1..(j - 1) : chain[a][i] \in resolved

(* The two together: operations of one account run one by one, in the order *)
(* of their calls to acquire() ("Ensures only one sync/send operation runs  *)
(* at a time"), however many queued, aborted or superseded each other.      *)
OneByOneInOrder == MutualExclusion /\ FirstComeFirstServed

(* Nobody waits for ever: every operation that asked for a lock returns.    *)
EveryRequestServed == \A op \in Op : pc[op] = "waiting" ~> pc[op] = "done"

(* The newest sync is not dropped in silence by what drops the others:      *)
(* unless it is superseded or cancelled itself, its caller gets the result  *)
(* or the error that stopped it, and never the undefined of a cancelled     *)
(* sync, which performSync does not tell from a sync that finished.         *)
NewestSyncNotDropped ==
    \A op \in Op : (controller = op) ~> (op \in aborted \/ outcome[op] \in {"complete", "thrown"})

-----------------------------------------------------------------------------
\* The abstract line of an account: the requests whose promise is not resolved, which
\* come after those whose promise is.
Served(a) == {i \in 1..Len(chain[a]) : chain[a][i] \in resolved}
LineOf(a) == SubSeq(chain[a], Cardinality(Served(a)) + 1, Len(chain[a]))

Abstract == INSTANCE AccountLock
              WITH line <- [a \in Account |-> LineOf(a)],
                   owns <- {op \in Op : pc[op] = "running"}

(* The promise chain implements the lock that AccountLock specifies. *)
ImplementsAccountLock == Abstract!Spec
=============================================================================
