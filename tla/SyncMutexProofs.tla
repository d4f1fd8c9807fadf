-------------------------- MODULE SyncMutexProofs --------------------------
(***************************************************************************)
(* Safety of the sync lock for any set of accounts, any set of operations  *)
(* and any number of units of work in a sync.                              *)
(*                                                                         *)
(* Mutual exclusion is not inductive: that two operations of one account   *)
(* never run together follows from where they stand in the promise chain.  *)
(* The invariant says that a request appears once, in the chain of its own *)
(* account, that a promise is resolved exactly when its operation is done, *)
(* and that everything in front of an operation that was served is done.   *)
(***************************************************************************)
EXTENDS SyncMutex, SequenceTheorems, FiniteSetTheorems, TLAPS

\* A request stands in the chain of the account it asked for, and only there.
ChainOwnsRequests ==
    /\ \A a \in Account : \A i \in 1..Len(chain[a]) :
          pc[chain[a][i]] # "idle" /\ acct[chain[a][i]] = a
    /\ \A op \in Op : pc[op] # "idle" =>
          /\ acct[op] \in Account
          /\ \E i \in 1..Len(chain[acct[op]]) : chain[acct[op]][i] = op

\* It stands there once.
ChainDistinct ==
    \A a \in Account : \A i, j \in 1..Len(chain[a]) : chain[a][i] = chain[a][j] => i = j

\* A promise is resolved when its operation is done, and not before.
ResolvedIsDone == \A op \in Op : op \in resolved <=> pc[op] = "done"

LockInv ==
    /\ TypeOK
    /\ ChainOwnsRequests
    /\ ChainDistinct
    /\ ResolvedIsDone
    /\ FirstComeFirstServed

-----------------------------------------------------------------------------
(* The initial state satisfies the invariant. *)
LEMMA InitLockInv == Init => LockInv
  BY NoOpAssumption DEF Init, LockInv, TypeOK, Outcomes, ChainOwnsRequests, ChainDistinct,
     ResolvedIsDone, FirstComeFirstServed

(* Appending to a sequence keeps what is there and adds one element. *)
LEMMA AppendFacts ==
    ASSUME NEW S, NEW s \in Seq(S), NEW e \in S
    PROVE  /\ Append(s, e) \in Seq(S)
           /\ Len(Append(s, e)) = Len(s) + 1
           /\ \A i \in 1..Len(s) : Append(s, e)[i] = s[i]
           /\ Append(s, e)[Len(s) + 1] = e
           /\ Len(s) \in Nat
  OBVIOUS

(* acquire() keeps the invariant. *)
LEMMA EnqueueLockInv ==
    ASSUME LockInv, NEW op \in Op, NEW a \in Account, NEW k \in {"sync", "send"},
           Enqueue(op, a, k), UNCHANGED <<resolved, locked, batches, outcome>>,
           controller' \in Op \cup {NoOp}, aborted' \in SUBSET Op
    PROVE  LockInv'
<1> USE DEF LockInv
<1>1. /\ chain[a] \in Seq(Op)
      /\ pc[op] = "idle"
      /\ chain' = [chain EXCEPT ![a] = Append(@, op)]
      /\ pc' = [pc EXCEPT ![op] = "waiting"]
      /\ acct' = [acct EXCEPT ![op] = a]
      /\ kind' = [kind EXCEPT ![op] = k]
  BY DEF Enqueue, TypeOK
<1>2. /\ chain'[a] = Append(chain[a], op)
      /\ \A b \in Account \ {a} : chain'[b] = chain[b]
      /\ Len(chain'[a]) = Len(chain[a]) + 1
      /\ \A i \in 1..Len(chain[a]) : chain'[a][i] = chain[a][i]
      /\ chain'[a][Len(chain[a]) + 1] = op
      /\ Len(chain[a]) \in Nat
  BY <1>1, AppendFacts DEF TypeOK
<1>3. \A b \in Account : \A i \in 1..Len(chain[b]) :
         chain[b][i] \in Op /\ chain[b][i] # op /\ chain'[b][i] = chain[b][i]
  BY <1>1, <1>2 DEF TypeOK, ChainOwnsRequests
<1>4. TypeOK'
  BY <1>1, <1>2, AppendFacts DEF TypeOK
<1>5. ChainOwnsRequests'
  <2>1. ASSUME NEW b \in Account, NEW i \in 1..Len(chain'[b])
        PROVE  pc'[chain'[b][i]] # "idle" /\ acct'[chain'[b][i]] = b
    <3>1. CASE b = a /\ i = Len(chain[a]) + 1
      BY <3>1, <1>1, <1>2 DEF TypeOK
    <3>2. CASE ~(b = a /\ i = Len(chain[a]) + 1)
      <4>1. i \in 1..Len(chain[b])
        BY <3>2, <1>2
      <4>2. QED
        BY <4>1, <1>1, <1>3 DEF TypeOK, ChainOwnsRequests
    <3>3. QED
      BY <3>1, <3>2
  <2>2. ASSUME NEW p \in Op, pc'[p] # "idle"
        PROVE  /\ acct'[p] \in Account
               /\ \E i \in 1..Len(chain'[acct'[p]]) : chain'[acct'[p]][i] = p
    <3>1. CASE p = op
      BY <3>1, <1>1, <1>2 DEF TypeOK
    <3>2. CASE p # op
      <4>1. /\ acct'[p] = acct[p]
            /\ acct[p] \in Account
            /\ \E i \in 1..Len(chain[acct[p]]) : chain[acct[p]][i] = p
        BY <3>2, <2>2, <1>1 DEF TypeOK, ChainOwnsRequests
      <4>2. PICK i \in 1..Len(chain[acct[p]]) : chain[acct[p]][i] = p
        BY <4>1
      <4>3. i \in 1..Len(chain'[acct[p]]) /\ chain'[acct[p]][i] = p
        BY <4>1, <4>2, <1>2, <1>3
      <4>4. QED
        BY <4>1, <4>3
    <3>3. QED
      BY <3>1, <3>2
  <2>3. QED
    BY <2>1, <2>2 DEF ChainOwnsRequests
<1>6. ChainDistinct'
  <2> SUFFICES ASSUME NEW b \in Account, NEW i \in 1..Len(chain'[b]),
                      NEW j \in 1..Len(chain'[b]), chain'[b][i] = chain'[b][j]
               PROVE  i = j
    BY DEF ChainDistinct
  <2>1. CASE b # a
    BY <2>1, <1>2 DEF ChainDistinct
  <2>2. CASE b = a /\ i \in 1..Len(chain[a]) /\ j \in 1..Len(chain[a])
    BY <2>2, <1>2 DEF ChainDistinct
  <2>3. CASE b = a /\ ~(i \in 1..Len(chain[a]) /\ j \in 1..Len(chain[a]))
    <3>1. i = Len(chain[a]) + 1 \/ j = Len(chain[a]) + 1
      BY <2>3, <1>2
    <3>2. QED
      BY <3>1, <2>3, <1>2, <1>3
  <2>4. QED
    BY <2>1, <2>2, <2>3
<1>7. ResolvedIsDone'
  BY <1>1 DEF TypeOK, ResolvedIsDone
<1>8. FirstComeFirstServed'
  BY <1>1, <1>2, <1>3 DEF TypeOK, FirstComeFirstServed
<1>9. QED
  BY <1>4, <1>5, <1>6, <1>7, <1>8

(* The resumption of a waiter keeps the invariant: the request in front of *)
(* it is resolved, and so is everything in front of that one.              *)
LEMMA GrantedLockInv ==
    ASSUME LockInv, NEW op \in Op, Granted(op)
    PROVE  LockInv'
<1> USE DEF LockInv
<1>1. PICK i \in 1..Len(chain[acct[op]]) :
         chain[acct[op]][i] = op /\ PrevResolved(acct[op], i)
  BY DEF Granted
<1>2. /\ pc[op] = "waiting" /\ acct[op] \in Account
      /\ pc' = [pc EXCEPT ![op] = "running"]
      /\ UNCHANGED <<chain, resolved, acct>>
      /\ chain[acct[op]] \in Seq(Op)
  BY DEF Granted, TypeOK, ChainOwnsRequests
<1>3. TypeOK'
  BY <1>2 DEF Granted, TypeOK
<1>4. ChainOwnsRequests'
  BY <1>2 DEF TypeOK, ChainOwnsRequests
<1>5. ChainDistinct' /\ ResolvedIsDone'
  BY <1>2 DEF TypeOK, ChainDistinct, ResolvedIsDone
<1>6. \A p \in 1..(i - 1) : chain[acct[op]][p] \in resolved
  <2>1. CASE i = 1
    BY <2>1
  <2>2. CASE i # 1
    <3>1. i - 1 \in 1..Len(chain[acct[op]]) /\ (i - 1) + 1 = i
      BY <2>2, <1>2
    <3>2. chain[acct[op]][i - 1] \in resolved
      BY <3>1, <1>1 DEF PrevResolved
    <3>3. chain[acct[op]][i - 1] \in Op
      BY <3>1, <1>2
    <3>4. pc[chain[acct[op]][i - 1]] = "done"
      BY <3>2, <3>3 DEF ResolvedIsDone
    <3>5. \A p \in 1..((i - 1) - 1) : chain[acct[op]][p] \in resolved
      BY <3>1, <3>4, <1>2 DEF FirstComeFirstServed
    <3>6. QED
      BY <3>1, <3>2, <3>5
  <2>3. QED
    BY <2>1, <2>2
<1>7. FirstComeFirstServed'
  <2> SUFFICES ASSUME NEW b \in Account, NEW j \in 1..Len(chain[b]),
                      pc'[chain[b][j]] \in {"running", "done"},
                      NEW p \in 1..(j - 1)
               PROVE  chain[b][p] \in resolved
    BY <1>2 DEF FirstComeFirstServed
  <2>1. chain[b][j] \in Op
    BY <1>2 DEF TypeOK
  <2>2. CASE chain[b][j] = op
    <3>1. b = acct[op]
      BY <2>2 DEF ChainOwnsRequests
    <3>2. i = j
      BY <3>1, <2>2, <1>1, <1>2 DEF ChainDistinct
    <3>3. QED
      BY <3>1, <3>2, <1>6
  <2>3. CASE chain[b][j] # op
    BY <2>1, <2>3, <1>2 DEF TypeOK, FirstComeFirstServed
  <2>4. QED
    BY <2>2, <2>3
<1>8. QED
  BY <1>3, <1>4, <1>5, <1>7

(* A release keeps the invariant: it resolves the promise of an operation   *)
(* that was running, so that everything in front of it is resolved already. *)
LEMMA ReleaseLockInv ==
    ASSUME LockInv, NEW op \in Op, pc[op] = "running", ReleaseLock(op),
           UNCHANGED <<kind, acct, controller, aborted, batches>>,
           outcome' \in [Op -> Outcomes]
    PROVE  LockInv'
<1> USE DEF LockInv
<1>1. /\ pc' = [pc EXCEPT ![op] = "done"]
      /\ resolved' = resolved \cup {op}
      /\ chain' = chain /\ acct' = acct
      /\ acct[op] \in Account
      /\ locked' = [locked EXCEPT ![acct[op]] = FALSE]
  BY DEF ReleaseLock, ChainOwnsRequests
<1>2. TypeOK'
  BY <1>1 DEF TypeOK
<1>3. ChainOwnsRequests' /\ ChainDistinct'
  <2>1. \A b \in Account : \A i \in 1..Len(chain[b]) : chain[b][i] \in Op
    BY DEF TypeOK
  <2>2. \A p \in Op : pc[p] # "idle" <=> pc'[p] # "idle"
    BY <1>1 DEF TypeOK
  <2>3. ChainOwnsRequests'
    BY <1>1, <2>1, <2>2 DEF ChainOwnsRequests
  <2>4. QED
    BY <2>3, <1>1 DEF ChainDistinct
<1>4. ResolvedIsDone'
  BY <1>1 DEF TypeOK, ResolvedIsDone
<1>5. \A b \in Account : \A j \in 1..Len(chain[b]) : chain[b][j] \in Op
  BY DEF TypeOK
<1>6. FirstComeFirstServed'
  BY <1>1, <1>5 DEF TypeOK, FirstComeFirstServed
<1>7. QED
  BY <1>2, <1>3, <1>4, <1>6

(* Every step keeps the invariant. *)
LEMMA NextLockInv == LockInv /\ [Next]_vars => LockInv'
<1> SUFFICES ASSUME LockInv, [Next]_vars PROVE LockInv'
  OBVIOUS
<1>1. ASSUME NEW op \in Op, NEW a \in Account, StartSync(op, a) PROVE LockInv'
  <2>1. controller' \in Op \cup {NoOp} /\ aborted' \in SUBSET Op
    BY <1>1 DEF StartSync, Cancelled, LockInv, TypeOK
  <2>2. QED
    BY <1>1, <2>1, EnqueueLockInv DEF StartSync
<1>2. ASSUME NEW op \in Op, NEW a \in Account, StartSend(op, a) PROVE LockInv'
  <2>1. controller' \in Op \cup {NoOp} /\ aborted' \in SUBSET Op
    BY <1>2 DEF StartSend, LockInv, TypeOK
  <2>2. QED
    BY <1>2, <2>1, EnqueueLockInv DEF StartSend
<1>3. ASSUME NEW op \in Op, Granted(op) PROVE LockInv'
  BY <1>3, GrantedLockInv
<1>4. ASSUME NEW op \in Op, SyncBatch(op) PROVE LockInv'
  BY <1>4 DEF SyncBatch, LockInv, TypeOK, ChainOwnsRequests, ChainDistinct,
     ResolvedIsDone, FirstComeFirstServed
<1>5. ASSUME NEW op \in Op, Returns(op) PROVE LockInv'
  <2>1. outcome' \in [Op -> Outcomes]
    BY <1>5 DEF Returns, SyncAborts, SyncCompletes, SyncThrows, SendReturns, LockInv, TypeOK, Outcomes
  <2>2. QED
    BY <1>5, <2>1, ReleaseLockInv DEF Returns, SyncAborts, SyncCompletes, SyncThrows, SendReturns
<1>6. ASSUME CancelSync PROVE LockInv'
  BY <1>6 DEF CancelSync, Cancelled, LockInv, TypeOK, ChainOwnsRequests, ChainDistinct,
     ResolvedIsDone, FirstComeFirstServed
<1>7. ASSUME UNCHANGED vars PROVE LockInv'
  BY <1>7 DEF vars, LockInv, TypeOK, ChainOwnsRequests, ChainDistinct,
     ResolvedIsDone, FirstComeFirstServed
<1>8. QED
  BY <1>1, <1>2, <1>3, <1>4, <1>5, <1>6, <1>7 DEF Next, Finished

(* LockInv is an invariant of the sync lock. *)
LEMMA SpecLockInv == Spec => []LockInv
  BY InitLockInv, NextLockInv, PTL DEF Spec

-----------------------------------------------------------------------------
(* The variables of the sync lock keep their types. *)
THEOREM SyncMutexTypeOK == Spec => []TypeOK
<1>1. LockInv => TypeOK
  BY DEF LockInv
<1>2. QED
  BY <1>1, SpecLockInv, PTL

(* Nobody who asked for the lock of an account later is served before one   *)
(* who asked earlier has released it.                                       *)
THEOREM SyncMutexFifo == Spec => []FirstComeFirstServed
<1>1. LockInv => FirstComeFirstServed
  BY DEF LockInv
<1>2. QED
  BY <1>1, SpecLockInv, PTL

(* Two owners would be two places of one chain, the later of which is       *)
(* running although the earlier is not resolved.                            *)
LEMMA LockInvExcludes == LockInv => MutualExclusion
<1> SUFFICES ASSUME LockInv, NEW a \in Account, NEW op1 \in Op, NEW op2 \in Op,
                    Holds(op1, a), Holds(op2, a)
             PROVE  op1 = op2
  BY DEF MutualExclusion
<1> USE DEF LockInv, Holds
<1>1. PICK i \in 1..Len(chain[a]) : chain[a][i] = op1
  BY DEF ChainOwnsRequests
<1>2. PICK j \in 1..Len(chain[a]) : chain[a][j] = op2
  BY DEF ChainOwnsRequests
<1>3. op1 \notin resolved /\ op2 \notin resolved
  BY DEF ResolvedIsDone
<1>4. Len(chain[a]) \in Nat
  BY DEF TypeOK
<1>5. ~(i < j)
  BY <1>1, <1>2, <1>3, <1>4 DEF FirstComeFirstServed
<1>6. ~(j < i)
  BY <1>1, <1>2, <1>3, <1>4 DEF FirstComeFirstServed
<1>7. QED
  BY <1>1, <1>2, <1>4, <1>5, <1>6

(* At most one operation of an account runs under its lock.                 *)
THEOREM SyncMutexExclusion == Spec => []MutualExclusion
BY LockInvExcludes, SpecLockInv, PTL

(* Operations of one account run one by one, in the order of their calls,   *)
(* for any number of accounts and operations.                               *)
THEOREM SyncMutexOneByOne == Spec => []OneByOneInOrder
<1>1. LockInv => OneByOneInOrder
  BY LockInvExcludes DEF LockInv, OneByOneInOrder
<1>2. QED
  BY <1>1, SpecLockInv, PTL

-----------------------------------------------------------------------------
(* Release lowers the flag of the only operation that runs in its account,  *)
(* whoever queued meanwhile.                                                *)
LEMMA NextFlagTruthful ==
    LockInv /\ LockInv' /\ LockedFlagTruthful /\ [Next]_vars => LockedFlagTruthful'
<1> SUFFICES ASSUME LockInv, LockInv', LockedFlagTruthful, [Next]_vars
             PROVE  LockedFlagTruthful'
  OBVIOUS
<1> USE DEF Holds
<1>a. MutualExclusion
  BY LockInvExcludes
<1>b. TypeOK /\ ChainOwnsRequests
  BY DEF LockInv
<1>0. ASSUME UNCHANGED <<locked, pc, acct>> PROVE LockedFlagTruthful'
  BY <1>0 DEF LockedFlagTruthful
<1>1. ASSUME NEW op \in Op, NEW a \in Account, StartSync(op, a) \/ StartSend(op, a)
      PROVE  LockedFlagTruthful'
  <2>1. /\ pc[op] = "idle" /\ pc'[op] = "waiting" /\ locked' = locked
        /\ \A p \in Op : p # op => pc'[p] = pc[p] /\ acct'[p] = acct[p]
    BY <1>1, <1>b DEF StartSync, StartSend, Enqueue, TypeOK
  <2>2. QED
    BY <2>1 DEF LockedFlagTruthful
<1>2. ASSUME NEW op \in Op, Granted(op) PROVE LockedFlagTruthful'
  <2>1. /\ pc'[op] = "running" /\ acct' = acct /\ pc[op] = "waiting"
        /\ \A p \in Op : p # op => pc'[p] = pc[p]
        /\ acct[op] \in Account /\ locked' = [locked EXCEPT ![acct[op]] = TRUE]
    BY <1>2, <1>b DEF Granted, TypeOK, ChainOwnsRequests
  <2>2. ASSUME NEW a \in Account, a # acct[op]
        PROVE  locked'[a] <=> \E p \in Op : pc'[p] = "running" /\ acct'[p] = a
    <3>1. locked'[a] = locked[a]
      BY <2>1, <2>2, <1>b DEF TypeOK
    <3>2. \A p \in Op : pc'[p] = "running" /\ acct'[p] = a <=> pc[p] = "running" /\ acct[p] = a
      BY <2>1, <2>2
    <3>3. locked[a] <=> \E p \in Op : pc[p] = "running" /\ acct[p] = a
      BY DEF LockedFlagTruthful
    <3>4. QED
      BY <3>1, <3>2, <3>3, Zenon
  <2>3. locked'[acct[op]] /\ pc'[op] = "running" /\ acct'[op] = acct[op]
    BY <2>1, <1>b DEF TypeOK
  <2>4. QED
    BY <2>1, <2>2, <2>3 DEF LockedFlagTruthful
<1>3. ASSUME NEW op \in Op, Returns(op) PROVE LockedFlagTruthful'
  <2>1. /\ pc'[op] = "done" /\ acct' = acct /\ pc[op] = "running"
        /\ \A p \in Op : p # op => pc'[p] = pc[p]
        /\ acct[op] \in Account /\ locked' = [locked EXCEPT ![acct[op]] = FALSE]
    BY <1>3, <1>b DEF Returns, SyncAborts, SyncCompletes, SyncThrows, SendReturns, ReleaseLock,
                      TypeOK, ChainOwnsRequests
  <2>2. ASSUME NEW a \in Account, a # acct[op]
        PROVE  locked'[a] <=> \E p \in Op : pc'[p] = "running" /\ acct'[p] = a
    <3>1. locked'[a] = locked[a]
      BY <2>1, <2>2, <1>b DEF TypeOK
    <3>2. \A p \in Op : pc'[p] = "running" /\ acct'[p] = a <=> pc[p] = "running" /\ acct[p] = a
      BY <2>1, <2>2
    <3>3. locked[a] <=> \E p \in Op : pc[p] = "running" /\ acct[p] = a
      BY DEF LockedFlagTruthful
    <3>4. QED
      BY <3>1, <3>2, <3>3, Zenon
  <2>3. ~ locked'[acct[op]] /\ \A p \in Op : ~ (pc'[p] = "running" /\ acct'[p] = acct[op])
    BY <2>1, <1>a, <1>b DEF MutualExclusion, TypeOK
  <2>4. QED
    BY <2>1, <2>2, <2>3 DEF LockedFlagTruthful
<1>4. CASE \/ \E op \in Op : SyncBatch(op)
           \/ CancelSync \/ UNCHANGED vars
  BY <1>0, <1>4 DEF SyncBatch, CancelSync, vars
<1>5. QED
  BY <1>1, <1>2, <1>3, <1>4 DEF Next, Finished

(* isSyncInProgress tells the truth: the flag of an account is up exactly   *)
(* while one of its operations runs.                                        *)
THEOREM SyncMutexFlag == Spec => []LockedFlagTruthful
<1>1. Init => LockedFlagTruthful
  BY DEF Init, LockedFlagTruthful, Holds
<1>2. QED
  BY <1>1, NextFlagTruthful, SpecLockInv, PTL DEF Spec

-----------------------------------------------------------------------------
\* A sync that has not returned and was not aborted is the one syncController
\* belongs to.
SessionIsLive ==
    \A op \in Op : /\ kind[op] = "sync" /\ pc[op] \in {"waiting", "running"}
                   /\ op \notin aborted
                   => controller = op

(* A new session aborts the one it replaces, so that the controller always  *)
(* belongs to the only live sync.                                           *)
LEMMA NextSessionIsLive == TypeOK /\ SessionIsLive /\ [Next]_vars => SessionIsLive'
<1> SUFFICES ASSUME TypeOK, SessionIsLive, [Next]_vars PROVE SessionIsLive'
  OBVIOUS
<1>1. ASSUME NEW op \in Op, NEW a \in Account, StartSync(op, a) PROVE SessionIsLive'
  <2>1. /\ controller' = op /\ aborted' = Cancelled
        /\ \A p \in Op : p # op => pc'[p] = pc[p] /\ kind'[p] = kind[p]
    BY <1>1 DEF StartSync, Enqueue, TypeOK
  <2>2. \A p \in Op : p \notin Cancelled => p \notin aborted /\ p # controller
    BY NoOpAssumption DEF Cancelled
  <2>3. QED
    BY <2>1, <2>2 DEF SessionIsLive
<1>2. ASSUME NEW op \in Op, NEW a \in Account, StartSend(op, a) PROVE SessionIsLive'
  BY <1>2 DEF StartSend, Enqueue, TypeOK, SessionIsLive
<1>3. ASSUME NEW op \in Op, Granted(op) PROVE SessionIsLive'
  BY <1>3 DEF Granted, TypeOK, SessionIsLive
<1>4. ASSUME NEW op \in Op, Returns(op) PROVE SessionIsLive'
  BY <1>4 DEF Returns, SyncAborts, SyncCompletes, SyncThrows, SendReturns, ReleaseLock, TypeOK,
              SessionIsLive
<1>5. CASE CancelSync
  <2>1. \A p \in Op : p \notin Cancelled => p \notin aborted /\ p # controller
    BY NoOpAssumption DEF Cancelled
  <2>2. QED
    BY <1>5, <2>1 DEF CancelSync, SessionIsLive
<1>6. CASE (\E op \in Op : SyncBatch(op)) \/ UNCHANGED vars
  BY <1>6 DEF SyncBatch, SessionIsLive, vars
<1>7. QED
  BY <1>1, <1>2, <1>3, <1>4, <1>5, <1>6 DEF Next, Finished

(* In the whole application at most one sync is live.                       *)
THEOREM SyncMutexOneSession == Spec => []OneLiveSync
<1>1. Init => SessionIsLive
  BY DEF Init, SessionIsLive
<1>2. SessionIsLive => OneLiveSync
  BY DEF SessionIsLive, OneLiveSync
<1>3. QED
  BY <1>1, <1>2, NextSessionIsLive, SyncMutexTypeOK, PTL DEF Spec

-----------------------------------------------------------------------------
(* The promise chain implements AccountLock.                                *)
(*                                                                          *)
(* The requests of an account that are resolved are the first of its chain, *)
(* because each is resolved in its turn; what is left of the chain is the   *)
(* line of the abstract lock.                                               *)

\* The first n requests of account a are resolved, and no other.
ServedUpTo(a, n) == n \in 0..Len(chain[a]) /\ Served(a) = 1..n

ServedIsPrefix == \A a \in Account : \E n \in Nat : ServedUpTo(a, n)

(* What is left of a sequence after its first n elements. *)
LEMMA RestFacts ==
    ASSUME NEW S, NEW s \in Seq(S), NEW n \in 0..Len(s)
    PROVE  /\ SubSeq(s, n + 1, Len(s)) \in Seq(S)
           /\ Len(SubSeq(s, n + 1, Len(s))) = Len(s) - n
           /\ \A i \in 1..(Len(s) - n) : SubSeq(s, n + 1, Len(s))[i] = s[n + i]
<1>1. Len(s) \in Nat /\ n \in Nat /\ n + 1 \in Int /\ Len(s) \in Int /\ n <= Len(s)
  OBVIOUS
<1>2. \A i \in (n + 1)..Len(s) : s[i] \in S
  BY <1>1
<1>3. /\ SubSeq(s, n + 1, Len(s)) \in Seq(S)
      /\ Len(SubSeq(s, n + 1, Len(s))) = IF n + 1 <= Len(s) THEN Len(s) - (n + 1) + 1 ELSE 0
      /\ \A i \in 1..(Len(s) - (n + 1) + 1) : SubSeq(s, n + 1, Len(s))[i] = s[(n + 1) + i - 1]
  BY <1>1, <1>2, SubSeqProperties
<1>4. /\ (IF n + 1 <= Len(s) THEN Len(s) - (n + 1) + 1 ELSE 0) = Len(s) - n
      /\ Len(s) - (n + 1) + 1 = Len(s) - n
      /\ \A i \in Int : (n + 1) + i - 1 = n + i
  BY <1>1
<1>5. Len(SubSeq(s, n + 1, Len(s))) = Len(s) - n
  BY <1>3, <1>4
<1>6. \A i \in 1..(Len(s) - n) : SubSeq(s, n + 1, Len(s))[i] = s[n + i]
  <2> SUFFICES ASSUME NEW i \in 1..(Len(s) - n) PROVE SubSeq(s, n + 1, Len(s))[i] = s[n + i]
    OBVIOUS
  <2>1. i \in 1..(Len(s) - (n + 1) + 1) /\ (n + 1) + i - 1 = n + i
    BY <1>1
  <2>2. QED BY <1>3, <2>1
<1>7. QED BY <1>3, <1>5, <1>6

(* It grows at its end when the sequence does. *)
LEMMA RestOfAppend ==
    ASSUME NEW S, NEW s \in Seq(S), NEW e \in S, NEW n \in 0..Len(s)
    PROVE  SubSeq(Append(s, e), n + 1, Len(s) + 1) = Append(SubSeq(s, n + 1, Len(s)), e)
<1> DEFINE t == Append(s, e)
           rest == SubSeq(s, n + 1, Len(s))
           restOfT == SubSeq(t, n + 1, Len(t))
<1>1. /\ t \in Seq(S) /\ Len(t) = Len(s) + 1 /\ Len(s) \in Nat /\ n \in Nat /\ n <= Len(s)
      /\ \A i \in 1..Len(s) : t[i] = s[i]
      /\ t[Len(s) + 1] = e
  BY AppendFacts
<1>2. rest \in Seq(S) /\ Len(rest) = Len(s) - n /\ \A i \in 1..(Len(s) - n) : rest[i] = s[n + i]
  BY RestFacts
<1>3. /\ restOfT \in Seq(S) /\ Len(restOfT) = Len(s) + 1 - n
      /\ \A i \in 1..(Len(s) + 1 - n) : restOfT[i] = t[n + i]
  <2>1. n \in 0..Len(t)
    BY <1>1
  <2> HIDE DEF t
  <2>2. QED BY <1>1, <2>1, RestFacts
<1> HIDE DEF rest, t
<1>4. /\ Append(rest, e) \in Seq(S) /\ Len(Append(rest, e)) = Len(s) - n + 1
      /\ \A i \in 1..(Len(s) - n) : Append(rest, e)[i] = s[n + i]
      /\ Append(rest, e)[Len(s) - n + 1] = e
  BY <1>2, AppendFacts
<1>5. ASSUME NEW i \in 1..(Len(s) + 1 - n) PROVE restOfT[i] = Append(rest, e)[i]
  <2>1. CASE i = Len(s) - n + 1
    <3>1. n + i = Len(s) + 1
      BY <2>1, <1>1
    <3>2. QED BY <3>1, <2>1, <1>1, <1>3, <1>4
  <2>2. CASE i # Len(s) - n + 1
    <3>1. i \in 1..(Len(s) - n) /\ n + i \in 1..Len(s)
      BY <2>2, <1>1
    <3>2. QED BY <3>1, <1>1, <1>3, <1>4
  <2>3. QED BY <2>1, <2>2
<1>6. restOfT = Append(rest, e)
  <2>1. Len(s) + 1 - n = Len(s) - n + 1
    BY <1>1
  <2> HIDE DEF restOfT
  <2>2. QED BY <1>3, <1>4, <1>5, <2>1, SeqEqual
<1>7. QED BY <1>1, <1>6 DEF rest, t

(* The line of an account, when its first n requests are resolved. *)
LEMMA LineFacts ==
    ASSUME TypeOK, NEW a \in Account, NEW n \in Nat, ServedUpTo(a, n)
    PROVE  /\ chain[a] \in Seq(Op) /\ Len(chain[a]) \in Nat
           /\ LineOf(a) = SubSeq(chain[a], n + 1, Len(chain[a]))
           /\ LineOf(a) \in Seq(Op)
           /\ Len(LineOf(a)) = Len(chain[a]) - n
           /\ \A i \in 1..(Len(chain[a]) - n) : LineOf(a)[i] = chain[a][n + i]
<1>1. chain[a] \in Seq(Op) /\ Len(chain[a]) \in Nat /\ n <= Len(chain[a])
  BY DEF TypeOK, ServedUpTo
<1>2. Cardinality(Served(a)) = n
  BY FS_Interval DEF ServedUpTo
<1>3. LineOf(a) = SubSeq(chain[a], n + 1, Len(chain[a]))
  BY <1>2 DEF LineOf
<1>4. n \in 0..Len(chain[a])
  BY DEF ServedUpTo
<1>5. QED BY <1>1, <1>3, <1>4, RestFacts

(* The next request to be resolved is the head of the line. *)
LEMMA HeadIsNext ==
    ASSUME TypeOK, NEW a \in Account, NEW n \in Nat, ServedUpTo(a, n),
           NEW i \in 1..Len(chain[a]), chain[a][i] \notin resolved,
           \A p \in 1..(i - 1) : chain[a][p] \in resolved
    PROVE  /\ i = n + 1
           /\ LineOf(a) # <<>> /\ Head(LineOf(a)) = chain[a][i]
           /\ Tail(LineOf(a)) = SubSeq(chain[a], n + 2, Len(chain[a]))
<1>1. i \notin 1..n /\ \A p \in 1..(i - 1) : p \in 1..n
  <2>1. \A p \in 1..Len(chain[a]) : p \in 1..n <=> chain[a][p] \in resolved
    BY DEF ServedUpTo, Served
  <2>2. Len(chain[a]) \in Nat
    BY DEF TypeOK
  <2>3. \A p \in 1..(i - 1) : p \in 1..Len(chain[a])
    BY <2>2
  <2>4. QED BY <2>1, <2>3
<1>2. i = n + 1
  <2>1. ~(i <= n) /\ (i > 1 => i - 1 <= n)
    BY <1>1
  <2>2. QED BY <2>1
<1>3. n + 1 \in 1..Len(chain[a]) /\ chain[a] \in Seq(Op) /\ Len(chain[a]) \in (n + 1)..Len(chain[a])
  BY <1>2 DEF TypeOK
<1>4. /\ LineOf(a) = SubSeq(chain[a], n + 1, Len(chain[a]))
      /\ LineOf(a) \in Seq(Op) /\ Len(LineOf(a)) = Len(chain[a]) - n
  BY LineFacts
<1>5. /\ Head(SubSeq(chain[a], n + 1, Len(chain[a]))) = chain[a][n + 1]
      /\ Tail(SubSeq(chain[a], n + 1, Len(chain[a]))) = SubSeq(chain[a], n + 1 + 1, Len(chain[a]))
  BY <1>3, HeadTailOfSubSeq
<1>6. LineOf(a) # <<>>
  <2>1. Len(LineOf(a)) # 0
    BY <1>3, <1>4
  <2>2. QED BY <2>1
<1>7. n + 1 + 1 = n + 2
  OBVIOUS
<1>8. QED BY <1>2, <1>4, <1>5, <1>6, <1>7

\* A step that neither asks, nor owns, nor releases.
LEMMA QuietLock ==
    ASSUME UNCHANGED <<chain, resolved>>,
           {op \in Op : pc[op] = "running"}' = {op \in Op : pc[op] = "running"}
    PROVE  UNCHANGED Abstract!lockVars
BY DEF Abstract!lockVars, LineOf, Served

(* acquire() is a Request. *)
LEMMA EnqueueIsRequest ==
    ASSUME LockInv, ServedIsPrefix, NEW op \in Op, NEW b \in Account, NEW k,
           Enqueue(op, b, k), UNCHANGED resolved
    PROVE  ServedIsPrefix' /\ Abstract!Next
<1> USE DEF LockInv
<1>1. /\ TypeOK /\ chain[b] \in Seq(Op) /\ pc[op] = "idle" /\ op \notin resolved
      /\ chain' = [chain EXCEPT ![b] = Append(@, op)]
      /\ pc' = [pc EXCEPT ![op] = "waiting"]
  BY DEF Enqueue, TypeOK, ResolvedIsDone
<1>2. /\ chain'[b] = Append(chain[b], op)
      /\ \A a \in Account \ {b} : chain'[a] = chain[a]
  BY <1>1 DEF TypeOK
<1>3. /\ Append(chain[b], op) \in Seq(Op)
      /\ Len(Append(chain[b], op)) = Len(chain[b]) + 1
      /\ \A i \in 1..Len(chain[b]) : Append(chain[b], op)[i] = chain[b][i]
      /\ Append(chain[b], op)[Len(chain[b]) + 1] = op
      /\ Len(chain[b]) \in Nat
  BY <1>1, AppendFacts
<1>4. Served(b)' = Served(b) /\ \A a \in Account \ {b} : Served(a)' = Served(a)
  <2>1. Served(b)' = {i \in 1..(Len(chain[b]) + 1) : Append(chain[b], op)[i] \in resolved}
    BY <1>2, <1>3 DEF Served
  <2>2. {i \in 1..(Len(chain[b]) + 1) : Append(chain[b], op)[i] \in resolved} = Served(b)
    BY <1>1, <1>3 DEF Served
  <2>3. QED BY <2>1, <2>2, <1>2 DEF Served
<1>5. \A a \in Account, n \in Nat : ServedUpTo(a, n) => ServedUpTo(a, n)'
  <2> SUFFICES ASSUME NEW a \in Account, NEW n \in Nat, ServedUpTo(a, n) PROVE ServedUpTo(a, n)'
    OBVIOUS
  <2>1. Served(a)' = Served(a) /\ Len(chain[a]) \in Nat
    BY <1>1, <1>4 DEF TypeOK
  <2>2. Len(chain'[a]) >= Len(chain[a]) /\ Len(chain'[a]) \in Nat
    BY <1>2, <1>3, <2>1
  <2>3. QED BY <2>1, <2>2 DEF ServedUpTo
<1>6. ServedIsPrefix'
  BY <1>5 DEF ServedIsPrefix
<1>7. \A a \in Account \ {b} : LineOf(a)' = LineOf(a)
  BY <1>2, <1>4 DEF LineOf
<1>8. LineOf(b)' = Append(LineOf(b), op)
  <2>1. PICK n \in Nat : ServedUpTo(b, n)
    BY DEF ServedIsPrefix
  <2>2. n \in 0..Len(chain[b]) /\ Cardinality(Served(b)) = n
    BY <2>1, FS_Interval DEF ServedUpTo
  <2>3. LineOf(b)' = SubSeq(Append(chain[b], op), n + 1, Len(chain[b]) + 1)
    BY <2>2, <1>2, <1>3, <1>4 DEF LineOf
  <2>4. LineOf(b) = SubSeq(chain[b], n + 1, Len(chain[b]))
    BY <2>2 DEF LineOf
  <2>5. QED BY <1>1, <2>2, <2>3, <2>4, RestOfAppend
<1>9. ASSUME NEW a \in Account, NEW i \in 1..Len(LineOf(a)) PROVE LineOf(a)[i] # op
  <2>1. PICK n \in Nat : ServedUpTo(a, n)
    BY DEF ServedIsPrefix
  <2>2. i \in 1..(Len(chain[a]) - n) /\ LineOf(a)[i] = chain[a][n + i] /\ Len(chain[a]) \in Nat
    BY <1>1, <2>1, <1>9, LineFacts
  <2>3. n + i \in 1..Len(chain[a])
    BY <2>1, <2>2 DEF ServedUpTo
  <2>4. QED BY <1>1, <2>2, <2>3 DEF ChainOwnsRequests
<1>10. {p \in Op : pc'[p] = "running"} = {p \in Op : pc[p] = "running"}
  BY <1>1 DEF TypeOK
<1>11. [a \in Account |-> LineOf(a)'] = [[a \in Account |-> LineOf(a)] EXCEPT ![b] = Append(@, op)]
  BY <1>7, <1>8
<1>12. Abstract!Request(op, b)
  BY <1>9, <1>10, <1>11 DEF Abstract!Request, Abstract!Waits
<1>13. QED BY <1>6, <1>12 DEF Abstract!Next

(* The resumption of a waiter is a Grant. *)
LEMMA GrantedIsGrant ==
    ASSUME LockInv, LockInv', ServedIsPrefix, NEW op \in Op, Granted(op)
    PROVE  ServedIsPrefix' /\ Abstract!Next
<1> USE DEF LockInv
<1>1. /\ pc[op] = "waiting" /\ acct[op] \in Account /\ op \notin resolved /\ TypeOK
      /\ pc' = [pc EXCEPT ![op] = "running"]
      /\ UNCHANGED <<chain, resolved, acct>>
  BY DEF Granted, ChainOwnsRequests, ResolvedIsDone
<1>2. PICK i \in 1..Len(chain[acct[op]]) : chain[acct[op]][i] = op
  BY DEF Granted
<1>3. \A p \in 1..(i - 1) : chain[acct[op]][p] \in resolved
  <2>1. pc'[chain'[acct[op]][i]] = "running"
    BY <1>1, <1>2 DEF TypeOK
  <2>2. QED BY <1>1, <2>1 DEF FirstComeFirstServed
<1>4. PICK n \in Nat : ServedUpTo(acct[op], n)
  BY <1>1 DEF ServedIsPrefix
<1>5. LineOf(acct[op]) # <<>> /\ Head(LineOf(acct[op])) = op
  BY <1>1, <1>2, <1>3, <1>4, HeadIsNext
<1>6. \A a \in Account : Served(a)' = Served(a) /\ LineOf(a)' = LineOf(a)
  BY <1>1 DEF Served, LineOf
<1>7. ServedIsPrefix'
  BY <1>1, <1>6 DEF ServedIsPrefix, ServedUpTo
<1>8. {p \in Op : pc'[p] = "running"} = {p \in Op : pc[p] = "running"} \cup {op}
  BY <1>1 DEF TypeOK
<1>9. [a \in Account |-> LineOf(a)'] = [a \in Account |-> LineOf(a)]
  BY <1>6
<1>0. PICK b \in Account : b = acct[op]
  BY <1>1
<1>10. Abstract!Grant(op, b)
  BY <1>0, <1>1, <1>5, <1>8, <1>9 DEF Abstract!Grant
<1>11. QED BY <1>7, <1>10 DEF Abstract!Next

(* release() is a Release. *)
LEMMA ReturnIsRelease ==
    ASSUME LockInv, ServedIsPrefix, NEW op \in Op, pc[op] = "running", ReleaseLock(op)
    PROVE  ServedIsPrefix' /\ Abstract!Next
<1> USE DEF LockInv
<1>1. /\ acct[op] \in Account /\ op \notin resolved /\ TypeOK
      /\ pc' = [pc EXCEPT ![op] = "done"] /\ resolved' = resolved \cup {op}
      /\ UNCHANGED chain
  BY DEF ReleaseLock, ChainOwnsRequests, ResolvedIsDone
<1>0. PICK b \in Account : b = acct[op]
  BY <1>1
<1>2. PICK i \in 1..Len(chain[b]) : chain[b][i] = op
  BY <1>0 DEF ChainOwnsRequests
<1>3. \A p \in 1..(i - 1) : chain[b][p] \in resolved
  BY <1>2, <1>1 DEF FirstComeFirstServed
<1>4. PICK n \in Nat : ServedUpTo(b, n)
  BY <1>1 DEF ServedIsPrefix
<1>5. /\ i = n + 1 /\ LineOf(b) # <<>> /\ Head(LineOf(b)) = op
      /\ Tail(LineOf(b)) = SubSeq(chain[b], n + 2, Len(chain[b]))
  BY <1>1, <1>2, <1>3, <1>4, HeadIsNext
<1>6. \A a \in Account \ {b} : Served(a)' = Served(a) /\ LineOf(a)' = LineOf(a)
  <2> SUFFICES ASSUME NEW a \in Account \ {b} PROVE Served(a)' = Served(a) /\ LineOf(a)' = LineOf(a)
    OBVIOUS
  <2>1. \A j \in 1..Len(chain[a]) : chain[a][j] # op
    BY <1>0 DEF ChainOwnsRequests
  <2>2. Served(a)' = Served(a)
    BY <1>1, <2>1 DEF Served
  <2>3. QED BY <1>1, <2>2 DEF LineOf
<1>7. ServedUpTo(b, n + 1)'
  <2>1. Served(b)' = Served(b) \cup {i}
    <3>1. \A j \in 1..Len(chain[b]) : chain[b][j] = op <=> j = i
      BY <1>2 DEF ChainDistinct
    <3>2. QED BY <1>1, <3>1 DEF Served
  <2>2. 1..(n + 1) = (1..n) \cup {n + 1}
    OBVIOUS
  <2>3. n + 1 \in 0..Len(chain'[b])
    BY <1>1, <1>5
  <2>4. QED BY <1>4, <1>5, <2>1, <2>2, <2>3 DEF ServedUpTo
<1>8. LineOf(b)' = Tail(LineOf(b))
  <2>1. Cardinality(Served(b)') = n + 1
    BY <1>7, FS_Interval DEF ServedUpTo
  <2>2. (n + 1) + 1 = n + 2
    OBVIOUS
  <2>3. QED BY <1>1, <1>5, <2>1, <2>2 DEF LineOf
<1>9. ServedIsPrefix'
  <2>1. \A a \in Account \ {b} : \A m \in Nat : ServedUpTo(a, m) => ServedUpTo(a, m)'
    BY <1>1, <1>6 DEF ServedUpTo
  <2>2. QED BY <1>7, <2>1 DEF ServedIsPrefix
<1>10. {p \in Op : pc'[p] = "running"} = {p \in Op : pc[p] = "running"} \ {op}
  BY <1>1 DEF TypeOK
<1>11. [a \in Account |-> LineOf(a)'] = [[a \in Account |-> LineOf(a)] EXCEPT ![b] = Tail(@)]
  BY <1>6, <1>8
<1>12. Abstract!Release(op, b)
  BY <1>1, <1>5, <1>10, <1>11 DEF Abstract!Release
<1>13. QED BY <1>9, <1>12 DEF Abstract!Next

LEMMA NextIsLockStep ==
    ASSUME LockInv, LockInv', ServedIsPrefix, [Next]_vars
    PROVE  ServedIsPrefix' /\ [Abstract!Next]_(Abstract!lockVars)
<1>0. ASSUME UNCHANGED <<chain, resolved, pc>>
      PROVE  ServedIsPrefix' /\ [Abstract!Next]_(Abstract!lockVars)
  <2>1. ServedIsPrefix'
    BY <1>0 DEF ServedIsPrefix, ServedUpTo, Served
  <2>2. QED BY <1>0, <2>1, QuietLock
<1>1. ASSUME NEW op \in Op, NEW a \in Account, StartSync(op, a) \/ StartSend(op, a)
      PROVE  ServedIsPrefix' /\ [Abstract!Next]_(Abstract!lockVars)
  BY <1>1, EnqueueIsRequest DEF StartSync, StartSend
<1>2. ASSUME NEW op \in Op, Granted(op)
      PROVE  ServedIsPrefix' /\ [Abstract!Next]_(Abstract!lockVars)
  BY <1>2, GrantedIsGrant
<1>3. ASSUME NEW op \in Op, Returns(op)
      PROVE  ServedIsPrefix' /\ [Abstract!Next]_(Abstract!lockVars)
  BY <1>3, ReturnIsRelease DEF Returns, SyncAborts, SyncCompletes, SyncThrows, SendReturns
<1>4. CASE (\E op \in Op : SyncBatch(op)) \/ CancelSync \/ UNCHANGED vars
  BY <1>0, <1>4 DEF SyncBatch, CancelSync, vars
<1>5. QED BY <1>1, <1>2, <1>3, <1>4 DEF Next, Finished

LEMMA InitServed == Init => ServedIsPrefix /\ \A a \in Account : LineOf(a) = <<>>
<1> SUFFICES ASSUME Init PROVE ServedIsPrefix /\ \A a \in Account : LineOf(a) = <<>>
  OBVIOUS
<1>1. \A a \in Account : ServedUpTo(a, 0)
  BY DEF Init, ServedUpTo, Served
<1>2. TypeOK
  BY InitLockInv DEF LockInv
<1>3. \A a \in Account : LineOf(a) \in Seq(Op) /\ Len(LineOf(a)) = 0
  BY <1>1, <1>2, LineFacts DEF Init
<1>4. QED BY <1>1, <1>3 DEF ServedIsPrefix

(* The chain of promises is the lock its callers rely on: every request     *)
(* joins the line of its account, the head of the line owns the lock, and   *)
(* only its release lets the next one in, for any number of operations.     *)
THEOREM SyncMutexIsAccountLock == Spec => ImplementsAccountLock
<1>1. Init => ServedIsPrefix /\ Abstract!Init
  BY InitServed DEF Init, Abstract!Init
<1>2. LockInv /\ LockInv' /\ ServedIsPrefix /\ [Next]_vars
         => ServedIsPrefix' /\ [Abstract!Next]_(Abstract!lockVars)
  BY NextIsLockStep
<1>3. QED BY <1>1, <1>2, SpecLockInv, PTL DEF Spec, ImplementsAccountLock, Abstract!Spec
-----------------------------------------------------------------------------
(* The newest session: what cancelled the others has not cancelled it.      *)

\* What an operation is, is known from its request on, and a sync does no more units
\* of work than it has.
RunsAsAsked ==
    \A op \in Op : /\ pc[op] # "idle" => kind[op] \in {"sync", "send"}
                   /\ batches[op] <= MaxBatches

\* Sessions are syncs that asked for a lock.
SessionsAreSyncs ==
    \A op \in Op : op = controller \/ op \in aborted => kind[op] = "sync" /\ pc[op] # "idle"

\* The session that owns syncController is not aborted, and if it has ended, it returned
\* its result or threw.
NewestSessionLives ==
    controller # NoOp =>
        /\ controller \notin aborted
        /\ pc[controller] = "done" => outcome[controller] \in {"complete", "thrown"}

SessionInv == RunsAsAsked /\ SessionsAreSyncs /\ NewestSessionLives

LEMMA NextSessionInv == TypeOK /\ SessionInv /\ [Next]_vars => SessionInv'
<1> SUFFICES ASSUME TypeOK, SessionInv, [Next]_vars PROVE SessionInv'
  OBVIOUS
<1> USE DEF SessionInv, RunsAsAsked, SessionsAreSyncs, NewestSessionLives
<1>1. ASSUME NEW op \in Op, NEW a \in Account, StartSync(op, a) PROVE SessionInv'
  <2>1. /\ controller' = op /\ aborted' = Cancelled /\ UNCHANGED <<batches, outcome>>
        /\ pc[op] = "idle" /\ pc'[op] = "waiting" /\ kind'[op] = "sync"
        /\ \A p \in Op : p # op => pc'[p] = pc[p] /\ kind'[p] = kind[p]
    BY <1>1 DEF StartSync, Enqueue, TypeOK
  <2>2. \A p \in Cancelled : p \in aborted \/ p = controller
    BY DEF Cancelled
  <2>3. op \notin Cancelled
    BY <2>1, <2>2
  <2>4. Cancelled \subseteq Op
    BY DEF Cancelled, TypeOK
  <2>5. QED BY <2>1, <2>2, <2>3, <2>4
<1>2. ASSUME NEW op \in Op, NEW a \in Account, StartSend(op, a) PROVE SessionInv'
  <2>1. /\ UNCHANGED <<controller, aborted, batches, outcome>>
        /\ pc[op] = "idle" /\ pc'[op] = "waiting" /\ kind'[op] = "send"
        /\ \A p \in Op : p # op => pc'[p] = pc[p] /\ kind'[p] = kind[p]
    BY <1>2 DEF StartSend, Enqueue, TypeOK
  <2>2. op # controller /\ op \notin aborted
    BY <2>1
  <2>3. controller # NoOp => controller \in Op /\ pc'[controller] = pc[controller]
    BY <2>1, <2>2 DEF TypeOK
  <2>4. QED BY <2>1, <2>2, <2>3
<1>3. ASSUME NEW op \in Op, Granted(op) PROVE SessionInv'
  <2>1. /\ UNCHANGED <<kind, controller, aborted, batches, outcome>>
        /\ pc[op] = "waiting" /\ pc'[op] = "running"
        /\ \A p \in Op : p # op => pc'[p] = pc[p]
    BY <1>3 DEF Granted, TypeOK
  <2>2. controller # NoOp => controller \in Op
    BY DEF TypeOK
  <2>3. QED BY <2>1, <2>2
<1>4. ASSUME NEW op \in Op, SyncBatch(op) PROVE SessionInv'
  <2>1. /\ UNCHANGED <<kind, pc, controller, aborted, outcome>>
        /\ batches[op] < MaxBatches /\ batches' = [batches EXCEPT ![op] = @ + 1]
    BY <1>4 DEF SyncBatch
  <2>2. batches \in [Op -> Nat] /\ MaxBatches \in Nat
    BY BatchAssumption DEF TypeOK
  <2>3. \A p \in Op : batches'[p] <= MaxBatches
    BY <2>1, <2>2
  <2>4. QED BY <2>1, <2>3
<1>5. ASSUME NEW op \in Op, Returns(op) PROVE SessionInv'
  <2>1. /\ UNCHANGED <<kind, controller, aborted, batches>>
        /\ pc[op] = "running" /\ pc'[op] = "done"
        /\ \A p \in Op : p # op => pc'[p] = pc[p]
    BY <1>5 DEF Returns, SyncAborts, SyncCompletes, SyncThrows, SendReturns, ReleaseLock, TypeOK
  <2>2. \A p \in Op : p # op => outcome'[p] = outcome[p]
    BY <1>5 DEF Returns, SyncAborts, SyncCompletes, SyncThrows, SendReturns, TypeOK
  <2>3. op = controller => outcome'[op] \in {"complete", "thrown"}
    <3>1. op = controller => kind[op] = "sync" /\ (op \notin aborted \/ op = NoOp)
      OBVIOUS
    <3>2. op # NoOp
      BY NoOpAssumption
    <3>3. kind[op] = "sync" /\ op \notin aborted => SyncCompletes(op) \/ SyncThrows(op)
      BY <1>5 DEF Returns, SyncAborts, SendReturns
    <3>4. SyncCompletes(op) \/ SyncThrows(op) => outcome'[op] \in {"complete", "thrown"}
      BY DEF SyncCompletes, SyncThrows, TypeOK
    <3>5. QED BY <3>1, <3>2, <3>3, <3>4
  <2>4. controller # NoOp => controller \in Op
    BY DEF TypeOK
  <2>5. QED BY <2>1, <2>2, <2>3, <2>4
<1>6. CASE CancelSync
  <2>1. controller' = NoOp /\ aborted' = Cancelled /\ UNCHANGED <<pc, kind, batches, outcome>>
    BY <1>6 DEF CancelSync
  <2>2. \A p \in Cancelled : p \in aborted \/ p = controller
    BY DEF Cancelled
  <2>3. QED BY <2>1, <2>2, NoOpAssumption
<1>7. CASE UNCHANGED vars
  BY <1>7 DEF vars
<1>8. QED
  BY <1>1, <1>2, <1>3, <1>4, <1>5, <1>6, <1>7 DEF Next, Finished

LEMMA SpecSessionInv == Spec => []SessionInv
<1>1. Init => SessionInv
  BY NoOpAssumption, BatchAssumption
     DEF Init, SessionInv, RunsAsAsked, SessionsAreSyncs, NewestSessionLives
<1>2. QED BY <1>1, NextSessionInv, SyncMutexTypeOK, PTL DEF Spec

(* However many syncs superseded each other, the newest one is not aborted  *)
(* by what aborted them, and never ends with the undefined of a cancelled   *)
(* sync, only with its result or with an error: the part of                 *)
(* NewestSyncNotDropped that is a state property.                           *)
THEOREM SyncMutexNewestLives == Spec => []NewestSessionLives
<1>1. SessionInv => NewestSessionLives
  BY DEF SessionInv
<1>2. QED BY <1>1, SpecSessionInv, PTL

-----------------------------------------------------------------------------
(* The chain never breaks: no order of requests, cancellations and releases *)
(* leaves a waiter behind a promise that nobody will resolve.               *)

\* The guards of the operation: a send returns, a sync finds its token aborted, goes on
\* or completes, an await in acquire() resumes.
MayMove(op) ==
    \/ pc[op] = "running" /\ kind[op] = "send"
    \/ pc[op] = "running" /\ kind[op] = "sync" /\ (op \in aborted \/ batches[op] <= MaxBatches)
    \/ /\ pc[op] = "waiting"
       /\ \E i \in 1..Len(chain[acct[op]]) : chain[acct[op]][i] = op /\ PrevResolved(acct[op], i)

\* Behind whoever waits stands somebody who may move, no further back in its chain.
NobodyIsStuck ==
    \A op \in Op : pc[op] = "waiting" =>
        \E i, j \in 1..Len(chain[acct[op]]) :
            /\ chain[acct[op]][i] = op
            /\ j <= i
            /\ MayMove(chain[acct[op]][j])

LEMMA FirstUnresolvedMoves == LockInv /\ ServedIsPrefix /\ RunsAsAsked => NobodyIsStuck
<1> SUFFICES ASSUME LockInv, ServedIsPrefix, RunsAsAsked, NEW op \in Op, pc[op] = "waiting"
             PROVE  \E i, j \in 1..Len(chain[acct[op]]) :
                       /\ chain[acct[op]][i] = op
                       /\ j <= i
                       /\ MayMove(chain[acct[op]][j])
  BY DEF NobodyIsStuck
<1> USE DEF LockInv
<1>1. PICK a \in Account : a = acct[op]
  BY DEF ChainOwnsRequests
<1>2. PICK i \in 1..Len(chain[a]) : chain[a][i] = op
  BY <1>1 DEF ChainOwnsRequests
<1>3. chain[a] \in Seq(Op) /\ Len(chain[a]) \in Nat /\ pc \in [Op -> {"idle", "waiting", "running", "done"}]
  BY DEF TypeOK
<1>4. PICK n \in Nat : ServedUpTo(a, n)
  BY DEF ServedIsPrefix
<1>5. \A p \in 1..Len(chain[a]) : p \in 1..n <=> chain[a][p] \in resolved
  BY <1>4 DEF ServedUpTo, Served
<1>6. op \notin resolved
  BY DEF ResolvedIsDone
<1>7. n + 1 \in 1..Len(chain[a]) /\ n + 1 <= i /\ n + 1 \notin 1..n
  BY <1>2, <1>3, <1>5, <1>6
<1>8. PICK q \in Op : q = chain[a][n + 1]
  BY <1>3, <1>7
<1>9. pc[q] \in {"waiting", "running"} /\ acct[q] = a
  <2>1. q \notin resolved
    BY <1>5, <1>7, <1>8
  <2>2. pc[q] # "idle" /\ acct[q] = a
    BY <1>7, <1>8 DEF ChainOwnsRequests
  <2>3. QED BY <1>3, <2>1, <2>2 DEF ResolvedIsDone
<1>10. PrevResolved(a, n + 1)
  <2>1. \A p \in 1..Len(chain[a]) : p + 1 = n + 1 => p \in 1..n
    BY <1>4, <1>3
  <2>2. QED BY <1>5, <2>1 DEF PrevResolved
<1>11. MayMove(chain[a][n + 1])
  BY <1>7, <1>8, <1>9, <1>10 DEF MayMove, RunsAsAsked
<1>12. QED BY <1>1, <1>2, <1>7, <1>11

(* Whoever waits for the lock of an account is, or stands behind, an        *)
(* operation that has a step to take, for any number of operations,         *)
(* sessions and cancellations: the part of EveryRequestServed that is a     *)
(* state property.                                                          *)
THEOREM SyncMutexNobodyStuck == Spec => []NobodyIsStuck
<1>1. Init => ServedIsPrefix
  BY InitServed
<1>2. LockInv /\ LockInv' /\ ServedIsPrefix /\ [Next]_vars => ServedIsPrefix'
  BY NextIsLockStep
<1>3. SessionInv => RunsAsAsked
  BY DEF SessionInv
<1>4. QED BY <1>1, <1>2, <1>3, FirstUnresolvedMoves, SpecLockInv, SpecSessionInv, PTL DEF Spec
=============================================================================
