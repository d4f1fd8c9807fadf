----------------------- MODULE TransactionQueueProofs -----------------------
(***************************************************************************)
(* The queue of withTransaction runs its calls one after the other, for    *)
(* any number of flows, connections, statements and failures; and with     *)
(* calls that do not overlap, on one connection, it is an AtomicStore.     *)
(***************************************************************************)
EXTENDS TransactionQueue, TLAPS

CallsTyped ==
    /\ queue \in Seq(Caller \ Direct) /\ depth \in Nat
    /\ pc \in [Caller -> {"idle", "queued", "open", "body", "undo"} \cup Settled]
    /\ level \in [Caller -> Nat]

Executing(c) == pc[c] \in {"open", "body", "undo"}

\* The queue holds calls that have not settled, each once, the first of which may
\* be executing.
QueueOfWaiters ==
    /\ \A i \in 1..Len(queue) : pc[queue[i]] = "queued" \/ (i = 1 /\ Executing(queue[i]))
    /\ \A i, j \in 1..Len(queue) : queue[i] = queue[j] => i = j

QueueInv == CallsTyped /\ QueueOfWaiters

LEMMA InitQueue == Init => QueueInv
BY DEF Init, QueueInv, CallsTyped, QueueOfWaiters

\* The phase of a call changes, the queue does not.
LEMMA PhaseKeepsQueue ==
    ASSUME QueueInv, UNCHANGED queue, CallsTyped',
           NEW c \in Caller, \A d \in Caller : d # c => pc'[d] = pc[d],
           \A i \in 1..Len(queue) : queue[i] = c => i = 1 /\ Executing(c)'
    PROVE  QueueInv'
BY DEF QueueInv, CallsTyped, QueueOfWaiters, Executing

\* A call that settles is the first of the queue, or is not in the queue.
LEMMA SettleKeepsQueue ==
    ASSUME QueueInv, NEW c \in Caller, Executing(c), NEW how \in Settled, Settle(c, how)
    PROVE  QueueInv'
<1>1. \A i \in 1..Len(queue) : queue[i] = c => i = 1
  BY DEF QueueInv, QueueOfWaiters, Executing
<1>2. /\ depth' \in Nat /\ level' = level
      /\ pc' \in [Caller -> {"idle", "queued", "open", "body", "undo"} \cup Settled]
      /\ \A d \in Caller : d # c => pc'[d] = pc[d]
  BY DEF Settle, QueueInv, CallsTyped
<1>3. CASE queue # <<>> /\ Head(queue) = c
  <2>1. queue' = Tail(queue) /\ queue \in Seq(Caller)
    BY <1>3 DEF Settle, QueueInv, CallsTyped
  <2>2. /\ queue' \in Seq(Caller \ Direct) /\ Len(queue') = Len(queue) - 1
        /\ \A i \in 1..Len(queue') : /\ i + 1 \in 1..Len(queue)
                                     /\ queue'[i] = queue[i + 1]
    BY <1>3, <2>1 DEF QueueInv, CallsTyped
  <2>3. ASSUME NEW i \in 1..Len(queue') PROVE pc'[queue'[i]] = "queued"
    <3>1. queue[i + 1] # c /\ queue[i + 1] \in Caller /\ i + 1 # 1
      BY <1>1, <2>1, <2>2
    <3>2. pc[queue[i + 1]] = "queued"
      BY <2>2, <3>1 DEF QueueInv, QueueOfWaiters
    <3>3. QED BY <1>2, <2>2, <3>1, <3>2
  <2>4. ASSUME NEW i \in 1..Len(queue'), NEW j \in 1..Len(queue'), queue'[i] = queue'[j]
        PROVE  i = j
    <3>1. i + 1 = j + 1
      BY <2>2, <2>4 DEF QueueInv, QueueOfWaiters
    <3>2. QED BY <3>1
  <2>5. QED BY <1>2, <2>2, <2>3, <2>4 DEF QueueInv, CallsTyped, QueueOfWaiters
<1>4. CASE ~ (queue # <<>> /\ Head(queue) = c)
  <2>1. queue' = queue
    BY <1>4 DEF Settle
  <2>2. CallsTyped'
    BY <1>2, <2>1 DEF QueueInv, CallsTyped
  <2>3. \A i \in 1..Len(queue) : queue[i] # c
    BY <1>1, <1>4 DEF QueueInv, CallsTyped
  <2>4. QED BY <1>2, <2>1, <2>2, <2>3, PhaseKeepsQueue
<1>5. QED BY <1>3, <1>4

LEMMA NextKeepsQueue == QueueInv /\ [Next]_vars => QueueInv'
<1> SUFFICES ASSUME QueueInv, [Next]_vars PROVE QueueInv'
  OBVIOUS
<1>1. ASSUME NEW c \in Caller, Call(c) PROVE QueueInv'
  <2>a. pc[c] = "idle" /\ \A i \in 1..Len(queue) : queue[i] # c
    BY <1>1 DEF Call, QueueInv, QueueOfWaiters, Executing
  <2>1. CASE c \notin Direct /\ depth = 0
    <3>1. /\ queue' = Append(queue, c) /\ pc' = [pc EXCEPT ![c] = "queued"]
          /\ UNCHANGED <<depth, level>>
      BY <1>1, <2>1 DEF Call
    <3>2. /\ queue' \in Seq(Caller \ Direct) /\ Len(queue') = Len(queue) + 1
          /\ queue'[Len(queue) + 1] = c
          /\ \A i \in 1..Len(queue) : queue'[i] = queue[i]
      BY <2>1, <3>1 DEF QueueInv, CallsTyped
    <3>3. CallsTyped'
      BY <3>1, <3>2 DEF QueueInv, CallsTyped
    <3>4. ASSUME NEW i \in 1..Len(queue')
          PROVE  pc'[queue'[i]] = "queued" \/ (i = 1 /\ pc'[queue'[i]] \in {"open", "body", "undo"})
      <4>1. CASE i \in 1..Len(queue)
        <5>1. queue'[i] = queue[i] /\ queue[i] # c /\ queue[i] \in Caller
          BY <2>a, <3>2, <4>1 DEF QueueInv, CallsTyped
        <5>2. pc'[queue'[i]] = pc[queue[i]]
          BY <3>1, <5>1 DEF QueueInv, CallsTyped
        <5>3. QED BY <4>1, <5>1, <5>2 DEF QueueInv, QueueOfWaiters, Executing
      <4>2. CASE i = Len(queue) + 1
        BY <3>1, <3>2, <4>2 DEF QueueInv, CallsTyped
      <4>3. Len(queue) \in Nat
        BY DEF QueueInv, CallsTyped
      <4>4. QED BY <3>2, <4>1, <4>2, <4>3
    <3>5. ASSUME NEW i \in 1..Len(queue'), NEW j \in 1..Len(queue'), queue'[i] = queue'[j]
          PROVE  i = j
      <4>1. Len(queue) \in Nat
        BY DEF QueueInv, CallsTyped
      <4>2. QED BY <2>a, <3>2, <3>5, <4>1 DEF QueueInv, QueueOfWaiters
    <3>6. QED BY <3>3, <3>4, <3>5 DEF QueueInv, QueueOfWaiters, Executing
  <2>2. CASE c \in Direct \/ depth # 0
    <3>1. UNCHANGED queue /\ (\A d \in Caller : d # c => pc'[d] = pc[d])
      BY <1>1, <2>2 DEF Call, Enter, QueueInv, CallsTyped
    <3>2. CASE c \in Direct
      <4>1. pc' = [pc EXCEPT ![c] = "body"] /\ UNCHANGED <<queue, depth, level>>
        BY <1>1, <3>2 DEF Call
      <4>2. CallsTyped'
        BY <4>1 DEF QueueInv, CallsTyped
      <4>3. QED BY <2>a, <3>1, <4>2, PhaseKeepsQueue
    <3>3. CASE c \notin Direct
      <4>1. Enter(c) /\ UNCHANGED queue
        BY <1>1, <2>2, <3>3 DEF Call
      <4>2. CallsTyped'
        BY <4>1 DEF Enter, QueueInv, CallsTyped
      <4>3. QED BY <2>a, <3>1, <4>2, PhaseKeepsQueue
    <3>4. QED BY <3>2, <3>3
  <2>3. QED BY <2>1, <2>2
<1>2. ASSUME NEW c \in Caller, Dequeue(c) PROVE QueueInv'
  <2>1. /\ queue # <<>> /\ queue[1] = c /\ queue' = queue
        /\ pc' = [pc EXCEPT ![c] = "open"]
    BY <1>2 DEF Dequeue, Enter, QueueInv, CallsTyped
  <2>2. CallsTyped'
    BY <1>2 DEF Dequeue, Enter, QueueInv, CallsTyped
  <2>3. \A i \in 1..Len(queue) : queue[i] = c => i = 1
    <3>1. 1 \in 1..Len(queue)
      BY <2>1 DEF QueueInv, CallsTyped
    <3>2. QED BY <2>1, <3>1 DEF QueueInv, QueueOfWaiters
  <2>4. Executing(c)' /\ \A d \in Caller : d # c => pc'[d] = pc[d]
    BY <2>1 DEF Executing, QueueInv, CallsTyped
  <2>5. QED BY <2>1, <2>2, <2>3, <2>4, PhaseKeepsQueue
<1>3. ASSUME NEW c \in Caller, Opens(c) \/ Runs(c) PROVE QueueInv'
  <2>1. UNCHANGED <<queue, depth, level>> /\ Executing(c)
    BY <1>3 DEF Opens, Runs, Executing
  <2>2. \E p \in {"body", "undo"} \cup Settled :
           /\ pc' = [pc EXCEPT ![c] = p]
           /\ p \in Settled => c \in Direct
    BY <1>3 DEF Opens, Runs, Settled
  <2>3. CallsTyped'
    BY <2>1, <2>2 DEF QueueInv, CallsTyped
  <2>4. \A i \in 1..Len(queue) : queue[i] = c => i = 1 /\ c \notin Direct
    BY <2>1 DEF QueueInv, CallsTyped, QueueOfWaiters, Executing
  <2>5. c \notin Direct => Executing(c)'
    BY <2>2 DEF QueueInv, CallsTyped, Executing
  <2>6. \A d \in Caller : d # c => pc'[d] = pc[d]
    BY <2>2 DEF QueueInv, CallsTyped
  <2>7. QED BY <2>1, <2>3, <2>4, <2>5, <2>6, PhaseKeepsQueue
<1>4. ASSUME NEW c \in Caller, Closes(c) PROVE QueueInv'
  <2>1. Executing(c)
    BY <1>4 DEF Closes, Executing
  <2>2. CASE Settle(c, "resolved")
    BY <2>1, <2>2, SettleKeepsQueue DEF Settled
  <2>3. CASE pc' = [pc EXCEPT ![c] = "undo"] /\ UNCHANGED <<queue, depth, level>>
    <3>1. CallsTyped'
      BY <2>3 DEF QueueInv, CallsTyped
    <3>2. Executing(c)' /\ \A d \in Caller : d # c => pc'[d] = pc[d]
      BY <2>3 DEF Executing, QueueInv, CallsTyped
    <3>3. \A i \in 1..Len(queue) : queue[i] = c => i = 1
      BY <2>1 DEF QueueInv, QueueOfWaiters, Executing
    <3>4. QED BY <2>3, <3>1, <3>2, <3>3, PhaseKeepsQueue
  <2>4. QED BY <1>4, <2>2, <2>3 DEF Closes
<1>5. ASSUME NEW c \in Caller, Undoes(c) \/ UndoFails(c) PROVE QueueInv'
  BY <1>5, SettleKeepsQueue DEF Undoes, UndoFails, Settled, Executing
<1>6. CASE UNCHANGED vars
  BY <1>6 DEF vars, QueueInv, CallsTyped, QueueOfWaiters, Executing
<1>7. QED BY <1>1, <1>2, <1>3, <1>4, <1>5, <1>6 DEF Next, Works, Finished

(* Calls of the queue never run together, in whatever way other calls nest  *)
(* in them by accident and whatever statement fails.                        *)
THEOREM QueueRunsOneByOne == Spec => []QueueSerializes
<1>1. QueueInv => QueueSerializes
  <2> SUFFICES ASSUME QueueInv, NEW i \in 2..Len(queue) PROVE pc[queue[i]] = "queued"
    BY DEF QueueSerializes
  <2>1. i \in 1..Len(queue) /\ i # 1
    BY DEF QueueInv, CallsTyped
  <2>2. QED BY <2>1 DEF QueueInv, QueueOfWaiters
<1>2. QED BY InitQueue, NextKeepsQueue, <1>1, PTL DEF Spec

-----------------------------------------------------------------------------
(* Nobody waits in vain: a call that waits is in the queue, and the queue    *)
(* has a head.                                                               *)

WaitersQueued == \A c \in Caller : pc[c] = "queued" => \E i \in 1..Len(queue) : queue[i] = c

LEMMA NextKeepsWaiters == QueueInv /\ WaitersQueued /\ [Next]_vars => WaitersQueued'
<1> SUFFICES ASSUME QueueInv, WaitersQueued, [Next]_vars,
                    NEW d \in Caller, pc'[d] = "queued"
             PROVE  \E i \in 1..Len(queue') : queue'[i] = d
  BY DEF WaitersQueued
<1> USE DEF QueueInv, CallsTyped
<1>0. ASSUME UNCHANGED queue, pc'[d] = pc[d] PROVE \E i \in 1..Len(queue') : queue'[i] = d
  BY <1>0 DEF WaitersQueued
<1>1. ASSUME NEW c \in Caller, Call(c) PROVE \E i \in 1..Len(queue') : queue'[i] = d
  <2>1. CASE c \notin Direct /\ depth = 0
    <3>1. queue' = Append(queue, c) /\ pc' = [pc EXCEPT ![c] = "queued"]
      BY <1>1, <2>1 DEF Call
    <3>2. /\ Len(queue') = Len(queue) + 1 /\ queue'[Len(queue) + 1] = c
          /\ \A i \in 1..Len(queue) : queue'[i] = queue[i]
      BY <2>1, <3>1
    <3>3. CASE d = c
      BY <3>2, <3>3
    <3>4. CASE d # c
      <4>1. pc[d] = "queued"
        BY <3>1, <3>4
      <4>2. PICK i \in 1..Len(queue) : queue[i] = d
        BY <4>1 DEF WaitersQueued
      <4>3. QED BY <3>2, <4>2
    <3>5. QED BY <3>3, <3>4
  <2>2. CASE c \in Direct \/ depth # 0
    <3>1. UNCHANGED queue /\ (pc' = [pc EXCEPT ![c] = "body"] \/ pc' = [pc EXCEPT ![c] = "open"])
      BY <1>1, <2>2 DEF Call, Enter
    <3>2. QED BY <3>1, <1>0
  <2>3. QED BY <2>1, <2>2
<1>2. ASSUME NEW c \in Caller, Dequeue(c) \/ Opens(c) \/ Runs(c)
      PROVE  \E i \in 1..Len(queue') : queue'[i] = d
  <2>1. /\ UNCHANGED queue
        /\ \E p \in {"open", "body", "undo"} \cup Settled : pc' = [pc EXCEPT ![c] = p]
    BY <1>2 DEF Dequeue, Enter, Opens, Runs, Settled
  <2>2. QED BY <2>1, <1>0 DEF Settled
<1>3. ASSUME NEW c \in Caller, Executing(c), NEW how \in Settled, Settle(c, how)
      PROVE  \E i \in 1..Len(queue') : queue'[i] = d
  <2>1. d # c /\ pc[d] = "queued"
    BY <1>3 DEF Settle, Settled
  <2>2. PICK i \in 1..Len(queue) : queue[i] = d
    BY <2>1 DEF WaitersQueued
  <2>3. CASE queue # <<>> /\ Head(queue) = c
    <3>1. queue' = Tail(queue) /\ queue \in Seq(Caller)
      BY <1>3, <2>3 DEF Settle
    <3>2. Len(queue') = Len(queue) - 1 /\ \A j \in 1..Len(queue') : queue'[j] = queue[j + 1]
      BY <2>3, <3>1
    <3>3. i # 1
      BY <2>1, <2>2, <2>3
    <3>4. i - 1 \in 1..Len(queue') /\ (i - 1) + 1 = i
      BY <2>2, <3>1, <3>2, <3>3
    <3>5. QED BY <2>2, <3>2, <3>4
  <2>4. CASE ~(queue # <<>> /\ Head(queue) = c)
    BY <1>3, <2>2, <2>4 DEF Settle
  <2>5. QED BY <2>3, <2>4
<1>4. ASSUME NEW c \in Caller, Closes(c) \/ Undoes(c) \/ UndoFails(c)
      PROVE  \E i \in 1..Len(queue') : queue'[i] = d
  <2>1. Executing(c)
    BY <1>4 DEF Closes, Undoes, UndoFails, Executing
  <2>2. CASE pc' = [pc EXCEPT ![c] = "undo"] /\ UNCHANGED queue
    BY <2>2, <1>0
  <2>3. QED BY <1>3, <1>4, <2>1, <2>2 DEF Closes, Undoes, UndoFails, Settled
<1>5. CASE UNCHANGED vars
  BY <1>0, <1>5 DEF vars
<1>6. QED BY <1>1, <1>2, <1>4, <1>5 DEF Next, Works, Finished

\* A call that waits stands in the queue, whose head executes or is the next to start.
QueueMoves ==
    \A c \in Caller : pc[c] = "queued" =>
        /\ \E i \in 1..Len(queue) : queue[i] = c
        /\ queue # <<>>
        /\ pc[Head(queue)] = "queued" \/ Executing(Head(queue))

(* A failed call does not wedge the queue (the finally of withTransaction):  *)
(* whatever failed, whoever waits stands in a queue whose head executes or   *)
(* may start, for any number of flows, connections and statements. This is   *)
(* the part of EveryCallSettles that is a state property.                    *)
THEOREM QueueNeverWedges == Spec => []QueueMoves
<1>1. Init => WaitersQueued
  BY DEF Init, WaitersQueued
<1>2. QueueInv /\ WaitersQueued => QueueMoves
  <2> SUFFICES ASSUME QueueInv, NEW c \in Caller, NEW i \in 1..Len(queue), queue[i] = c
               PROVE  queue # <<>> /\ (pc[Head(queue)] = "queued" \/ Executing(Head(queue)))
    BY DEF QueueMoves, WaitersQueued
  <2>1. queue \in Seq(Caller) /\ queue # <<>>
    BY DEF QueueInv, CallsTyped
  <2>2. 1 \in 1..Len(queue) /\ Head(queue) = queue[1]
    BY <2>1
  <2>3. QED BY <2>1, <2>2 DEF QueueInv, QueueOfWaiters
<1>3. QED BY InitQueue, NextKeepsQueue, NextKeepsWaiters, <1>1, <1>2, PTL DEF Spec

-----------------------------------------------------------------------------
(* The types of the savepoints and the rows.                                *)

StoreTyped ==
    /\ inside \in BOOLEAN /\ step \in [Caller -> 0..Writes]
    /\ stack \in [Conn -> Seq(Savepoint)] /\ disk \subseteq Row
    /\ faults \in 0..MaxFaults

LEMMA RowsInTyped ==
    ASSUME NEW s \in Seq(Savepoint)
    PROVE  RowsIn(s) \subseteq Row
<1>1. \A i \in 1..Len(s) : s[i] \in Savepoint
  OBVIOUS
<1>2. \A i \in 1..Len(s) : s[i].rows \subseteq Row
  BY <1>1 DEF Savepoint
<1>3. QED BY <1>2 DEF RowsIn

LEMMA AddRowsTyped ==
    ASSUME NEW s \in Seq(Savepoint), s # <<>>, NEW R \in SUBSET Row
    PROVE  AddRows(s, R) \in Seq(Savepoint)
<1> DEFINE n == Len(s)
           top == [s[n] EXCEPT !.rows = @ \cup R]
<1>1. n \in 1..Len(s) /\ s[n] \in Savepoint
  OBVIOUS
<1>2. top \in Savepoint
  BY <1>1 DEF Savepoint
<1>3. [s EXCEPT ![n] = top] \in Seq(Savepoint)
  BY <1>1, <1>2
<1>4. QED BY <1>3 DEF AddRows

LEMMA CommitTyped ==
    ASSUME StoreTyped, NEW k \in Conn, CommitAll(k)
    PROVE  stack' \in [Conn -> Seq(Savepoint)] /\ disk' \subseteq Row
<1>1. RowsIn(stack[k]) \subseteq Row
  BY RowsInTyped DEF StoreTyped
<1>2. QED BY <1>1 DEF CommitAll, StoreTyped

LEMMA ReleaseTyped ==
    ASSUME StoreTyped, NEW k \in Conn, NEW d, ReleaseTo(k, d)
    PROVE  stack' \in [Conn -> Seq(Savepoint)] /\ disk' \subseteq Row
<1> DEFINE above(i) == RowsIn(SubSeq(stack[k], i, Len(stack[k])))
<1>1. PICK i \in LastNamed(k, d) :
         IF i = 1 THEN CommitAll(k)
         ELSE /\ stack' = [stack EXCEPT ![k] = AddRows(SubSeq(@, 1, i - 1), above(i))]
              /\ UNCHANGED disk
  BY DEF ReleaseTo
<1>2. stack[k] \in Seq(Savepoint) /\ i \in 1..Len(stack[k])
  BY DEF StoreTyped, LastNamed, Named
<1>3. CASE i = 1
  BY <1>1, <1>3, CommitTyped
<1>4. CASE i # 1
  <2>1. SubSeq(stack[k], i, Len(stack[k])) \in Seq(Savepoint)
    BY <1>2
  <2>2. above(i) \subseteq Row
    BY <2>1, RowsInTyped
  <2>3. SubSeq(stack[k], 1, i - 1) \in Seq(Savepoint) /\ SubSeq(stack[k], 1, i - 1) # <<>>
    BY <1>2, <1>4
  <2>4. AddRows(SubSeq(stack[k], 1, i - 1), above(i)) \in Seq(Savepoint)
    BY <2>2, <2>3, AddRowsTyped
  <2>5. QED BY <1>1, <1>4, <2>4 DEF StoreTyped
<1>5. QED BY <1>3, <1>4

LEMMA RollBackTyped ==
    ASSUME StoreTyped, NEW k \in Conn, NEW d \in Nat, RollBackTo(k, d)
    PROVE  stack' \in [Conn -> Seq(Savepoint)] /\ disk' \subseteq Row
<1>1. PICK i \in LastNamed(k, d) :
         stack' = [stack EXCEPT ![k] = Append(SubSeq(@, 1, i - 1), [name |-> d, rows |-> {}])]
  BY DEF RollBackTo
<1>2. stack[k] \in Seq(Savepoint) /\ i \in 1..Len(stack[k])
  BY DEF StoreTyped, LastNamed, Named
<1>a. SubSeq(stack[k], 1, i - 1) \in Seq(Savepoint)
  BY <1>2
<1>b. [name |-> d, rows |-> {}] \in Savepoint
  BY DEF Savepoint
<1>3. SubSeq(stack[k], 1, i - 1) \in Seq(Savepoint) /\ [name |-> d, rows |-> {}] \in Savepoint
  BY <1>a, <1>b
<1>4. Append(SubSeq(stack[k], 1, i - 1), [name |-> d, rows |-> {}]) \in Seq(Savepoint)
  BY <1>3
<1>5. QED BY <1>1, <1>4 DEF StoreTyped, RollBackTo

LEMMA InsertTyped ==
    ASSUME StoreTyped, NEW k \in Conn, NEW row \in Row, Insert(k, row)
    PROVE  stack' \in [Conn -> Seq(Savepoint)] /\ disk' \subseteq Row
<1>1. CASE stack[k] = <<>>
  BY <1>1 DEF Insert, StoreTyped
<1>2. CASE stack[k] # <<>>
  <2>1. AddRows(stack[k], {row}) \in Seq(Savepoint)
    BY <1>2, AddRowsTyped DEF StoreTyped
  <2>2. QED BY <1>2, <2>1 DEF Insert, StoreTyped
<1>3. QED BY <1>1, <1>2

LEMMA NextKeepsStore == QueueInv /\ StoreTyped /\ [Next]_vars => StoreTyped'
<1> SUFFICES ASSUME QueueInv, StoreTyped, [Next]_vars PROVE StoreTyped'
  OBVIOUS
<1> USE DEF store
<1>1. ASSUME NEW c \in Caller, Call(c) \/ Dequeue(c) PROVE StoreTyped'
  BY <1>1 DEF Call, Dequeue, Enter, StoreTyped
<1>2. ASSUME NEW c \in Caller, Opens(c) PROVE StoreTyped'
  <2>0. UNCHANGED <<inside, step>>
    BY <1>2 DEF Opens
  <2>1. PICK k \in Conn : \/ Push(k, level[c]) /\ UNCHANGED faults
                          \/ UNCHANGED <<store, faults>>
                          \/ Faulty /\ UNCHANGED store
    BY <1>2 DEF Opens
  <2>2. CASE Push(k, level[c]) /\ UNCHANGED faults
    <3>1. [name |-> level[c], rows |-> {}] \in Savepoint /\ stack[k] \in Seq(Savepoint)
      BY <1>2 DEF QueueInv, CallsTyped, Savepoint, StoreTyped
    <3>2. Append(stack[k], [name |-> level[c], rows |-> {}]) \in Seq(Savepoint)
      BY <3>1
    <3>3. QED BY <2>0, <2>2, <3>2 DEF Push, StoreTyped
  <2>3. CASE UNCHANGED <<store, faults>>
    BY <2>0, <2>3 DEF StoreTyped
  <2>4. CASE Faulty /\ UNCHANGED store
    BY <2>0, <2>4, BoundAssumption DEF Faulty, StoreTyped
  <2>5. QED BY <2>1, <2>2, <2>3, <2>4
<1>3. ASSUME NEW c \in Caller, Runs(c) PROVE StoreTyped'
  <2>0. UNCHANGED inside /\ step[c] \in 0..Writes /\ step[c] < Writes
    BY <1>3 DEF Runs, StoreTyped
  <2>1. PICK k \in Conn :
          \/ Insert(k, <<c, step[c] + 1>>) /\ step' = [step EXCEPT ![c] = @ + 1] /\ UNCHANGED faults
          \/ UNCHANGED <<store, step>> /\ (UNCHANGED faults \/ Faulty)
    BY <1>3 DEF Runs
  <2>2. CASE Insert(k, <<c, step[c] + 1>>) /\ step' = [step EXCEPT ![c] = @ + 1] /\ UNCHANGED faults
    <3>1. step[c] + 1 \in 1..Writes
      BY <2>0, BoundAssumption
    <3>2. <<c, step[c] + 1>> \in Row
      BY <3>1 DEF Row
    <3>3. stack' \in [Conn -> Seq(Savepoint)] /\ disk' \subseteq Row
      BY <2>2, <3>2, InsertTyped
    <3>4. step' \in [Caller -> 0..Writes]
      BY <2>2, <3>1 DEF StoreTyped
    <3>5. QED BY <2>0, <2>2, <3>3, <3>4 DEF StoreTyped
  <2>3. CASE UNCHANGED <<store, step>> /\ (UNCHANGED faults \/ Faulty)
    BY <2>0, <2>3, BoundAssumption DEF Faulty, StoreTyped
  <2>4. QED BY <2>1, <2>2, <2>3
<1>4. ASSUME NEW c \in Caller, Closes(c) PROVE StoreTyped'
  <2>1. PICK k \in Conn :
          \/ /\ IF level[c] = 0 THEN CommitAll(k) ELSE ReleaseTo(k, level[c])
             /\ Settle(c, "resolved") /\ UNCHANGED faults
          \/ /\ UNCHANGED <<store, inside, step>> /\ (UNCHANGED faults \/ Faulty)
    BY <1>4 DEF Closes
  <2>2. CASE /\ IF level[c] = 0 THEN CommitAll(k) ELSE ReleaseTo(k, level[c])
             /\ Settle(c, "resolved") /\ UNCHANGED faults
    <3>1. stack' \in [Conn -> Seq(Savepoint)] /\ disk' \subseteq Row
      BY <2>2, CommitTyped, ReleaseTyped
    <3>2. QED BY <2>2, <3>1 DEF Settle, StoreTyped
  <2>3. CASE UNCHANGED <<store, inside, step>> /\ (UNCHANGED faults \/ Faulty)
    BY <2>3, BoundAssumption DEF Faulty, StoreTyped
  <2>4. QED BY <2>1, <2>2, <2>3
<1>5. ASSUME NEW c \in Caller, Undoes(c) PROVE StoreTyped'
  <2>1. Settle(c, "rejected") /\ UNCHANGED faults
    BY <1>5 DEF Undoes
  <2>2. stack' \in [Conn -> Seq(Savepoint)] /\ disk' \subseteq Row
    <3>1. CASE level[c] = 0
      <4>1. PICK K : stack' = [k \in Conn |-> IF k \in K THEN <<>> ELSE stack[k]]
        BY <1>5, <3>1 DEF Undoes
      <4>2. QED BY <1>5, <3>1, <4>1 DEF Undoes, StoreTyped
    <3>2. CASE level[c] # 0
      <4>1. PICK k \in Conn : UNCHANGED store \/ RollBackTo(k, level[c])
        BY <1>5, <3>2 DEF Undoes
      <4>2. level[c] \in Nat
        BY <1>5 DEF QueueInv, CallsTyped
      <4>3. QED BY <4>1, <4>2, RollBackTyped DEF StoreTyped
    <3>3. QED BY <3>1, <3>2
  <2>3. QED BY <2>1, <2>2 DEF Settle, StoreTyped
<1>6. ASSUME NEW c \in Caller, UndoFails(c) PROVE StoreTyped'
  <2>1. faults' \in 0..MaxFaults
    BY <1>6, BoundAssumption DEF UndoFails, Faulty, StoreTyped
  <2>2. QED BY <1>6, <2>1 DEF UndoFails, Settle, StoreTyped
<1>7. CASE UNCHANGED vars
  BY <1>7 DEF vars, StoreTyped
<1>8. QED
  BY <1>1, <1>2, <1>3, <1>4, <1>5, <1>6, <1>7 DEF Next, Works, Finished

LEMMA InitTyped == Init => QueueInv /\ StoreTyped
<1> SUFFICES ASSUME Init PROVE QueueInv /\ StoreTyped
  OBVIOUS
<1>1. 0 \in 0..Writes /\ 0 \in 0..MaxFaults
  BY BoundAssumption
<1>2. stack \in [Conn -> Seq(Savepoint)]
  BY DEF Init
<1>3. StoreTyped
  BY <1>1, <1>2 DEF Init, StoreTyped
<1>4. QED BY <1>3, InitQueue

\* The queue, the calls and what each connection holds stay well typed, for any
\* number of flows, connections and statements.
THEOREM QueueTypeOK == Spec => []TypeOK
<1>1. Init => QueueInv /\ StoreTyped
  BY InitTyped
<1>2. QueueInv /\ StoreTyped /\ [Next]_vars => (QueueInv /\ StoreTyped)'
  BY NextKeepsQueue, NextKeepsStore
<1>3. QueueInv /\ StoreTyped => TypeOK
  <2> SUFFICES ASSUME QueueInv, StoreTyped PROVE TypeOK
    OBVIOUS
  <2>1. queue \in Seq(Caller)
    BY DEF QueueInv, CallsTyped
  <2>2. QED BY <2>1 DEF QueueInv, CallsTyped, StoreTyped, TypeOK
<1>4. QED BY <1>1, <1>2, <1>3, PTL DEF Spec

-----------------------------------------------------------------------------
(* Calls that do not overlap, on one connection.                            *)
(*                                                                          *)
(* What a call has written so far is in the one savepoint of its BEGIN, or  *)
(* its statements failed and it is about to reject.  A ROLLBACK that failed *)
(* leaves rows behind in a transaction that nobody commits: the next BEGIN  *)
(* fails in it.                                                             *)

OneAtATime == ~Overlap /\ Direct = {} /\ \A j, k \in Conn : j = k

Begun(c) == <<[name |-> 0, rows |-> {c} \X (1..step[c])]>>

SerialInv ==
    /\ \A c, d \in Caller : c \in InProgress /\ d \in InProgress => c = d
    /\ \A c \in Caller : level[c] = 0
    /\ \A c \in InProgress : queue = <<c>>
    /\ InProgress = {} => queue = <<>>
    /\ (\A c \in Caller : ~Executing(c)) => depth = 0
    /\ \A c \in Caller : pc[c] \in {"idle", "queued", "open"} => step[c] = 0
    /\ \A c \in Caller : pc[c] = "body" => \A k \in Conn : stack[k] = Begun(c)

\* The end of a call that was alone.
LEMMA SettleSerial ==
    ASSUME QueueInv, SerialInv, NEW c \in Caller, Executing(c), NEW how \in Settled,
           Settle(c, how)
    PROVE  SerialInv' /\ pc' = [pc EXCEPT ![c] = how]
<1>1. /\ pc' = [pc EXCEPT ![c] = how] /\ depth' = 0 /\ UNCHANGED <<level, step>>
      /\ pc \in [Caller -> {"idle", "queued", "open", "body", "undo"} \cup Settled]
  BY DEF Settle, SerialInv, QueueInv, CallsTyped
<1>2. c \in InProgress /\ InProgress' = {}
  BY <1>1 DEF InProgress, SerialInv, Executing, Settled
<1>3. queue' = <<>>
  <2>1. queue = <<c>>
    BY <1>2 DEF SerialInv
  <2>2. queue # <<>> /\ Head(queue) = c /\ Tail(queue) = <<>>
    BY <2>1
  <2>3. QED BY <2>2 DEF Settle
<1>4. \A d \in Caller : ~Executing(d)' /\ (pc'[d] \in {"idle", "queued", "open"} => pc'[d] = pc[d])
  BY <1>1, <1>2 DEF InProgress, Executing, Settled
<1>5. QED BY <1>1, <1>2, <1>3, <1>4 DEF SerialInv, Executing

LEMMA NextKeepsSerial ==
    ASSUME OneAtATime, QueueInv, StoreTyped, SerialInv, [Next]_vars
    PROVE  SerialInv'
<1> USE DEF store
<1>0. pc \in [Caller -> {"idle", "queued", "open", "body", "undo"} \cup Settled]
  BY DEF QueueInv, CallsTyped
<1>1. ASSUME NEW c \in Caller, Call(c) PROVE SerialInv'
  <2>1. pc[c] = "idle" /\ InProgress = {} /\ depth = 0 /\ queue = <<>>
    BY <1>0, <1>1 DEF Call, OneAtATime, SerialInv, InProgress, Executing, Settled
  <2>2. /\ queue' = <<c>> /\ pc' = [pc EXCEPT ![c] = "queued"]
        /\ UNCHANGED <<depth, level, step, stack>>
    BY <1>1, <2>1 DEF Call, OneAtATime
  <2>3. InProgress' = {c}
    BY <1>0, <2>1, <2>2 DEF InProgress, Settled
  <2>4. QED BY <1>0, <2>1, <2>2, <2>3 DEF SerialInv, Executing, Begun
<1>2. ASSUME NEW c \in Caller, Dequeue(c) PROVE SerialInv'
  <2>1. c \in InProgress /\ pc[c] = "queued"
    BY <1>2 DEF Dequeue, InProgress, Settled
  <2>2. depth = 0
    BY <1>0, <2>1 DEF SerialInv, InProgress, Executing, Settled
  <2>3. /\ pc' = [pc EXCEPT ![c] = "open"] /\ level' = [level EXCEPT ![c] = 0]
        /\ UNCHANGED <<queue, step, stack>>
    BY <1>2, <2>2 DEF Dequeue, Enter
  <2>4. InProgress' = InProgress
    BY <1>0, <2>1, <2>3 DEF InProgress, Settled
  <2>5. level' = level
    BY <2>3 DEF SerialInv, QueueInv, CallsTyped
  <2>6. Executing(c)'
    BY <1>0, <2>3 DEF Executing
  <2>7. QED BY <1>0, <2>1, <2>3, <2>4, <2>5, <2>6 DEF SerialInv, Begun
<1>3. ASSUME NEW c \in Caller, Opens(c) PROVE SerialInv'
  <2>1. c \in InProgress /\ step[c] = 0 /\ level[c] = 0
    BY <1>3 DEF Opens, InProgress, Settled, SerialInv
  <2>2. UNCHANGED <<queue, depth, level, step>>
    BY <1>3 DEF Opens
  <2>3. \/ pc' = [pc EXCEPT ![c] = "undo"]
        \/ /\ pc' = [pc EXCEPT ![c] = "body"]
           /\ \E k \in Conn : Push(k, 0) /\ stack[k] = <<>>
    BY <1>3, <2>1 DEF Opens
  <2>4. InProgress' = InProgress /\ Executing(c)'
    BY <1>0, <2>1, <2>3 DEF InProgress, Executing, Settled
  <2>5. pc'[c] = "body" => \A k \in Conn : stack'[k] = Begun(c)'
    <3>1. SUFFICES ASSUME NEW k \in Conn, Push(k, 0), stack[k] = <<>>
                   PROVE  \A j \in Conn : stack'[j] = Begun(c)'
      BY <1>0, <2>3
    <3>2. stack'[k] = <<[name |-> 0, rows |-> {}]>>
      <4>1. stack'[k] = Append(<<>>, [name |-> 0, rows |-> {}])
        BY <3>1 DEF Push, StoreTyped
      <4>2. QED BY <4>1
    <3>3. {c} \X (1..step'[c]) = {}
      BY <2>1, <2>2
    <3>4. QED BY <3>2, <3>3 DEF Begun, OneAtATime
  <2>6. \A d \in Caller \ {c} : pc'[d] = pc[d] /\ pc[d] # "body"
    BY <1>0, <2>1, <2>3 DEF SerialInv, InProgress, Settled
  <2>7. pc'[c] \notin {"idle", "queued", "open"}
    BY <1>0, <2>3
  <2>8. QED BY <2>2, <2>4, <2>5, <2>6, <2>7 DEF SerialInv
<1>4. ASSUME NEW c \in Caller, Runs(c) PROVE SerialInv'
  <2>1. /\ c \in InProgress /\ pc[c] = "body" /\ step[c] \in Nat
        /\ \A k \in Conn : stack[k] = Begun(c)
    BY <1>4, BoundAssumption DEF Runs, InProgress, Settled, SerialInv, StoreTyped
  <2>2. UNCHANGED <<queue, depth, level>>
    BY <1>4 DEF Runs
  <2>3. \/ pc' = [pc EXCEPT ![c] = "undo"] /\ UNCHANGED step
        \/ /\ pc' = [pc EXCEPT ![c] = "body"] /\ step' = [step EXCEPT ![c] = @ + 1]
           /\ \E k \in Conn : Insert(k, <<c, step[c] + 1>>)
    BY <1>4 DEF Runs, OneAtATime
  <2>4. InProgress' = InProgress /\ Executing(c)'
    BY <1>0, <2>1, <2>3 DEF InProgress, Executing, Settled
  <2>5. pc'[c] = "body" => \A k \in Conn : stack'[k] = Begun(c)'
    <3>1. SUFFICES ASSUME NEW k \in Conn, Insert(k, <<c, step[c] + 1>>),
                          step' = [step EXCEPT ![c] = @ + 1]
                   PROVE  stack'[k] = Begun(c)'
      BY <1>0, <2>3 DEF OneAtATime
    <3>2. stack[k] # <<>>
      BY <2>1 DEF Begun
    <3>3. stack'[k] = AddRows(Begun(c), {<<c, step[c] + 1>>})
      BY <2>1, <3>1, <3>2 DEF Insert, StoreTyped
    <3>4. AddRows(Begun(c), {<<c, step[c] + 1>>})
             = <<[name |-> 0, rows |-> ({c} \X (1..step[c])) \cup {<<c, step[c] + 1>>}]>>
      BY DEF AddRows, Begun
    <3>5. ({c} \X (1..step[c])) \cup {<<c, step[c] + 1>>} = {c} \X (1..step'[c])
      <4>1. step'[c] = step[c] + 1
        BY <3>1 DEF StoreTyped
      <4>2. 1..(step[c] + 1) = (1..step[c]) \cup {step[c] + 1}
        BY <2>1
      <4>3. QED BY <4>1, <4>2
    <3>6. QED BY <3>3, <3>4, <3>5 DEF Begun
  <2>6. \A d \in Caller \ {c} : pc'[d] = pc[d] /\ pc[d] # "body" /\ step'[d] = step[d]
    BY <1>0, <2>1, <2>3 DEF SerialInv, InProgress, Settled, StoreTyped
  <2>7. pc'[c] \notin {"idle", "queued", "open"}
    BY <1>0, <2>3
  <2>8. QED BY <2>2, <2>4, <2>5, <2>6, <2>7 DEF SerialInv
<1>5. ASSUME NEW c \in Caller, Closes(c) PROVE SerialInv'
  <2>1. c \in InProgress /\ Executing(c)
    BY <1>5 DEF Closes, InProgress, Executing, Settled
  <2>2. CASE Settle(c, "resolved")
    BY <2>1, <2>2, SettleSerial DEF Settled
  <2>3. CASE pc' = [pc EXCEPT ![c] = "undo"] /\ UNCHANGED <<stack, queue, depth, level, step>>
    <3>1. InProgress' = InProgress /\ Executing(c)'
      BY <1>0, <2>1, <2>3 DEF InProgress, Executing, Settled
    <3>2. \A d \in Caller \ {c} : pc'[d] = pc[d]
      BY <1>0, <2>3
    <3>3. pc'[c] = "undo"
      BY <1>0, <2>3
    <3>4. QED BY <2>3, <3>1, <3>2, <3>3 DEF SerialInv, Begun
  <2>4. QED BY <1>5, <2>2, <2>3 DEF Closes
<1>6. ASSUME NEW c \in Caller, Undoes(c) \/ UndoFails(c) PROVE SerialInv'
  BY <1>6, SettleSerial DEF Undoes, UndoFails, Executing, Settled
<1>7. CASE UNCHANGED vars
  BY <1>7 DEF vars, SerialInv, InProgress, Executing, Begun
<1>8. QED BY <1>1, <1>2, <1>3, <1>4, <1>5, <1>6, <1>7 DEF Next, Works, Finished

LEMMA InitSerial == Init => SerialInv
BY DEF Init, SerialInv, InProgress, Executing

\* How a call looks to its caller.
OutcomeOf(c) == IF pc[c] \in Settled THEN pc[c] ELSE "none"

\* A step that settles nobody is no step of the store, if the disk stays.
LEMMA QuietStep ==
    ASSUME UNCHANGED disk, \A c \in Caller : OutcomeOf(c)' = OutcomeOf(c)
    PROVE  UNCHANGED Store!storeVars
BY DEF Store!storeVars, OutcomeOf

LEMMA NextIsStoreStep ==
    ASSUME OneAtATime, QueueInv, StoreTyped, SerialInv, [Next]_vars
    PROVE  [Store!Next]_(Store!storeVars)
<1> USE DEF store
<1> DEFINE outcomes == [c \in Caller |-> OutcomeOf(c)]
<1>0. pc \in [Caller -> {"idle", "queued", "open", "body", "undo"} \cup Settled]
  BY DEF QueueInv, CallsTyped
<1>1. ASSUME NEW c \in Caller, Call(c) \/ Dequeue(c) \/ Opens(c)
      PROVE  UNCHANGED Store!storeVars
  <2>1. UNCHANGED disk /\ pc[c] \notin Settled
    BY <1>1 DEF Call, Dequeue, Opens, Push, Settled
  <2>2. \E p \in {"queued", "open", "body", "undo"} : pc' = [pc EXCEPT ![c] = p]
    BY <1>1 DEF Call, Dequeue, Opens, Enter
  <2>3. \A d \in Caller : OutcomeOf(d)' = OutcomeOf(d)
    BY <1>0, <2>1, <2>2 DEF OutcomeOf, Settled
  <2>4. QED BY <2>1, <2>3, QuietStep
<1>2. ASSUME NEW c \in Caller, Runs(c) PROVE UNCHANGED Store!storeVars
  <2>1. pc[c] = "body" /\ \A k \in Conn : stack[k] # <<>>
    <3>1. pc[c] = "body" /\ \A k \in Conn : stack[k] = Begun(c)
      BY <1>2 DEF Runs, SerialInv
    <3>2. Begun(c) # <<>>
      BY DEF Begun
    <3>3. QED BY <3>1, <3>2
  <2>2. UNCHANGED disk
    BY <1>2, <2>1 DEF Runs, Insert
  <2>3. \E p \in {"body", "undo"} : pc' = [pc EXCEPT ![c] = p]
    BY <1>2 DEF Runs, OneAtATime
  <2>4. \A d \in Caller : OutcomeOf(d)' = OutcomeOf(d)
    BY <1>0, <2>1, <2>3 DEF OutcomeOf, Settled
  <2>5. QED BY <2>2, <2>4, QuietStep
<1>3. ASSUME NEW c \in Caller, Executing(c), NEW how \in Settled, Settle(c, how)
      PROVE  outcomes[c] = "none" /\ outcomes' = [outcomes EXCEPT ![c] = how]
  BY <1>0, <1>3 DEF Settle, Executing, OutcomeOf, Settled
<1>4. ASSUME NEW c \in Caller, Closes(c) PROVE [Store!Next]_(Store!storeVars)
  <2>1. Executing(c) /\ level[c] = 0 /\ step[c] = Writes
    BY <1>4 DEF Closes, Executing, SerialInv
  <2>2. CASE \E k \in Conn : CommitAll(k) /\ Settle(c, "resolved")
    <3>1. PICK k \in Conn : CommitAll(k) /\ Settle(c, "resolved")
      BY <2>2
    <3>2. stack[k] = <<[name |-> 0, rows |-> {c} \X (1..Writes)]>>
      BY <1>4, <2>1 DEF Closes, SerialInv, Begun
    <3>3. RowsIn(stack[k]) = {c} \X (1..Writes)
      BY <3>2 DEF RowsIn
    <3>4. disk' = disk \cup ({c} \X (1..Writes))
      BY <3>1, <3>3 DEF CommitAll
    <3>5. Store!Resolve(c)
      BY <1>3, <2>1, <3>1, <3>4 DEF Store!Resolve, Settled, OutcomeOf
    <3>6. QED BY <3>5 DEF Store!Next
  <2>3. CASE pc' = [pc EXCEPT ![c] = "undo"] /\ UNCHANGED disk
    <3>1. \A d \in Caller : OutcomeOf(d)' = OutcomeOf(d)
      BY <1>0, <2>1, <2>3 DEF OutcomeOf, Settled, Executing
    <3>2. QED BY <2>3, <3>1, QuietStep
  <2>4. QED BY <1>4, <2>1, <2>2, <2>3 DEF Closes
<1>5. ASSUME NEW c \in Caller, Undoes(c) \/ UndoFails(c) PROVE [Store!Next]_(Store!storeVars)
  <2>1. Executing(c) /\ level[c] = 0 /\ Settle(c, "rejected")
    BY <1>5 DEF Undoes, UndoFails, Executing, SerialInv
  <2>2. UNCHANGED disk
    BY <1>5, <2>1 DEF Undoes, UndoFails
  <2>3. Store!Reject(c)
    BY <1>3, <2>1, <2>2 DEF Store!Reject, Settled, OutcomeOf
  <2>4. QED BY <2>3 DEF Store!Next
<1>6. CASE UNCHANGED vars
  BY <1>6 DEF vars, Store!storeVars
<1>7. QED BY <1>1, <1>2, <1>4, <1>5, <1>6 DEF Next, Works, Finished

\* With calls that do not overlap, on one connection, withTransaction is the store its
\* callers expect, for any number of calls, of statements and of failures: a call takes
\* effect with all its rows when it resolves, and not at all when it rejects.
THEOREM SerialQueueIsAtomic ==
    ASSUME OneAtATime
    PROVE  Spec => ImplementsAtomicStore
<1>1. Init => Store!Init
  BY DEF Init, Store!Init, Settled
<1>2. Init => QueueInv /\ StoreTyped
  BY InitTyped
<1>3. QueueInv /\ StoreTyped /\ SerialInv /\ [Next]_vars => (QueueInv /\ StoreTyped /\ SerialInv)'
  BY NextKeepsQueue, NextKeepsStore, NextKeepsSerial
<1>4. QueueInv /\ StoreTyped /\ SerialInv /\ [Next]_vars => [Store!Next]_(Store!storeVars)
  BY NextIsStoreStep
<1>5. QED BY <1>1, <1>2, <1>3, <1>4, InitSerial, PTL DEF Spec, ImplementsAtomicStore, Store!Spec

\* Every call takes effect as a whole when it resolves, and not at all otherwise.
AllOrNothing ==
    \A c \in Caller :
        IF pc[c] = "resolved" THEN {c} \X (1..Writes) \subseteq disk
        ELSE \A n \in 1..Writes : <<c, n>> \notin disk

\* The same of the store.
StoreWhole ==
    \A c \in Caller :
        IF OutcomeOf(c) = "resolved" THEN {c} \X (1..Writes) \subseteq disk
        ELSE \A n \in 1..Writes : <<c, n>> \notin disk

LEMMA StoreStepWhole ==
    StoreWhole /\ [Store!Next]_(Store!storeVars) => StoreWhole'
<1> DEFINE outcomes == [c \in Caller |-> OutcomeOf(c)]
<1> SUFFICES ASSUME StoreWhole, [Store!Next]_(Store!storeVars) PROVE StoreWhole'
  OBVIOUS
<1>1. ASSUME NEW c \in Caller, Store!Resolve(c) PROVE StoreWhole'
  <2>1. outcomes' = [outcomes EXCEPT ![c] = "resolved"] /\ disk' = disk \cup ({c} \X (1..Writes))
    BY <1>1 DEF Store!Resolve, OutcomeOf
  <2>2. OutcomeOf(c)' = "resolved" /\ \A d \in Caller \ {c} : OutcomeOf(d)' = OutcomeOf(d)
    BY <2>1
  <2>3. QED BY <2>1, <2>2 DEF StoreWhole
<1>2. ASSUME NEW c \in Caller, Store!Reject(c) PROVE StoreWhole'
  <2>1. /\ outcomes' = [outcomes EXCEPT ![c] = "rejected"] /\ disk' = disk
        /\ outcomes[c] = "none"
    BY <1>2 DEF Store!Reject, OutcomeOf
  <2>2. /\ OutcomeOf(c) = "none" /\ OutcomeOf(c)' = "rejected"
        /\ \A d \in Caller \ {c} : OutcomeOf(d)' = OutcomeOf(d)
    BY <2>1
  <2>3. QED BY <2>1, <2>2 DEF StoreWhole
<1>3. CASE UNCHANGED Store!storeVars
  <2>1. outcomes' = outcomes /\ disk' = disk
    BY <1>3 DEF Store!storeVars, OutcomeOf
  <2>2. \A d \in Caller : OutcomeOf(d)' = OutcomeOf(d)
    BY <2>1
  <2>3. QED BY <2>1, <2>2 DEF StoreWhole
<1>4. QED BY <1>1, <1>2, <1>3 DEF Store!Next

\* What the callers of withTransaction count on when one of its statements fails: with
\* calls that do not overlap, on one connection, the rows of a call are all durable
\* when it resolved and none is before that, or if it rejected.
THEOREM SerialAllOrNothing ==
    ASSUME OneAtATime
    PROVE  Spec => []AllOrNothing
<1>1. Init => StoreWhole
  BY DEF Init, StoreWhole, OutcomeOf, Settled
<1>2. Init => QueueInv /\ StoreTyped
  BY InitTyped
<1>3. QueueInv /\ StoreTyped /\ SerialInv /\ [Next]_vars => (QueueInv /\ StoreTyped /\ SerialInv)'
  BY NextKeepsQueue, NextKeepsStore, NextKeepsSerial
<1>4. QueueInv /\ StoreTyped /\ SerialInv /\ StoreWhole /\ [Next]_vars => StoreWhole'
  BY NextIsStoreStep, StoreStepWhole
<1>5. StoreWhole => AllOrNothing
  BY DEF StoreWhole, AllOrNothing, OutcomeOf, Settled
<1>6. QED BY <1>1, <1>2, <1>3, <1>4, <1>5, InitSerial, PTL DEF Spec

\* With calls that do not overlap the depth of withTransaction returns to 0, so that
\* every call is queued, whatever statement failed.
THEOREM SerialDepthReturns ==
    ASSUME OneAtATime
    PROVE  Spec => []DepthRests
<1>1. Init => QueueInv /\ StoreTyped
  BY InitTyped
<1>2. QueueInv /\ StoreTyped /\ SerialInv /\ [Next]_vars => (QueueInv /\ StoreTyped /\ SerialInv)'
  BY NextKeepsQueue, NextKeepsStore, NextKeepsSerial
<1>3. SerialInv => DepthRests
  BY DEF SerialInv, DepthRests, InProgress, Executing, Settled
<1>4. QED BY <1>1, <1>2, <1>3, InitSerial, PTL DEF Spec
=============================================================================
