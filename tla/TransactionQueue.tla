-------------------------- MODULE TransactionQueue --------------------------
(***************************************************************************)
(* withTransaction: transactions over the one database handle of the       *)
(* application (infrastructure/database/connection.ts).                    *)
(*                                                                         *)
(* A call made while transactionDepth is 0 waits in a queue and issues     *)
(* BEGIN and COMMIT; a call made while it is not 0 is taken for a nested   *)
(* one and issues SAVEPOINT and RELEASE at once.  The depth is a global,   *)
(* read when withTransaction is called: whether the caller really runs     *)
(* inside the transaction in progress is not known.  Each statement runs   *)
(* on one of the connections of the pool; SQLite keeps a stack of          *)
(* savepoints on each.                                                     *)
(***************************************************************************)
EXTENDS Naturals, Sequences, FiniteSets

CONSTANTS Caller,   \* concurrent flows, each of which calls once
          Direct,   \* those whose writes are not in a withTransaction
          Conn,     \* connections of the pool that are in use
          Writes,   \* statements of the body of a call
          Overlap,  \* whether a flow may call while another is in progress
          MaxFaults \* bound: statements that fail

ASSUME CallerAssumption == Direct \subseteq Caller /\ Conn # {}
ASSUME BoundAssumption == Writes \in Nat \ {0} /\ MaxFaults \in Nat /\ Overlap \in BOOLEAN

VARIABLES
    queue,   \* Seq(Caller): the handlers chained on transactionQueue
    inside,  \* isInsideQueue
    depth,   \* transactionDepth
    pc,      \* [Caller -> phase]
    level,   \* [Caller -> Nat]: the local depth of executeTransaction
    step,    \* [Caller -> 0..Writes]: statements of its body that ran
    stack,   \* [Conn -> Seq([name : Nat, rows : SUBSET Row])]: open savepoints,
             \* 0 is the one of BEGIN; a connection in autocommit has none
    disk,    \* rows that are durable
    faults

vars == <<queue, inside, depth, pc, level, step, stack, disk, faults>>
store == <<stack, disk>>
calls == <<queue, inside, depth, pc, level, step>>

Row == Caller \X (1..Writes)
Settled == {"resolved", "rejected"}
Savepoint == [name : Nat, rows : SUBSET Row]

TypeOK ==
    /\ queue \in Seq(Caller) /\ inside \in BOOLEAN /\ depth \in Nat
    /\ pc \in [Caller -> {"idle", "queued", "open", "body", "undo"} \cup Settled]
    /\ level \in [Caller -> Nat] /\ step \in [Caller -> 0..Writes]
    /\ stack \in [Conn -> Seq(Savepoint)] /\ disk \subseteq Row
    /\ faults \in 0..MaxFaults

Init ==
    /\ queue = <<>> /\ inside = FALSE /\ depth = 0
    /\ pc = [c \in Caller |-> "idle"]
    /\ level = [c \in Caller |-> 0] /\ step = [c \in Caller |-> 0]
    /\ stack = [k \in Conn |-> <<>>] /\ disk = {}
    /\ faults = 0

-----------------------------------------------------------------------------
(* The statements, on connection k.                                         *)
RowsIn(s) == UNION {s[i].rows : i \in 1..Len(s)}

\* The positions of savepoint sp_d, and the last one, which statements that name it mean.
Named(k, d) == {i \in 1..Len(stack[k]) : stack[k][i].name = d}
LastNamed(k, d) == {i \in Named(k, d) : \A j \in Named(k, d) : j <= i}

\* Another connection holds the write lock (SQLITE_BUSY after busy_timeout).
Busy(k) == \E j \in Conn \ {k} : RowsIn(stack[j]) # {}

Push(k, d) == /\ stack' = [stack EXCEPT ![k] = Append(@, [name |-> d, rows |-> {}])]
              /\ UNCHANGED disk

\* Rows are written in the innermost savepoint, or at once in autocommit.
AddRows(s, R) == [s EXCEPT ![Len(s)].rows = @ \cup R]

Insert(k, row) ==
    IF stack[k] = <<>> THEN disk' = disk \cup {row} /\ UNCHANGED stack
                       ELSE stack' = [stack EXCEPT ![k] = AddRows(@, {row})] /\ UNCHANGED disk

CommitAll(k) == /\ disk' = disk \cup RowsIn(stack[k])
                /\ stack' = [stack EXCEPT ![k] = <<>>]

\* RELEASE merges the savepoint and those above it into the one below; the
\* outermost savepoint commits.
ReleaseTo(k, d) ==
    \E i \in LastNamed(k, d) :
        LET above == RowsIn(SubSeq(stack[k], i, Len(stack[k])))
        IN  IF i = 1 THEN CommitAll(k)
            ELSE /\ stack' = [stack EXCEPT ![k] = AddRows(SubSeq(@, 1, i - 1), above)]
                 /\ UNCHANGED disk

\* ROLLBACK TO empties the savepoint and leaves it open.
RollBackTo(k, d) ==
    /\ \E i \in LastNamed(k, d) :
          stack' = [stack EXCEPT ![k] = Append(SubSeq(@, 1, i - 1), [name |-> d, rows |-> {}])]
    /\ UNCHANGED disk

\* A statement that could run fails for a reason of its own.
Faulty == faults < MaxFaults /\ faults' = faults + 1

-----------------------------------------------------------------------------
InProgress == {c \in Caller : pc[c] \notin {"idle"} \cup Settled}

\* executeTransaction down to its first await.
Enter(c) ==
    /\ level' = [level EXCEPT ![c] = depth]
    /\ depth' = depth + 1
    /\ pc' = [pc EXCEPT ![c] = "open"]

Call(c) ==
    /\ pc[c] = "idle"
    /\ Overlap \/ InProgress = {}
    /\ IF c \in Direct
       THEN pc' = [pc EXCEPT ![c] = "body"] /\ UNCHANGED <<queue, depth, level>>
       ELSE IF depth = 0
       THEN /\ queue' = Append(queue, c)
            /\ pc' = [pc EXCEPT ![c] = "queued"]
            /\ UNCHANGED <<depth, level>>
       ELSE Enter(c) /\ UNCHANGED queue
    /\ UNCHANGED <<inside, step, store, faults>>

\* MUTANT of Dequeue: the handler is not chained behind the one before it.
DequeueAny(c) ==
    /\ pc[c] = "queued"
    /\ inside' = TRUE
    /\ Enter(c)
    /\ UNCHANGED <<queue, step, store, faults>>

\* The handler of the queue: the one before it is done.
Dequeue(c) ==
    /\ pc[c] = "queued" /\ queue # <<>> /\ Head(queue) = c
    /\ inside' = TRUE
    /\ Enter(c)
    /\ UNCHANGED <<queue, step, store, faults>>

\* MUTANT of Opens: the transaction is not begun.
OpensNothing(c) ==
    /\ pc[c] = "open"
    /\ pc' = [pc EXCEPT ![c] = "body"]
    /\ UNCHANGED <<queue, inside, depth, level, step, store, faults>>

\* BEGIN, which fails inside a transaction, or SAVEPOINT sp_<level>.
Opens(c) ==
    /\ pc[c] = "open"
    /\ \E k \in Conn :
          LET fails == level[c] = 0 /\ stack[k] # <<>>
          IN  \/ ~fails /\ Push(k, level[c]) /\ pc' = [pc EXCEPT ![c] = "body"]
                 /\ UNCHANGED faults
              \/ fails /\ pc' = [pc EXCEPT ![c] = "undo"] /\ UNCHANGED <<store, faults>>
              \/ Faulty /\ pc' = [pc EXCEPT ![c] = "undo"] /\ UNCHANGED store
    /\ UNCHANGED <<queue, inside, depth, level, step>>

\* A statement of the body.
Runs(c) ==
    /\ pc[c] = "body" /\ step[c] < Writes
    /\ \E k \in Conn :
          \/ /\ ~Busy(k) /\ Insert(k, <<c, step[c] + 1>>)
             /\ step' = [step EXCEPT ![c] = @ + 1]
             /\ pc' = [pc EXCEPT ![c] = IF c \in Direct /\ step'[c] = Writes
                                        THEN "resolved" ELSE "body"]
             /\ UNCHANGED faults
          \/ /\ (Busy(k) /\ UNCHANGED faults) \/ Faulty
             /\ pc' = [pc EXCEPT ![c] = IF c \in Direct THEN "rejected" ELSE "undo"]
             /\ UNCHANGED <<store, step>>
    /\ UNCHANGED <<queue, inside, depth, level>>

\* MUTANT of Settle: the slot of the queue is released only by a call that resolves.
SettleKeepsSlot(c, how) ==
    LET inSlot == queue # <<>> /\ Head(queue) = c /\ how = "resolved"
    IN  /\ depth' = level[c]
        /\ pc' = [pc EXCEPT ![c] = how]
        /\ queue' = IF inSlot THEN Tail(queue) ELSE queue
        /\ inside' = IF inSlot THEN FALSE ELSE inside
        /\ UNCHANGED <<level, step>>

\* The finally blocks: the depth is what it was when this call entered, and the
\* handler of a queued call lets the next one run.
Settle(c, how) ==
    LET inSlot == queue # <<>> /\ Head(queue) = c
    IN  /\ depth' = level[c]
        /\ pc' = [pc EXCEPT ![c] = how]
        /\ queue' = IF inSlot THEN Tail(queue) ELSE queue
        /\ inside' = IF inSlot THEN FALSE ELSE inside
        /\ UNCHANGED <<level, step>>

\* COMMIT, which fails outside a transaction, or RELEASE SAVEPOINT, which fails if
\* there is none of that name.
Closes(c) ==
    /\ pc[c] = "body" /\ step[c] = Writes
    /\ \E k \in Conn :
          LET fails == IF level[c] = 0 THEN stack[k] = <<>> ELSE Named(k, level[c]) = {}
          IN  \/ /\ ~fails /\ UNCHANGED faults
                 /\ IF level[c] = 0 THEN CommitAll(k) ELSE ReleaseTo(k, level[c])
                 /\ Settle(c, "resolved")
              \/ /\ (fails /\ UNCHANGED faults) \/ Faulty
                 /\ pc' = [pc EXCEPT ![c] = "undo"]
                 /\ UNCHANGED <<store, queue, inside, depth, level, step>>

\* The catch of executeTransaction.  drainDanglingTransactions issues ROLLBACKs
\* that reach some connections of the pool; a savepoint is rolled back if it is there.
Undoes(c) ==
    /\ pc[c] = "undo"
    /\ IF level[c] = 0
       THEN /\ \E K \in SUBSET Conn \ {{}} :
                  stack' = [k \in Conn |-> IF k \in K THEN <<>> ELSE stack[k]]
            /\ UNCHANGED disk
       ELSE \E k \in Conn : IF Named(k, level[c]) = {} THEN UNCHANGED store
                            ELSE RollBackTo(k, level[c])
    /\ Settle(c, "rejected")
    /\ UNCHANGED faults

\* A ROLLBACK fails too; the failure is only logged.
UndoFails(c) ==
    /\ pc[c] = "undo"
    /\ Faulty
    /\ Settle(c, "rejected")
    /\ UNCHANGED store

\* Every flow has made its call: only the model stops here.
Finished == InProgress = {} /\ (\A c \in Caller : pc[c] # "idle") /\ UNCHANGED vars

Works(c) == Dequeue(c) \/ Opens(c) \/ Runs(c) \/ Closes(c) \/ Undoes(c) \/ UndoFails(c)

Next == (\E c \in Caller : Call(c) \/ Works(c)) \/ Finished

Spec == Init /\ [][Next]_vars

(* A statement is answered, and a promise that is settled resumes its       *)
(* waiter.                                                                  *)
FairSpec == Spec /\ \A c \in Caller : WF_vars(Works(c))

-----------------------------------------------------------------------------
(* "Transaction queue - serializes all transactions": a call that was put   *)
(* in the queue issues nothing before every call in front of it has         *)
(* settled, whatever depth accidental nesting leaves behind meanwhile.      *)
QueueSerializes == \A i \in 2..Len(queue) : pc[queue[i]] = "queued"

(* A failed call does not wedge the queue: every call of withTransaction    *)
(* settles, whatever failed in it or before it.                             *)
EveryCallSettles == \A c \in Caller : pc[c] = "queued" ~> pc[c] \in Settled

(* "serializes all transactions to prevent concurrent corruption": what a   *)
(* call that resolved wrote is durable, or in a transaction still open.     *)
ResolvedIsNotLost ==
    \A c \in Caller : pc[c] = "resolved" =>
        {c} \X (1..Writes) \subseteq disk \cup UNION {RowsIn(stack[k]) : k \in Conn}

(* "Transaction nesting depth (0 = no active transaction)": the depth is 0  *)
(* again when nobody is in a transaction. With calls that overlap it may    *)
(* stay 1, and no call is queued from then on.                              *)
DepthRests == InProgress = {} => depth = 0

Store == INSTANCE AtomicStore
           WITH outcome <- [c \in Caller |-> IF pc[c] \in Settled THEN pc[c] ELSE "none"]

(* On one connection and with calls that do not overlap, the queue is the   *)
(* atomic store its callers expect, even if statements and rollbacks fail.  *)
ImplementsAtomicStore == Store!Spec
=============================================================================
