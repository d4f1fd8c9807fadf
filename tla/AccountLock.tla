---------------------------- MODULE AccountLock ----------------------------
(***************************************************************************)
(* What the sync lock of src/src/services/cancellation.ts promises its     *)
(* callers: one lock per account, at most one owner of each, handed over   *)
(* in the order of the requests, and never owned by an operation that did  *)
(* not ask for it.  SyncMutex is the promise-chain implementation.         *)
(***************************************************************************)
EXTENDS Naturals, Sequences

CONSTANTS Account,   \* account ids: each has a lock of its own
          Op         \* the operations (syncs, sends) that take a lock

VARIABLES line       \* [Account -> Seq(Op)]: the owner, if any, then the waiters
VARIABLES owns       \* the operations that were told they own their lock

lockVars == <<line, owns>>

Waits(op) == \E a \in Account : \E i \in 1..Len(line[a]) : line[a][i] = op

Init == /\ line = [a \in Account |-> <<>>]
        /\ owns = {}

Request(op, a) ==
    /\ ~Waits(op)
    /\ line' = [line EXCEPT ![a] = Append(@, op)]
    /\ UNCHANGED owns

Grant(op, a) ==
    /\ line[a] # <<>>
    /\ op = Head(line[a])
    /\ op \notin owns
    /\ owns' = owns \cup {op}
    /\ UNCHANGED line

Release(op, a) ==
    /\ line[a] # <<>>
    /\ op = Head(line[a])
    /\ op \in owns
    /\ line' = [line EXCEPT ![a] = Tail(@)]
    /\ owns' = owns \ {op}

Next == \E op \in Op, a \in Account : Request(op, a) \/ Grant(op, a) \/ Release(op, a)

Spec == Init /\ [][Next]_lockVars
=============================================================================
