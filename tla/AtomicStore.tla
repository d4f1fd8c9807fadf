---------------------------- MODULE AtomicStore ----------------------------
(***************************************************************************)
(* What the callers of withTransaction expect of it                        *)
(* (src/src/infrastructure/database/connection.ts): a call takes effect    *)
(* with all its rows at once when it resolves, and not at all when it      *)
(* rejects.  TransactionQueue is what they get.                            *)
(***************************************************************************)
EXTENDS Naturals

CONSTANTS Caller,  \* calls of withTransaction
          Writes   \* rows each of them writes

VARIABLES disk,    \* the rows that are durable
          outcome  \* [Caller -> {"none", "resolved", "rejected"}]

storeVars == <<disk, outcome>>

Init == disk = {} /\ outcome = [c \in Caller |-> "none"]

Resolve(c) ==
    /\ outcome[c] = "none"
    /\ outcome' = [outcome EXCEPT ![c] = "resolved"]
    /\ disk' = disk \cup ({c} \X (1..Writes))

Reject(c) ==
    /\ outcome[c] = "none"
    /\ outcome' = [outcome EXCEPT ![c] = "rejected"]
    /\ UNCHANGED disk

Next == \E c \in Caller : Resolve(c) \/ Reject(c)

Spec == Init /\ [][Next]_storeVars
=============================================================================
