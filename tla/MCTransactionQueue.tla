------------------------- MODULE MCTransactionQueue -------------------------
(***************************************************************************)
(* Two instances of TransactionQueue for TLC: an initial state chooses one *)
(* and it is never left. The constants of the module are those of calls    *)
(* that overlap, over a pool of connections.                               *)
(***************************************************************************)
EXTENDS TransactionQueue

CONSTANTS f1, f2, f3  \* flows

VARIABLE part  \* "overlap" or "serial"

\* Calls one after the other, on one connection.
Serial == INSTANCE TransactionQueue
            WITH Direct <- {}, Conn <- {1}, Overlap <- FALSE, MaxFaults <- 3

partVars == <<vars, part>>

EitherInit ==
    \/ part = "overlap" /\ Init
    \/ part = "serial" /\ Serial!Init

EitherNext ==
    /\ UNCHANGED part
    /\ \/ part = "overlap" /\ Next
       \/ part = "serial" /\ Serial!Next

EitherWorks(c) ==
    /\ UNCHANGED part
    /\ \/ part = "overlap" /\ Works(c)
       \/ part = "serial" /\ Serial!Works(c)

EitherSpec ==
    EitherInit /\ [][EitherNext]_partVars /\ \A c \in Caller : WF_partVars(EitherWorks(c))

SerialStore == INSTANCE AtomicStore
    WITH disk <- IF part = "serial" THEN disk ELSE {},
         outcome <- [c \in Caller |-> IF part = "serial" /\ pc[c] \in Settled THEN pc[c] ELSE "none"]

\* ImplementsAtomicStore of TransactionQueue: with calls that do not overlap, on one
\* connection, withTransaction is the atomic store its callers expect, whatever fails.
SerialCallsAreAtomic == SerialStore!Spec
=============================================================================
