--------------------------- MODULE MCShownAccount ---------------------------
(***************************************************************************)
(* Three instances of ShownAccount for TLC: an initial state chooses one   *)
(* and it is never left. The constants of the module are those of two      *)
(* switches in a row between three accounts; in the others one account is  *)
(* not used.                                                               *)
(***************************************************************************)
EXTENDS ShownAccount

CONSTANTS a1, a2, a3

VARIABLE part  \* "moves", "opened" or "works"

\* The first check of an opened wallet, and one switch.
Opened == INSTANCE ShownAccount WITH MaxAsks <- 1

\* One switch, one operation or refresh of the user, and room for one snapshot.
Works == INSTANCE ShownAccount WITH MaxAsks <- 1, MaxWorks <- 1, SnapshotLimit <- 1

partVars == <<vars, part>>

EitherInit ==
    /\ part \in {"moves", "opened", "works"} /\ Init
    /\ part = "opened" <=> loads # {}

EitherNext ==
    /\ UNCHANGED part
    /\ \/ part = "moves" /\ Next
       \/ part = "opened" /\ Opened!Next /\ op'.to # a3
       \/ part = "works" /\ Works!Next /\ op'.to # a3

Either(A, B, C) ==
    /\ UNCHANGED part
    /\ \/ part = "moves" /\ A
       \/ part = "opened" /\ B
       \/ part = "works" /\ C

\* The fairness of FairSpec.
EitherSpec ==
    /\ EitherInit /\ [][EitherNext]_partVars
    /\ WF_partVars(Either(Render, Opened!Render, Works!Render))
    /\ WF_partVars(Either(Switching, Opened!Switching, Works!Switching))
    /\ WF_partVars(Either(Loading, Opened!Loading, Works!Loading))
    /\ WF_partVars(Either(Detecting, Opened!Detecting, Works!Detecting))

\* One slice of each kind: set by totals, by a merge, by a reconciliation, and by the
\* answers of the network alone.
OneOfAKind == {{"balance"}, {"history"}, {"locks"}, {"utxos"}}
=============================================================================
