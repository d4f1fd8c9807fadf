----------------------------- MODULE MCLedgerMix -----------------------------
(***************************************************************************)
(* Two instances of WalletLedger that differ in their constants, checked   *)
(* in one run: an initial state chooses one, and it is never left.         *)
(***************************************************************************)
EXTENDS Naturals, Sequences, FiniteSets

CONSTANTS a1, c1, c2, t1, NoTx

VARIABLES
    part,       \* the instance: "crash" or "fault"
    status, pendingBy, spendable, frozen, txStatus, locks, age, pc, have, inputs,
    syncPc, snap, seen, line, owns, airborne, net, indexed, crashes

AllOfOne(S) == [x \in S |-> a1]

\* One send of two coins, with a crash, a slow indexer and lost answers.
Crashes == INSTANCE WalletLedger WITH
    Account <- {a1}, Coin <- {c1, c2}, Tx <- {t1}, NoChange <- {},
    AcctOf <- AllOfOne({c1, c2, t1}), MaxCrashes <- 1,
    Kind <- [t \in {t1} |-> "send"], Adversity <- {"lag", "timeout", "drop"}

\* One lock of a coin; statements fail and broadcasts outlast the recovery.
Faults == INSTANCE WalletLedger WITH
    Account <- {a1}, Coin <- {c1}, Tx <- {t1}, NoChange <- {},
    AcctOf <- AllOfOne({c1, t1}), MaxCrashes <- 0,
    Kind <- [t \in {t1} |-> "lock"], Adversity <- {"fault", "sleep", "drop"}

vars == <<part, Crashes!vars>>

Init ==
    \/ part = "crash" /\ Crashes!Init
    \/ part = "fault" /\ Faults!Init

Next ==
    /\ UNCHANGED part
    /\ \/ part = "crash" /\ Crashes!Next
       \/ part = "fault" /\ Faults!Next

\* The fairness of WalletLedger, for the instance of the run.
Either(A, B) ==
    /\ UNCHANGED part
    /\ \/ part = "crash" /\ A
       \/ part = "fault" /\ B

Fairness ==
    /\ WF_vars(Either(Crashes!Works(t1), Faults!Works(t1)))
    /\ WF_vars(Either(Crashes!Decided(t1), Faults!Decided(t1)))
    /\ WF_vars(Either(Crashes!IndexerLearns(t1), Faults!IndexerLearns(t1)))
    /\ WF_vars(Either(Crashes!Mined(t1) \/ Crashes!Dropped(t1),
                      Faults!Mined(t1) \/ Faults!Dropped(t1)))
    /\ WF_vars(Either(Crashes!TimePasses(t1), Faults!TimePasses(t1)))
    /\ WF_vars(Either(Crashes!SyncGoesOn(a1), Faults!SyncGoesOn(a1)))
    /\ SF_vars(Either(Crashes!RecoverPending(a1), Faults!Recovers(a1)))
    /\ SF_vars(Either(Crashes!FetchListing(a1), Faults!FetchListing(a1)))
    /\ SF_vars(Either(Crashes!SyncHistory(a1), Faults!SyncHistory(a1)))
    /\ SF_vars(Either(Crashes!ResolvePending(a1), Faults!ResolvePending(a1)))
    /\ SF_vars(Either(Crashes!PurgePhantoms(a1), Faults!PurgePhantoms(a1)))
    /\ SF_vars(Either(FALSE, \E o \in {c1, t1} : Faults!Adds(a1, o)))
    /\ SF_vars(Either(FALSE, \E o \in {c1, t1} : Faults!WritesOff(a1, o)))

FairSpec == Init /\ [][Next]_vars /\ Fairness

\* TableConverges of WalletLedger: whatever crashed, timed out or was dropped, and
\* whatever statement failed for a time, the wallet comes to offer exactly the
\* outputs it owns (syncWallet).
TableConverges ==
    <>[](\/ part = "crash" /\ Crashes!OffersOwned
         \/ part = "fault" /\ Faults!OffersOwned)

Marked(o) == o \in DOMAIN status /\ status[o] = "pending"
Undecided(t) == txStatus[t] = "pending"

\* NothingPendingForEver of WalletLedger: no output stays marked, and no transaction
\* stays pending, for ever (recovery of syncWallet, resolvePendingTransactions).
NothingPendingForEver ==
    /\ \A o \in {c1, c2, t1} : Marked(o) ~> ~Marked(o)
    /\ Undecided(t1) ~> ~Undecided(t1)
=============================================================================
