---------------------------- MODULE WalletLedger ----------------------------
(***************************************************************************)
(* The UTXO table of the wallet, the operations that spend from it and the *)
(* sync that reconciles it with the chain.                                 *)
(*                                                                         *)
(* A transaction t is also the process that sends it (sendBSV, lockBSV...) *)
(* and the name of its change output.  An account a is also the process    *)
(* that syncs it (syncWallet).  Both take the lock of AccountLock, which   *)
(* SyncMutex implements; lockBSV takes none.  The table survives a crash,  *)
(* the processes and the lock do not.  What the wallet knows of the chain  *)
(* comes from an indexer that may lag behind the network.                  *)
(***************************************************************************)
EXTENDS Naturals, Sequences, FiniteSets

CONSTANTS Account,
          Coin,       \* outputs the wallet received: in the table from the start
          Tx,         \* transactions the wallet may send, each once
          NoChange,   \* the transactions that leave no change
          AcctOf,     \* the account of a coin, and of a transaction
          Kind,       \* [Tx -> {"send", "live", "lock"}]
          NoTx,
          Adversity,  \* what may go wrong, a subset of Adversities
          MaxCrashes  \* bound: restarts of the application

Adversities == {"lag",      \* the indexer learns of a transaction later
                "timeout",  \* an accepted broadcast is reported as failed
                "fault",    \* a database statement fails
                "drop",     \* the network forgets an unmined transaction
                "freeze",   \* the user freezes outputs
                "sleep"}    \* a broadcast lasts more than five minutes

Outpoint == Coin \cup (Tx \ NoChange)
Worker == Tx \cup Account

ASSUME NamesAssumption == /\ Coin \cap Tx = {} /\ Account \cap (Coin \cup Tx) = {}
                          /\ NoTx \notin Tx /\ NoChange \subseteq Tx
ASSUME AcctAssumption == AcctOf \in [Coin \cup Tx -> Account]
ASSUME KindAssumption == Kind \in [Tx -> {"send", "live", "lock"}]
ASSUME BoundAssumption == Adversity \subseteq Adversities /\ MaxCrashes \in Nat

VARIABLES
    status,     \* [Outpoint -> {"absent", "unspent", "pending", "spent"}]: spending_status
    pendingBy,  \* [Outpoint -> Tx \cup {NoTx}]: pending_spending_txid
    spendable,  \* outpoints whose column spendable is 1
    frozen,     \* outpoints whose column frozen is 1
    txStatus,   \* [Tx -> {"none", "pending", "confirmed", "failed"}]: the transactions table
    locks,      \* lockBSVs with a row in the table locks that getLocks returns
    age,        \* [Tx -> 0..2]: its marks and its record are fresh, > 5 min, > 30 min old
    pc,         \* [Tx -> phase of the operation]
    have,       \* [Tx -> SUBSET Outpoint]: the candidates the caller read
    inputs,     \* [Tx -> SUBSET Outpoint]: what the transaction spends
    syncPc,     \* [Account -> phase of the sync]
    snap,       \* [Account -> SUBSET Outpoint]: wocUtxos, the indexer's listing
    seen,       \* [Account -> SUBSET Outpoint]: existingMap, read after the listing
    line, owns, \* the sync locks (AccountLock)
    airborne,   \* broadcast, and not yet decided on by the network
    net,        \* [Tx -> {"none", "mempool", "mined", "dropped"}]
    indexed,    \* transactions the indexer knows
    crashes

table == <<status, pendingBy, spendable, frozen>>
records == <<txStatus, locks, age>>
sender == <<pc, have, inputs>>
syncer == <<syncPc, snap, seen>>
lock == <<line, owns>>
network == <<airborne, net, indexed>>
vars == <<table, records, sender, syncer, lock, network, crashes>>

Lock == INSTANCE AccountLock WITH Op <- Worker

Phase == {"idle", "queued", "ready", "marked", "sent", "accepted", "refused", "recorded", "over"}
SyncPhase == {"idle", "queued", "recover", "fetch", "read", "apply", "history", "resolve",
              "purge"}

TypeOK ==
    /\ status \in [Outpoint -> {"absent", "unspent", "pending", "spent"}]
    /\ pendingBy \in [Outpoint -> Tx \cup {NoTx}]
    /\ spendable \subseteq Outpoint /\ frozen \subseteq Outpoint
    /\ txStatus \in [Tx -> {"none", "pending", "confirmed", "failed"}]
    /\ locks \subseteq Tx
    /\ age \in [Tx -> 0..2]
    /\ pc \in [Tx -> Phase]
    /\ have \in [Tx -> SUBSET Outpoint] /\ inputs \in [Tx -> SUBSET Outpoint]
    /\ syncPc \in [Account -> SyncPhase]
    /\ snap \in [Account -> SUBSET Outpoint] /\ seen \in [Account -> SUBSET Outpoint]
    /\ line \in [Account -> Seq(Worker)] /\ owns \subseteq Worker
    /\ airborne \subseteq Tx
    /\ net \in [Tx -> {"none", "mempool", "mined", "dropped"}]
    /\ indexed \subseteq Tx
    /\ crashes \in 0..MaxCrashes

Init ==
    /\ status = [o \in Outpoint |-> IF o \in Coin THEN "unspent" ELSE "absent"]
    /\ pendingBy = [o \in Outpoint |-> NoTx]
    /\ spendable = Coin /\ frozen = {}
    /\ txStatus = [t \in Tx |-> "none"] /\ locks = {} /\ age = [t \in Tx |-> 0]
    /\ pc = [t \in Tx |-> "idle"]
    /\ have = [t \in Tx |-> {}] /\ inputs = [t \in Tx |-> {}]
    /\ syncPc = [a \in Account |-> "idle"]
    /\ snap = [a \in Account |-> {}] /\ seen = [a \in Account |-> {}]
    /\ Lock!Init
    /\ airborne = {} /\ net = [t \in Tx |-> "none"] /\ indexed = {}
    /\ crashes = 0

-----------------------------------------------------------------------------
(* The chain, as the network and as the indexer see it.                     *)
OnNet == {t \in Tx : net[t] \in {"mempool", "mined"}}

\* The outputs that exist and are unspent once the transactions of T are known.
UnspentAfter(T) == {o \in (Coin \cup T) \cap Outpoint : \A t \in T : o \notin inputs[t]}

\* fetchUtxosFromWoc / getUTXOs(address): the indexer's listing for account a.
Listing(a) == {o \in UnspentAfter(indexed) : AcctOf[o] = a}

(* The table.                                                               *)
\* getSpendableUTXOs
SpendableRows(a) ==
    {o \in spendable : AcctOf[o] = a /\ status[o] = "unspent"}

\* getPendingTransactionTxids
PendingTxids == {t \in Tx : txStatus[t] = "pending"}

\* getSpendableUtxosFromDatabase: never an output of a pending transaction.
Candidates(a) ==
    SpendableRows(a) \ PendingTxids

\* UPDATE ... SET spending_status = s WHERE the row is one of S.
SetStatus(S, s, t) ==
    LET rows == {o \in S : status[o] # "absent"}
    IN  /\ status' = [o \in Outpoint |-> IF o \in rows THEN s ELSE status[o]]
        /\ pendingBy' = [o \in Outpoint |-> IF o \in rows THEN t ELSE pendingBy[o]]

\* markUtxosPendingSpend: the rows that are unspent; the others are passed over.
MarkPending(S, t) == SetStatus({o \in S : status[o] = "unspent"}, "pending", t)

\* MUTANT of RollbackPending: rows that another transaction has spent are reset too.
RollbackAnyRow(S) == SetStatus(S, "unspent", NoTx)

\* rollbackPendingSpend: every row of S that is pending, whoever marked it.
RollbackPending(S) == SetStatus({o \in S : status[o] = "pending"}, "unspent", NoTx)

\* A statement may fail; where the caller only logs it, the operation goes on.
Fails == "fault" \in Adversity

\* confirmUtxosSpent of rows S, then addUTXO of outputs C: a row that is there is
\* reset to unspent, one that is not is inserted.
SpendAndAdd(S, C) ==
    LET spent == {o \in S : status[o] # "absent"}
    IN  /\ status' = [o \in Outpoint |-> IF o \in C THEN "unspent"
                                         ELSE IF o \in spent THEN "spent" ELSE status[o]]
        /\ pendingBy' = [o \in Outpoint |-> IF o \in C \cup spent THEN NoTx
                                            ELSE pendingBy[o]]
        /\ spendable' = spendable \cup C

SpendAndAddChange(t) == SpendAndAdd(inputs[t], {t} \cap Outpoint)

\* MUTANT of AddRow: a row that exists is left as it is.
AddOnlyNewRow(o) ==
    /\ status' = [status EXCEPT ![o] = IF @ = "absent" THEN "unspent" ELSE @]
    /\ spendable' = IF status[o] = "absent" THEN spendable \cup {o} ELSE spendable
    /\ UNCHANGED <<pendingBy, frozen>>

\* addUTXO from a listing.  The column frozen is not among those it writes.
AddRow(o) ==
    /\ status' = [status EXCEPT ![o] = "unspent"]
    /\ pendingBy' = [pendingBy EXCEPT ![o] = NoTx]
    /\ spendable' = spendable \cup {o}
    /\ UNCHANGED frozen

-----------------------------------------------------------------------------
(* The senders.                                                             *)
Final == {"recorded", "over"}

\* lockBSV asks for no lock: only the other kinds have one to release.
ReleaseOf(t) == IF Kind[t] = "lock" THEN UNCHANGED lock ELSE Lock!Release(t, AcctOf[t])

\* MUTANT of Ends: an error leaves the operation without its finally.
EndsWithoutRelease(t, how) ==
    /\ pc' = [pc EXCEPT ![t] = how]
    /\ IF how = "recorded" THEN ReleaseOf(t) ELSE UNCHANGED lock

Ends(t, how) == pc' = [pc EXCEPT ![t] = how] /\ ReleaseOf(t)

\* The caller reads the candidates (handleSend, handleLock: from the table; ordinal
\* and token transfers and derived addresses: the indexer's listing) and calls the
\* operation, which asks for the lock only then.
Call(t) ==
    /\ pc[t] = "idle"
    /\ have' = [have EXCEPT ![t] = IF Kind[t] = "live" THEN Listing(AcctOf[t])
                                   ELSE Candidates(AcctOf[t])]
    /\ IF Kind[t] = "lock"
       THEN pc' = [pc EXCEPT ![t] = "ready"] /\ UNCHANGED lock
       ELSE pc' = [pc EXCEPT ![t] = "queued"] /\ Lock!Request(t, AcctOf[t])
    /\ UNCHANGED <<table, records, inputs, syncer, network, crashes>>

GrantedTo(t) ==
    /\ pc[t] = "queued"
    /\ Lock!Grant(t, AcctOf[t])
    /\ pc' = [pc EXCEPT ![t] = "ready"]
    /\ UNCHANGED <<table, records, have, inputs, syncer, network, crashes>>

\* Insufficient funds, or the transaction cannot be built.
Refused(t) ==
    /\ pc[t] = "ready"
    /\ Ends(t, "over")
    /\ have' = [have EXCEPT ![t] = {}]
    /\ UNCHANGED <<table, records, inputs, syncer, network, crashes>>

\* selectCoins and the builder pick inputs among the candidates read by the caller;
\* executeBroadcast marks them pending before anything else.
BuildAndMark(t) ==
    /\ pc[t] = "ready"
    /\ \E S \in SUBSET have[t] \ {{}} :
          /\ inputs' = [inputs EXCEPT ![t] = S]
          /\ MarkPending(S, t)
    /\ pc' = [pc EXCEPT ![t] = "marked"]
    /\ have' = [have EXCEPT ![t] = {}]
    /\ age' = [age EXCEPT ![t] = 0]
    /\ UNCHANGED <<spendable, frozen, txStatus, locks, syncer, lock, network, crashes>>

\* A statement of markUtxosPendingSpend fails: the operation throws, and the rows
\* already marked stay marked.
MarkFails(t) ==
    /\ Fails
    /\ pc[t] = "ready"
    /\ \E S \in SUBSET have[t] \ {{}} :
          /\ inputs' = [inputs EXCEPT ![t] = S]
          /\ \E P \in SUBSET S \ {S} : MarkPending(P, t)
    /\ Ends(t, "over")
    /\ have' = [have EXCEPT ![t] = {}]
    /\ age' = [age EXCEPT ![t] = 0]
    /\ UNCHANGED <<spendable, frozen, txStatus, locks, syncer, network, crashes>>

Broadcast(t) ==
    /\ pc[t] = "marked"
    /\ airborne' = airborne \cup {t}
    /\ pc' = [pc EXCEPT ![t] = "sent"]
    /\ UNCHANGED <<table, records, have, inputs, syncer, lock, net, indexed, crashes>>

\* broadcastTransaction returns the txid.
AnswerAccepted(t) ==
    /\ pc[t] = "sent" /\ t \in OnNet
    /\ pc' = [pc EXCEPT ![t] = "accepted"]
    /\ UNCHANGED <<table, records, have, inputs, syncer, lock, network, crashes>>

\* broadcastTransaction throws: the network refused the transaction, or nobody
\* could tell (both broadcasters timed out).
AnswerRefused(t) ==
    /\ pc[t] = "sent"
    /\ "timeout" \in Adversity \/ t \notin airborne \cup OnNet
    /\ pc' = [pc EXCEPT ![t] = "refused"]
    /\ UNCHANGED <<table, records, have, inputs, syncer, lock, network, crashes>>

\* MUTANT of RollBack: the marks are left to the next sync.
RollBackLater(t) ==
    /\ pc[t] = "refused"
    /\ Ends(t, "over")
    /\ UNCHANGED <<table, records, have, inputs, syncer, network, crashes>>

\* The catch of executeBroadcast; the caller returns an error and releases.
RollBack(t) ==
    /\ pc[t] = "refused"
    /\ RollbackPending(inputs[t])
    /\ Ends(t, "over")
    /\ UNCHANGED <<spendable, frozen, records, have, inputs, syncer, network, crashes>>

\* recordTransactionResult, lockBSV: one database transaction, from which
\* recordSentTransaction keeps the failure of its own statements; lockBSV looks at
\* the answers of neither confirmUtxosSpent nor addUTXO.
Record(t) ==
    /\ pc[t] = "accepted"
    /\ \/ txStatus' = [txStatus EXCEPT ![t] = "pending"]
       \/ Fails /\ UNCHANGED txStatus
    /\ age' = [age EXCEPT ![t] = IF txStatus[t] = "none" THEN 0 ELSE @]
    /\ locks' = IF Kind[t] = "lock" THEN locks \cup {t} ELSE locks
    /\ \/ SpendAndAddChange(t)
       \/ /\ Fails /\ Kind[t] = "lock"
          /\ \E S \in SUBSET inputs[t], C \in SUBSET ({t} \cap Outpoint) : SpendAndAdd(S, C)
    /\ Ends(t, "recorded")
    /\ UNCHANGED <<frozen, have, inputs, syncer, network, crashes>>

\* The rollback, or the record, fails: UTXO_STUCK_IN_PENDING,
\* BROADCAST_SUCCEEDED_DB_FAILED.  The marks stay.
StatementFails(t) ==
    /\ Fails
    /\ pc[t] \in {"refused", "accepted"}
    /\ Ends(t, "over")
    /\ UNCHANGED <<table, records, have, inputs, syncer, network, crashes>>

-----------------------------------------------------------------------------
(* The sync of an account.                                                  *)
SyncStep(a, from, to) == syncPc[a] = from /\ syncPc' = [syncPc EXCEPT ![a] = to]

StartSync(a) ==
    /\ SyncStep(a, "idle", "queued")
    /\ Lock!Request(a, a)
    /\ UNCHANGED <<table, records, sender, snap, seen, network, crashes>>

\* MUTANT of SyncGranted: the sync goes on without waiting for the lock.
SyncDoesNotWait(a) ==
    /\ SyncStep(a, "queued", "recover")
    /\ UNCHANGED <<table, records, sender, snap, seen, lock, network, crashes>>

SyncGranted(a) ==
    /\ SyncStep(a, "queued", "recover")
    /\ Lock!Grant(a, a)
    /\ UNCHANGED <<table, records, sender, snap, seen, network, crashes>>

\* MUTANT of OldMarks: the marks of transactions that failed only.
MarksOfFailed == {o \in Outpoint : pendingBy[o] # NoTx /\ txStatus[pendingBy[o]] = "failed"}

\* getPendingUtxos(5 min): whatever account the rows belong to.
OldMarks == {o \in Outpoint : pendingBy[o] # NoTx /\ age[pendingBy[o]] >= 1}

\* The recovery of syncWallet; its failure is only logged.
RecoverPending(a) ==
    /\ SyncStep(a, "recover", "fetch")
    /\ \/ RollbackPending(OldMarks)
       \/ Fails /\ UNCHANGED <<status, pendingBy>>
    /\ UNCHANGED <<spendable, frozen, records, sender, snap, seen, lock, network, crashes>>

\* syncAddress, down to the await of the listing.
FetchListing(a) ==
    /\ SyncStep(a, "fetch", "read")
    /\ snap' = [snap EXCEPT ![a] = Listing(a)]
    /\ UNCHANGED <<table, records, sender, seen, lock, network, crashes>>

\* null, or empty with no history to confirm it: the address is skipped.
ListingUnusable(a) ==
    /\ SyncStep(a, "fetch", "history")
    /\ UNCHANGED <<table, records, sender, snap, seen, lock, network, crashes>>

\* The rows are read only after the listing has arrived.
ReadRows(a) ==
    /\ SyncStep(a, "read", "apply")
    /\ seen' = [seen EXCEPT ![a] = SpendableRows(a)]
    /\ UNCHANGED <<table, records, sender, snap, lock, network, crashes>>

\* An output of the listing that was not among the rows: addUTXO.
AddListed(a) ==
    /\ syncPc[a] = "apply"
    /\ \E o \in snap[a] \ seen[a] :
          /\ AddRow(o) \/ (Fails /\ UNCHANGED table)
          /\ seen' = [seen EXCEPT ![a] = @ \cup {o}]
    /\ UNCHANGED <<records, sender, syncPc, snap, lock, network, crashes>>

\* MUTANT of MarkMissing: the change of a pending transaction is not spared.
MarkAllMissing(a) ==
    /\ syncPc[a] = "apply"
    /\ snap[a] \subseteq seen[a]
    /\ \E o \in seen[a] \ snap[a] :
          /\ status' = [status EXCEPT ![o] = "spent"]
          /\ seen' = [seen EXCEPT ![a] = @ \ {o}]
    /\ UNCHANGED <<pendingBy, spendable, frozen, records, sender, syncPc, snap, lock,
                   network, crashes>>

\* A row that is not in the listing is spent, unless it is the change of a
\* transaction that is still pending; if the pending ones cannot be read, there
\* are none.
MarkMissing(a) ==
    /\ syncPc[a] = "apply"
    /\ snap[a] \subseteq seen[a]
    /\ \E o \in seen[a] \ snap[a] :
          /\ \/ /\ o \in PendingTxids => Fails
                /\ status' = [status EXCEPT ![o] = "spent"]
             \/ /\ o \in PendingTxids \/ Fails
                /\ UNCHANGED status
          /\ seen' = [seen EXCEPT ![a] = @ \ {o}]
    /\ UNCHANGED <<pendingBy, spendable, frozen, records, sender, syncPc, snap, lock,
                   network, crashes>>

AddressDone(a) ==
    /\ SyncStep(a, "apply", "history")
    /\ seen[a] = snap[a]
    /\ snap' = [snap EXCEPT ![a] = {}]
    /\ seen' = [seen EXCEPT ![a] = {}]
    /\ UNCHANGED <<table, records, sender, lock, network, crashes>>

\* syncTransactionHistory: unknown transactions are inserted, known ones that are
\* mined are confirmed.
SyncHistory(a) ==
    LET mine == {t \in indexed : AcctOf[t] = a}
    IN  /\ SyncStep(a, "history", "resolve")
        /\ txStatus' = [t \in Tx |-> IF t \notin mine THEN txStatus[t]
                                     ELSE IF net[t] = "mined" THEN "confirmed"
                                     ELSE IF txStatus[t] = "none" THEN "pending"
                                     ELSE txStatus[t]]
        /\ age' = [t \in Tx |-> IF t \in mine /\ txStatus[t] = "none" THEN 0 ELSE age[t]]
        /\ UNCHANGED <<table, locks, sender, snap, seen, lock, network, crashes>>

\* The history, or the transactions, cannot be fetched.
IndexerUnavailable(a) ==
    /\ SyncStep(a, "history", "resolve") \/ SyncStep(a, "resolve", "purge")
    /\ UNCHANGED <<table, records, sender, snap, seen, lock, network, crashes>>

\* resolvePendingTransactions: mined, or unknown to the indexer (404) for half an
\* hour, in which case its outputs are deleted.
Stale(a) == {t \in Tx \ indexed : AcctOf[t] = a /\ txStatus[t] = "pending" /\ age[t] = 2}

ResolvePending(a) ==
    LET gone == Stale(a) \cap Outpoint
    IN  /\ SyncStep(a, "resolve", "purge")
        /\ txStatus' = [t \in Tx |->
               IF t \in Stale(a) THEN "failed"
               ELSE IF /\ t \in indexed /\ AcctOf[t] = a /\ net[t] = "mined"
                       /\ txStatus[t] = "pending" THEN "confirmed"
               ELSE txStatus[t]]
        /\ status' = [o \in Outpoint |-> IF o \in gone THEN "absent" ELSE status[o]]
        /\ pendingBy' = [o \in Outpoint |-> IF o \in gone THEN NoTx ELSE pendingBy[o]]
        /\ spendable' = spendable \ gone
        /\ frozen' = frozen \ gone
        /\ locks' = locks \ Stale(a)
        /\ UNCHANGED <<age, sender, snap, seen, lock, network, crashes>>

\* The end of syncWallet: a lock whose transaction the indexer does not know (404) is
\* deleted, whatever its age, and its transaction with it; the change stays.
PurgePhantoms(a) ==
    LET phantoms == {t \in locks \ indexed : AcctOf[t] = a}
    IN  /\ SyncStep(a, "purge", "idle")
        /\ locks' = locks \ phantoms
        /\ txStatus' = [t \in Tx |-> IF t \in phantoms THEN "none" ELSE txStatus[t]]
        /\ Lock!Release(a, a)
        /\ UNCHANGED <<table, age, sender, snap, seen, network, crashes>>

\* A check of the token between two units of work finds it cancelled.
SyncCancelled(a) ==
    /\ syncPc[a] \in {"recover", "fetch", "history", "resolve", "purge"}
    /\ syncPc' = [syncPc EXCEPT ![a] = "idle"]
    /\ Lock!Release(a, a)
    /\ UNCHANGED <<table, records, sender, snap, seen, network, crashes>>

-----------------------------------------------------------------------------
(* The network and the indexer.                                             *)
NetworkAccepts(t) ==
    /\ t \in airborne
    /\ inputs[t] \subseteq UnspentAfter(OnNet)
    /\ airborne' = airborne \ {t}
    /\ net' = [net EXCEPT ![t] = "mempool"]
    /\ indexed' = IF "lag" \in Adversity THEN indexed ELSE indexed \cup {t}
    /\ UNCHANGED <<table, records, sender, syncer, lock, crashes>>

NetworkRefuses(t) ==
    /\ t \in airborne
    /\ airborne' = airborne \ {t}
    /\ UNCHANGED <<table, records, sender, syncer, lock, net, indexed, crashes>>

IndexerLearns(t) ==
    /\ t \in OnNet \ indexed
    /\ indexed' = indexed \cup {t}
    /\ UNCHANGED <<table, records, sender, syncer, lock, airborne, net, crashes>>

Mined(t) ==
    /\ net[t] = "mempool"
    /\ \A p \in inputs[t] \cap Tx : net[p] = "mined"
    /\ net' = [net EXCEPT ![t] = "mined"]
    /\ UNCHANGED <<table, records, sender, syncer, lock, airborne, indexed, crashes>>

Dropped(t) ==
    /\ "drop" \in Adversity
    /\ net[t] = "mempool"
    /\ \A u \in OnNet : t \notin inputs[u]
    /\ net' = [net EXCEPT ![t] = "dropped"]
    /\ indexed' = indexed \ {t}
    /\ UNCHANGED <<table, records, sender, syncer, lock, airborne, crashes>>

-----------------------------------------------------------------------------
(* Time, the user, and the end of the process.                              *)
InFlight(t) == pc[t] \in {"marked", "sent", "accepted", "refused"} \/ t \in airborne

TimePasses(t) ==
    /\ InFlight(t) => "sleep" \in Adversity
    /\ inputs[t] # {} /\ age[t] < 2
    /\ age' = [age EXCEPT ![t] = @ + 1]
    /\ UNCHANGED <<table, txStatus, locks, sender, syncer, lock, network, crashes>>

\* toggleUtxoFrozen writes both columns; the list the user acts on shows the rows
\* that are not spent, and takes for frozen the ones that are not spendable.
ToggleFrozen(o) ==
    /\ "freeze" \in Adversity
    /\ status[o] \in {"unspent", "pending"}
    /\ \/ o \in spendable /\ frozen' = frozen \cup {o} /\ spendable' = spendable \ {o}
       \/ o \notin spendable /\ frozen' = frozen \ {o} /\ spendable' = spendable \cup {o}
    /\ UNCHANGED <<status, pendingBy, records, sender, syncer, lock, network, crashes>>

Crash ==
    /\ crashes < MaxCrashes
    /\ crashes' = crashes + 1
    /\ pc' = [t \in Tx |-> IF pc[t] \in Final \cup {"idle"} THEN pc[t] ELSE "over"]
    /\ have' = [t \in Tx |-> {}]
    /\ syncPc' = [a \in Account |-> "idle"]
    /\ snap' = [a \in Account |-> {}] /\ seen' = [a \in Account |-> {}]
    /\ line' = [a \in Account |-> <<>>] /\ owns' = {}
    /\ UNCHANGED <<table, records, inputs, network>>

Sends(t) == \/ Call(t) \/ GrantedTo(t) \/ Refused(t) \/ BuildAndMark(t) \/ MarkFails(t) \/ Broadcast(t)
            \/ AnswerAccepted(t) \/ AnswerRefused(t) \/ RollBack(t) \/ Record(t)
            \/ StatementFails(t)

Syncs(a) == \/ StartSync(a) \/ SyncGranted(a) \/ RecoverPending(a) \/ FetchListing(a)
            \/ ListingUnusable(a) \/ ReadRows(a) \/ AddListed(a) \/ MarkMissing(a)
            \/ AddressDone(a) \/ SyncHistory(a) \/ IndexerUnavailable(a)
            \/ ResolvePending(a) \/ PurgePhantoms(a) \/ SyncCancelled(a)

World(t) == \/ NetworkAccepts(t) \/ NetworkRefuses(t) \/ IndexerLearns(t) \/ Mined(t)
            \/ Dropped(t) \/ TimePasses(t)

Next == \/ \E t \in Tx : Sends(t) \/ World(t)
        \/ \E a \in Account : Syncs(a)
        \/ \E o \in Outpoint : ToggleFrozen(o)
        \/ Crash

Spec == Init /\ [][Next]_vars

(* An operation that started goes on: each of its awaits is a local call or *)
(* a request with a timeout.  The network decides on what it received and   *)
(* the indexer catches up.  Syncs are started again and again (on focus, on *)
(* a timer, after an operation); any of them may be cancelled, but not all  *)
(* of them for ever at the same check.                                      *)
Works(t) == Sends(t) /\ pc[t] # "idle"
Decided(t) == NetworkAccepts(t) \/ NetworkRefuses(t)
SyncGoesOn(a) == \/ StartSync(a) \/ SyncGranted(a) \/ ReadRows(a) \/ AddListed(a)
                 \/ MarkMissing(a) \/ AddressDone(a)

Fairness ==
    /\ \A t \in Tx : /\ WF_vars(Works(t)) /\ WF_vars(Decided(t))
                     /\ WF_vars(IndexerLearns(t)) /\ WF_vars(Mined(t) \/ Dropped(t))
                     /\ WF_vars(TimePasses(t))
    /\ \A a \in Account : /\ WF_vars(SyncGoesOn(a))
                          /\ SF_vars(RecoverPending(a)) /\ SF_vars(FetchListing(a))
                          /\ SF_vars(SyncHistory(a)) /\ SF_vars(ResolvePending(a))
                          /\ SF_vars(PurgePhantoms(a))

FairSpec == Spec /\ Fairness

(* Where statements fail: one that every sync issues again does not fail    *)
(* for ever.                                                                *)
Recovers(a) == RecoverPending(a) /\ RollbackPending(OldMarks)
Adds(a, o) == AddListed(a) /\ AddRow(o)
WritesOff(a, o) == /\ MarkMissing(a) /\ o \notin PendingTxids
                   /\ status[o] # "spent" /\ status'[o] = "spent"

HealSpec ==
    /\ FairSpec
    /\ \A a \in Account : SF_vars(Recovers(a))
    /\ \A a \in Account, o \in Outpoint : SF_vars(Adds(a, o)) /\ SF_vars(WritesOff(a, o))

-----------------------------------------------------------------------------
MarkedPhase == {"marked", "sent", "accepted", "refused"}
LockedPhase == MarkedPhase \cup {"ready"}

\* The operations of account a that are past their wait for its lock.
AtWork(a) == {t \in Tx : AcctOf[t] = a /\ Kind[t] # "lock" /\ pc[t] \in LockedPhase}
             \cup {b \in {a} : syncPc[b] \notin {"idle", "queued"}}

(* The sync and the sends of an account work one at a time, and whoever     *)
(* holds a lock works: a send that throws, a sync that is cancelled and a   *)
(* restart all give their lock back ("prevent concurrent sync from          *)
(* modifying UTXOs during send", sendBSV, and its finally).                 *)
LockHeldByWork ==
    /\ \A a \in Account : \A v, w \in AtWork(a) : v = w
    /\ owns = UNION {AtWork(a) : a \in Account}

(* No mark outlives its operation: an output is pending for an operation    *)
(* under way that spends it, unless a restart cut that one short or a       *)
(* statement failed ("Both broadcast AND rollback failed", the case of      *)
(* UTXO_STUCK_IN_PENDING in executeBroadcast); after a send that was        *)
(* recorded none is left, whatever failed.                                  *)
MarksHaveOperations ==
    \A o \in Outpoint : status[o] = "pending" =>
        \E t \in Tx :
            /\ pendingBy[o] = t /\ o \in inputs[t]
            /\ \/ pc[t] \in MarkedPhase
               \/ pc[t] = "over" /\ (Fails \/ crashes > 0)
               \/ pc[t] = "recorded" /\ Fails /\ Kind[t] = "lock"

(* While a transaction may still be accepted, no other operation is offered *)
(* its inputs: marking them pending before the broadcast "prevents race     *)
(* conditions" (executeBroadcast), whatever syncs and sends run meanwhile.  *)
InFlightInputsReserved ==
    \A t \in Tx : pc[t] \in {"marked", "sent", "accepted"} =>
        \A o \in inputs[t] : status[o] # "unspent"

(* "Acquire sync lock to prevent concurrent sync from modifying UTXOs during *)
(* send" (sendBSV): once a send is recorded and as long as the network keeps *)
(* its transaction, no sync, however it interleaves, offers its inputs again.*)
RecordedInputsStaySpent ==
    \A t \in OnNet : pc[t] = "recorded" => \A o \in inputs[t] : status[o] # "unspent"

(* A coin the wallet still owns is never written off: a row is "spent" only *)
(* if the network knows a transaction that spends it (or knew one and       *)
(* dropped it), even while the indexer has not heard of the transaction     *)
(* that created it ("Protect change outputs", syncAddress).                 *)
LiveCoinsKept ==
    \A o \in UnspentAfter(OnNet) :
        status[o] = "spent" => \E t \in Tx : net[t] = "dropped" /\ o \in inputs[t]

(* The mark "prevents race conditions where a crash after broadcast but     *)
(* before marking as spent could cause double-spend attempts"               *)
(* (markUtxosPendingSpend): no later send spends what a transaction whose   *)
(* operation was cut short, and that the network may accept, spends.        *)
NoDoubleSpendAfterCrash ==
    \A t, u \in Tx : t # u /\ t \in airborne /\ pc[u] = "over" /\ u \in airborne \cup OnNet
        => inputs[t] \cap inputs[u] = {}

(* Whatever crashed, timed out or was dropped, the table comes to agree     *)
(* with the network: the wallet offers exactly the outputs it owns.         *)
OffersOwned ==
    \A o \in Outpoint : (o \in spendable /\ status[o] = "unspent") <=> o \in UnspentAfter(OnNet)

TableConverges == <>[]OffersOwned

(* No output is stuck in "pending", and no transaction stays "pending" for  *)
(* ever, whatever failed on the way (recovery in syncWallet,                *)
(* resolvePendingTransactions).                                             *)
NothingPendingForEver ==
    /\ \A o \in Outpoint : status[o] = "pending" ~> status[o] # "pending"
    /\ \A t \in Tx : txStatus[t] = "pending" ~> txStatus[t] # "pending"
=============================================================================
