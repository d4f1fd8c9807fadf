------------------------- MODULE WalletLedgerProofs -------------------------
(***************************************************************************)
(* Theorems about WalletLedger, for every set of accounts, coins and       *)
(* transactions: its types; the lock is held by one operation at work and  *)
(* by nobody else (LockPart, WorkPart); every mark has an operation; the   *)
(* inputs of an operation in flight are reserved (ReservationInv, which    *)
(* rests on both); what a recorded operation spent stays spent             *)
(* (RecordedInv, which rests on the lock); and no coin the wallet owns is  *)
(* written off (KeptInv, which rests on neither).                          *)
(***************************************************************************)
EXTENDS WalletLedger, TLAPS

(* The lock that Call, GrantedTo, the ends of an operation and the sync move. *)
LockTypeOK == line \in [Account -> Seq(Worker)] /\ owns \subseteq Worker

LEMMA LockTyped ==
    ASSUME LockTypeOK, NEW w \in Worker, NEW a \in Account,
           Lock!Request(w, a) \/ Lock!Grant(w, a) \/ Lock!Release(w, a)
    PROVE  LockTypeOK'
<1>1. CASE Lock!Request(w, a)
  <2>1. Append(line[a], w) \in Seq(Worker)
    BY DEF LockTypeOK
  <2>2. QED BY <1>1, <2>1 DEF LockTypeOK, Lock!Request
<1>2. CASE Lock!Grant(w, a)
  BY <1>2 DEF LockTypeOK, Lock!Grant
<1>3. CASE Lock!Release(w, a)
  <2>1. Tail(line[a]) \in Seq(Worker)
    BY <1>3 DEF LockTypeOK, Lock!Release
  <2>2. QED BY <1>3, <2>1 DEF LockTypeOK, Lock!Release
<1>4. QED BY <1>1, <1>2, <1>3

LEMMA EndTyped ==
    ASSUME LockTypeOK, pc \in [Tx -> Phase], NEW t \in Tx, NEW how \in Phase, Ends(t, how)
    PROVE  LockTypeOK' /\ pc' \in [Tx -> Phase]
<1>1. t \in Worker /\ AcctOf[t] \in Account
  BY AcctAssumption DEF Worker
<1>2. LockTypeOK'
  BY <1>1, LockTyped DEF Ends, ReleaseOf, lock, LockTypeOK
<1>3. QED BY <1>2 DEF Ends

LEMMA RowsTyped ==
    ASSUME TypeOK, NEW S, NEW s \in {"absent", "unspent", "pending", "spent"},
           NEW t \in Tx \cup {NoTx}, SetStatus(S, s, t)
    PROVE  /\ status' \in [Outpoint -> {"absent", "unspent", "pending", "spent"}]
           /\ pendingBy' \in [Outpoint -> Tx \cup {NoTx}]
BY DEF TypeOK, SetStatus

LEMMA InitTyped == Init => TypeOK
BY BoundAssumption DEF Init, TypeOK, Lock!Init, Outpoint, Phase, SyncPhase

-----------------------------------------------------------------------------
LEMMA SendsTyped ==
    ASSUME TypeOK, NEW t \in Tx, Sends(t)
    PROVE  TypeOK'
<1> USE DEF table, records, syncer, network
<1>a. LockTypeOK /\ t \in Worker /\ AcctOf[t] \in Account /\ "over" \in Phase
  BY AcctAssumption DEF TypeOK, LockTypeOK, Worker, Phase
<1>1. CASE Call(t)
  <2>1. Candidates(AcctOf[t]) \subseteq Outpoint /\ Listing(AcctOf[t]) \subseteq Outpoint
    BY DEF TypeOK, Candidates, SpendableRows, Listing, UnspentAfter
  <2>2. LockTypeOK'
    BY <1>1, <1>a, LockTyped DEF Call, LockTypeOK, lock
  <2>3. pc' \in [Tx -> Phase] /\ have' \in [Tx -> SUBSET Outpoint]
    BY <1>1, <2>1 DEF Call, TypeOK, Phase
  <2>4. QED BY <1>1, <2>2, <2>3 DEF Call, TypeOK, LockTypeOK
<1>2. CASE GrantedTo(t)
  <2>1. LockTypeOK'
    BY <1>2, <1>a, LockTyped DEF GrantedTo
  <2>2. pc' \in [Tx -> Phase]
    BY <1>2 DEF GrantedTo, TypeOK, Phase
  <2>3. QED BY <1>2, <2>1, <2>2 DEF GrantedTo, TypeOK, LockTypeOK
<1>3. CASE Refused(t)
  <2>1. LockTypeOK' /\ pc' \in [Tx -> Phase]
    BY <1>3, <1>a, EndTyped DEF Refused, TypeOK
  <2>2. QED BY <1>3, <2>1 DEF Refused, TypeOK, LockTypeOK
<1>4. CASE BuildAndMark(t)
  <2>1. PICK S \in SUBSET have[t] \ {{}} :
           inputs' = [inputs EXCEPT ![t] = S] /\ MarkPending(S, t)
    BY <1>4 DEF BuildAndMark
  <2>2. inputs' \in [Tx -> SUBSET Outpoint]
    BY <2>1 DEF TypeOK
  <2>3. /\ status' \in [Outpoint -> {"absent", "unspent", "pending", "spent"}]
        /\ pendingBy' \in [Outpoint -> Tx \cup {NoTx}]
    BY <2>1, RowsTyped DEF MarkPending
  <2>4. pc' \in [Tx -> Phase] /\ have' \in [Tx -> SUBSET Outpoint] /\ age' \in [Tx -> 0..2]
    BY <1>4 DEF BuildAndMark, TypeOK, Phase
  <2>5. QED BY <1>4, <2>2, <2>3, <2>4 DEF BuildAndMark, TypeOK, lock
<1>5. CASE MarkFails(t)
  <2>1. PICK S \in SUBSET have[t] \ {{}} :
           /\ inputs' = [inputs EXCEPT ![t] = S]
           /\ \E P \in SUBSET S \ {S} : MarkPending(P, t)
    BY <1>5 DEF MarkFails
  <2>2. inputs' \in [Tx -> SUBSET Outpoint]
    BY <2>1 DEF TypeOK
  <2>3. /\ status' \in [Outpoint -> {"absent", "unspent", "pending", "spent"}]
        /\ pendingBy' \in [Outpoint -> Tx \cup {NoTx}]
    BY <2>1, RowsTyped DEF MarkPending
  <2>4. LockTypeOK' /\ pc' \in [Tx -> Phase]
    BY <1>5, <1>a, EndTyped DEF MarkFails, TypeOK
  <2>5. have' \in [Tx -> SUBSET Outpoint] /\ age' \in [Tx -> 0..2]
    BY <1>5 DEF MarkFails, TypeOK
  <2>6. QED BY <1>5, <2>2, <2>3, <2>4, <2>5 DEF MarkFails, TypeOK, LockTypeOK
<1>6. CASE Broadcast(t) \/ AnswerAccepted(t) \/ AnswerRefused(t)
  BY <1>6 DEF Broadcast, AnswerAccepted, AnswerRefused, TypeOK, Phase, lock
<1>7. CASE RollBack(t)
  <2>1. LockTypeOK' /\ pc' \in [Tx -> Phase]
    BY <1>7, <1>a, EndTyped DEF RollBack, TypeOK
  <2>2. /\ status' \in [Outpoint -> {"absent", "unspent", "pending", "spent"}]
        /\ pendingBy' \in [Outpoint -> Tx \cup {NoTx}]
    BY <1>7, RowsTyped DEF RollBack, RollbackPending
  <2>3. QED BY <1>7, <2>1, <2>2 DEF RollBack, TypeOK, LockTypeOK
<1>8. CASE Record(t)
  <2>1. LockTypeOK' /\ pc' \in [Tx -> Phase]
    BY <1>8, <1>a, EndTyped DEF Record, TypeOK, Phase
  <2>2. /\ status' \in [Outpoint -> {"absent", "unspent", "pending", "spent"}]
        /\ pendingBy' \in [Outpoint -> Tx \cup {NoTx}]
        /\ spendable' \subseteq Outpoint
    <3>1. PICK S \in SUBSET inputs[t], C \in SUBSET ({t} \cap Outpoint) : SpendAndAdd(S, C)
      BY <1>8 DEF Record, SpendAndAddChange
    <3>2. QED BY <3>1 DEF SpendAndAdd, TypeOK
  <2>3. txStatus' \in [Tx -> {"none", "pending", "confirmed", "failed"}]
    BY <1>8 DEF Record, TypeOK
  <2>4. age' \in [Tx -> 0..2]
    <3>1. age' = [age EXCEPT ![t] = IF txStatus[t] = "none" THEN 0 ELSE @]
      BY <1>8 DEF Record
    <3>2. 0 \in 0..2
      OBVIOUS
    <3>3. QED BY <3>1, <3>2 DEF TypeOK
  <2>5. QED BY <1>8, <2>1, <2>2, <2>3, <2>4 DEF Record, TypeOK, LockTypeOK
<1>9. CASE StatementFails(t)
  <2>1. LockTypeOK' /\ pc' \in [Tx -> Phase]
    BY <1>9, <1>a, EndTyped DEF StatementFails, TypeOK
  <2>2. QED BY <1>9, <2>1 DEF StatementFails, TypeOK, LockTypeOK
<1>10. QED BY <1>1, <1>2, <1>3, <1>4, <1>5, <1>6, <1>7, <1>8, <1>9 DEF Sends

LEMMA SyncsTyped ==
    ASSUME TypeOK, NEW a \in Account, Syncs(a)
    PROVE  TypeOK'
<1> USE DEF table, records, sender, network
<1>a. LockTypeOK /\ a \in Worker
  BY DEF TypeOK, LockTypeOK, Worker
<1>b. ASSUME NEW from, NEW to \in SyncPhase, SyncStep(a, from, to)
      PROVE  syncPc' \in [Account -> SyncPhase]
  BY <1>b DEF SyncStep, TypeOK
<1>1. CASE StartSync(a) \/ SyncGranted(a)
  <2>1. LockTypeOK'
    BY <1>1, <1>a, LockTyped DEF StartSync, SyncGranted
  <2>2. syncPc' \in [Account -> SyncPhase]
    BY <1>1, <1>b DEF StartSync, SyncGranted, SyncPhase
  <2>3. QED BY <1>1, <2>1, <2>2 DEF StartSync, SyncGranted, TypeOK, LockTypeOK
<1>2. CASE RecoverPending(a)
  <2>1. /\ status' \in [Outpoint -> {"absent", "unspent", "pending", "spent"}]
        /\ pendingBy' \in [Outpoint -> Tx \cup {NoTx}]
    <3>1. CASE UNCHANGED <<status, pendingBy>>
      BY <3>1 DEF TypeOK
    <3>2. CASE ~ UNCHANGED <<status, pendingBy>>
      BY <1>2, <3>2, RowsTyped DEF RecoverPending, RollbackPending
    <3>3. QED BY <3>1, <3>2
  <2>2. syncPc' \in [Account -> SyncPhase]
    BY <1>2, <1>b DEF RecoverPending, SyncPhase
  <2>3. QED BY <1>2, <2>1, <2>2 DEF RecoverPending, TypeOK, lock
<1>3. CASE FetchListing(a) \/ ListingUnusable(a) \/ ReadRows(a) \/ IndexerUnavailable(a)
  <2>1. Listing(a) \subseteq Outpoint /\ SpendableRows(a) \subseteq Outpoint
    BY DEF TypeOK, SpendableRows, Listing, UnspentAfter
  <2>2. syncPc' \in [Account -> SyncPhase]
    BY <1>3, <1>b DEF FetchListing, ListingUnusable, ReadRows, IndexerUnavailable, SyncPhase
  <2>3. snap' \in [Account -> SUBSET Outpoint] /\ seen' \in [Account -> SUBSET Outpoint]
    BY <1>3, <2>1 DEF FetchListing, ListingUnusable, ReadRows, IndexerUnavailable, TypeOK
  <2>4. QED BY <1>3, <2>2, <2>3
            DEF FetchListing, ListingUnusable, ReadRows, IndexerUnavailable, TypeOK, lock
<1>4. CASE AddListed(a)
  <2>1. PICK o \in snap[a] \ seen[a] : /\ AddRow(o) \/ UNCHANGED table
                                       /\ seen' = [seen EXCEPT ![a] = @ \cup {o}]
    BY <1>4 DEF AddListed
  <2>2. o \in Outpoint
    BY <2>1 DEF TypeOK
  <2>3. /\ status' \in [Outpoint -> {"absent", "unspent", "pending", "spent"}]
        /\ pendingBy' \in [Outpoint -> Tx \cup {NoTx}]
        /\ spendable' \subseteq Outpoint /\ frozen' \subseteq Outpoint
    <3>1. CASE AddRow(o)
      BY <3>1, <2>2 DEF AddRow, TypeOK
    <3>2. CASE UNCHANGED table
      BY <3>2 DEF TypeOK
    <3>3. QED BY <2>1, <3>1, <3>2
  <2>4. seen' \in [Account -> SUBSET Outpoint]
    BY <2>1, <2>2 DEF TypeOK
  <2>5. QED BY <1>4, <2>3, <2>4 DEF AddListed, TypeOK, lock
<1>5. CASE MarkMissing(a)
  <2>1. PICK o \in seen[a] \ snap[a] :
           /\ status' = [status EXCEPT ![o] = "spent"] \/ UNCHANGED status
           /\ seen' = [seen EXCEPT ![a] = @ \ {o}]
    BY <1>5 DEF MarkMissing
  <2>2. /\ status' \in [Outpoint -> {"absent", "unspent", "pending", "spent"}]
        /\ seen' \in [Account -> SUBSET Outpoint]
    BY <2>1 DEF TypeOK
  <2>3. QED BY <1>5, <2>2 DEF MarkMissing, TypeOK, lock
<1>6. CASE AddressDone(a)
  <2>1. syncPc' \in [Account -> SyncPhase]
    BY <1>6, <1>b DEF AddressDone, SyncPhase
  <2>2. QED BY <1>6, <2>1 DEF AddressDone, TypeOK, lock
<1>7. CASE SyncHistory(a)
  <2>1. syncPc' \in [Account -> SyncPhase]
    BY <1>7, <1>b DEF SyncHistory, SyncPhase
  <2>2. /\ txStatus' \in [Tx -> {"none", "pending", "confirmed", "failed"}]
        /\ age' \in [Tx -> 0..2]
    BY <1>7 DEF SyncHistory, TypeOK
  <2>3. QED BY <1>7, <2>1, <2>2 DEF SyncHistory, TypeOK, lock
<1>8. CASE ResolvePending(a)
  <2>1. LockTypeOK'
    BY <1>8, <1>a DEF ResolvePending, LockTypeOK, lock
  <2>2. syncPc' \in [Account -> SyncPhase]
    BY <1>8, <1>b DEF ResolvePending, SyncPhase
  <2>3. txStatus' \in [Tx -> {"none", "pending", "confirmed", "failed"}]
    BY <1>8 DEF ResolvePending, TypeOK
  <2>4. /\ status' \in [Outpoint -> {"absent", "unspent", "pending", "spent"}]
        /\ pendingBy' \in [Outpoint -> Tx \cup {NoTx}]
        /\ spendable' \subseteq Outpoint /\ frozen' \subseteq Outpoint
    BY <1>8 DEF ResolvePending, TypeOK
  <2>5. QED BY <1>8, <2>1, <2>2, <2>3, <2>4 DEF ResolvePending, TypeOK, LockTypeOK
<1>9. CASE PurgePhantoms(a) \/ SyncCancelled(a)
  <2>1. LockTypeOK'
    BY <1>9, <1>a, LockTyped DEF PurgePhantoms, SyncCancelled
  <2>2. /\ txStatus' \in [Tx -> {"none", "pending", "confirmed", "failed"}]
        /\ locks' \subseteq Tx
    BY <1>9 DEF PurgePhantoms, SyncCancelled, TypeOK
  <2>3. syncPc' \in [Account -> SyncPhase]
    BY <1>9, <1>b DEF PurgePhantoms, SyncCancelled, SyncPhase, TypeOK
  <2>4. QED BY <1>9, <2>1, <2>2, <2>3 DEF PurgePhantoms, SyncCancelled, TypeOK, LockTypeOK
<1>10. QED BY <1>1, <1>2, <1>3, <1>4, <1>5, <1>6, <1>7, <1>8, <1>9 DEF Syncs

LEMMA NextTyped == TypeOK /\ [Next]_vars => TypeOK'
<1> SUFFICES ASSUME TypeOK, [Next]_vars PROVE TypeOK'
  OBVIOUS
<1>1. ASSUME NEW t \in Tx, World(t) PROVE TypeOK'
  <2> USE DEF table, records, sender, syncer, lock, network
  <2>1. CASE NetworkAccepts(t)
    BY <2>1 DEF NetworkAccepts, TypeOK
  <2>2. CASE NetworkRefuses(t) \/ IndexerLearns(t)
    BY <2>2 DEF NetworkRefuses, IndexerLearns, OnNet, TypeOK
  <2>3. CASE Mined(t) \/ Dropped(t)
    BY <2>3 DEF Mined, Dropped, TypeOK
  <2>4. CASE TimePasses(t)
    <3>1. age' \in [Tx -> 0..2]
      <4>1. age \in [Tx -> 0..2] /\ age[t] < 2 /\ age' = [age EXCEPT ![t] = @ + 1]
        BY <2>4 DEF TimePasses, TypeOK
      <4>2. age[t] \in 0..2
        BY <4>1
      <4>3. age[t] + 1 \in 0..2
        BY <4>1, <4>2
      <4>4. QED BY <4>1, <4>3
    <3>2. QED BY <2>4, <3>1 DEF TimePasses, TypeOK
  <2>5. QED BY <1>1, <2>1, <2>2, <2>3, <2>4 DEF World
<1>2. ASSUME NEW o \in Outpoint, ToggleFrozen(o) PROVE TypeOK'
  BY <1>2 DEF ToggleFrozen, TypeOK, table, records, sender, syncer, lock, network
<1>3. CASE Crash
  <2>1. crashes' \in 0..MaxCrashes
    BY <1>3, BoundAssumption DEF Crash, TypeOK
  <2>2. pc' \in [Tx -> Phase]
    BY <1>3 DEF Crash, TypeOK, Phase
  <2>3. QED BY <1>3, <2>1, <2>2 DEF Crash, TypeOK, SyncPhase, table, records, network
<1>4. CASE UNCHANGED vars
  BY <1>4 DEF TypeOK, vars, table, records, sender, syncer, lock, network
<1>5. QED BY <1>1, <1>2, <1>3, <1>4, SendsTyped, SyncsTyped DEF Next

(* Every value the program's state takes, whatever is interleaved, lost or  *)
(* crashed, is one the code provides for.                                   *)
THEOREM LedgerTypeOK == Spec => []TypeOK
<1>1. QED BY InitTyped, NextTyped, PTL DEF Spec

-----------------------------------------------------------------------------
(* The lock.                                                                *)
(*                                                                          *)
(* Whoever is past its wait owns the lock of its account and stands at the  *)
(* head of its line; and whoever owns one is past its wait.                 *)

HomeOf(w) == IF w \in Account THEN w ELSE AcctOf[w]

OwnersAtHead == \A w \in owns : /\ line[HomeOf(w)] # <<>>
                                /\ Head(line[HomeOf(w)]) = w
SendersOwn == \A t \in Tx : pc[t] \in LockedPhase /\ Kind[t] # "lock" => t \in owns
SyncsOwn == \A a \in Account : syncPc[a] \notin {"idle", "queued"} => a \in owns
OwnersWork == \A w \in owns : \/ w \in Account /\ syncPc[w] \notin {"idle", "queued"}
                              \/ w \in Tx /\ Kind[w] # "lock" /\ pc[w] \in LockedPhase

LockPart == OwnersAtHead /\ SendersOwn /\ SyncsOwn

LEMMA HomeTyped ==
    ASSUME NEW t \in Tx
    PROVE  HomeOf(t) = AcctOf[t] /\ AcctOf[t] \in Account /\ t \notin Account
BY NamesAssumption, AcctAssumption DEF HomeOf

\* Two owners of the same account are one.
LEMMA OwnersEqual ==
    ASSUME OwnersAtHead, NEW v \in owns, NEW w \in owns, HomeOf(v) = HomeOf(w)
    PROVE  v = w
BY DEF OwnersAtHead

LEMMA RequestKeepsHeads ==
    ASSUME TypeOK, OwnersAtHead, NEW w, NEW a \in Account, Lock!Request(w, a)
    PROVE  OwnersAtHead' /\ owns' = owns
<1>1. owns' = owns /\ line' = [line EXCEPT ![a] = Append(@, w)]
  BY DEF Lock!Request
<1>2. ASSUME NEW v \in owns
      PROVE  line'[HomeOf(v)] # <<>> /\ Head(line'[HomeOf(v)]) = v
  <2>1. HomeOf(v) \in Account
    BY AcctAssumption DEF TypeOK, Worker, HomeOf
  <2>2. line[HomeOf(v)] \in Seq(Worker) /\ line[HomeOf(v)] # <<>>
        /\ Head(line[HomeOf(v)]) = v
    BY <2>1 DEF OwnersAtHead, TypeOK
  <2>3. CASE HomeOf(v) # a
    BY <1>1, <2>1, <2>2, <2>3 DEF TypeOK
  <2>4. CASE HomeOf(v) = a
    <3>1. line'[HomeOf(v)] = Append(line[HomeOf(v)], w)
      BY <1>1, <2>4 DEF TypeOK
    <3>2. /\ Append(line[HomeOf(v)], w) # <<>>
          /\ Head(Append(line[HomeOf(v)], w)) = Head(line[HomeOf(v)])
      BY <2>2
    <3>3. QED BY <2>2, <3>1, <3>2
  <2>5. QED BY <2>3, <2>4
<1>3. QED BY <1>1, <1>2 DEF OwnersAtHead, HomeOf

LEMMA GrantKeepsHeads ==
    ASSUME OwnersAtHead, NEW w, NEW a, HomeOf(w) = a, Lock!Grant(w, a)
    PROVE  OwnersAtHead' /\ owns' = owns \cup {w}
BY DEF Lock!Grant, OwnersAtHead, HomeOf

LEMMA ReleaseKeepsHeads ==
    ASSUME TypeOK, OwnersAtHead, NEW w, NEW a \in Account, HomeOf(w) = a, Lock!Release(w, a)
    PROVE  OwnersAtHead' /\ owns' = owns \ {w}
<1>1. owns' = owns \ {w} /\ line' = [line EXCEPT ![a] = Tail(@)] /\ Head(line[a]) = w
  BY DEF Lock!Release
<1>2. ASSUME NEW v \in owns \ {w}
      PROVE  line'[HomeOf(v)] # <<>> /\ Head(line'[HomeOf(v)]) = v
  <2>1. HomeOf(v) # a
    BY <1>1 DEF OwnersAtHead
  <2>2. HomeOf(v) \in Account
    BY AcctAssumption DEF TypeOK, Worker, HomeOf
  <2>3. QED BY <1>1, <2>1, <2>2 DEF OwnersAtHead, TypeOK
<1>3. QED BY <1>1, <1>2 DEF OwnersAtHead, HomeOf

LEMMA EndKeepsLock ==
    ASSUME TypeOK, LockPart, UNCHANGED syncPc, NEW t \in Tx,
           NEW how \in {"recorded", "over"}, Ends(t, how)
    PROVE  LockPart'
<1>1. /\ pc'[t] \notin LockedPhase
      /\ \A u \in Tx : u # t => pc'[u] = pc[u]
  BY DEF Ends, TypeOK, LockedPhase, MarkedPhase
<1>2. CASE Kind[t] = "lock"
  <2>1. UNCHANGED <<line, owns>>
    BY <1>2 DEF Ends, ReleaseOf, lock
  <2>2. QED BY <1>1, <2>1 DEF LockPart, OwnersAtHead, SendersOwn, SyncsOwn
<1>3. CASE Kind[t] # "lock"
  <2>1. OwnersAtHead' /\ owns' = owns \ {t}
    BY <1>3, HomeTyped, ReleaseKeepsHeads DEF Ends, ReleaseOf, LockPart
  <2>2. SendersOwn'
    BY <1>1, <2>1 DEF LockPart, SendersOwn
  <2>3. SyncsOwn'
    BY <2>1, HomeTyped DEF LockPart, SyncsOwn
  <2>4. QED BY <2>1, <2>2, <2>3 DEF LockPart
<1>4. QED BY <1>2, <1>3

LEMMA NextKeepsLock ==
    ASSUME TypeOK, LockPart, [Next]_vars
    PROVE  LockPart'
<1> USE DEF table, records, sender, syncer, network, lock
<1>q. ASSUME UNCHANGED <<owns, line>>, SendersOwn', SyncsOwn' PROVE LockPart'
  BY <1>q DEF LockPart, OwnersAtHead
<1>0. ASSUME UNCHANGED <<owns, line, pc, syncPc>> PROVE LockPart'
  BY <1>0 DEF LockPart, OwnersAtHead, SendersOwn, SyncsOwn
<1>1. ASSUME NEW t \in Tx, Sends(t) PROVE LockPart'
  <2>1. CASE Call(t)
    <3>1. /\ Kind[t] # "lock" => pc' = [pc EXCEPT ![t] = "queued"]
          /\ \A u \in Tx : u # t => pc'[u] = pc[u]
          /\ UNCHANGED syncPc
      BY <2>1 DEF Call, TypeOK
    <3>2. OwnersAtHead' /\ owns' = owns
      <4>1. CASE Kind[t] = "lock"
        BY <2>1, <4>1 DEF Call, LockPart, OwnersAtHead
      <4>2. CASE Kind[t] # "lock"
        BY <2>1, <4>2, HomeTyped, RequestKeepsHeads DEF Call, LockPart
      <4>3. QED BY <4>1, <4>2
    <3>3. SendersOwn' /\ SyncsOwn'
      BY <3>1, <3>2 DEF LockPart, SendersOwn, SyncsOwn, TypeOK, LockedPhase, MarkedPhase
    <3>4. QED BY <3>2, <3>3 DEF LockPart
  <2>2. CASE GrantedTo(t)
    <3>1. OwnersAtHead' /\ owns' = owns \cup {t}
      BY <2>2, HomeTyped, GrantKeepsHeads DEF GrantedTo, LockPart
    <3>2. QED BY <2>2, <3>1 DEF GrantedTo, LockPart, SendersOwn, SyncsOwn, TypeOK
  <2>3. CASE Refused(t) \/ MarkFails(t) \/ RollBack(t) \/ Record(t) \/ StatementFails(t)
    <3>1. UNCHANGED syncPc
      BY <2>3 DEF Refused, MarkFails, RollBack, Record, StatementFails
    <3>2. \E how \in {"recorded", "over"} : Ends(t, how)
      BY <2>3 DEF Refused, MarkFails, RollBack, Record, StatementFails
    <3>3. QED BY <3>1, <3>2, EndKeepsLock
  <2>4. CASE BuildAndMark(t) \/ Broadcast(t) \/ AnswerAccepted(t) \/ AnswerRefused(t)
    <3>1. UNCHANGED <<owns, line, syncPc>>
      BY <2>4 DEF BuildAndMark, Broadcast, AnswerAccepted, AnswerRefused
    <3>2. /\ pc[t] \in LockedPhase
          /\ \A u \in Tx : u # t => pc'[u] = pc[u]
      BY <2>4 DEF BuildAndMark, Broadcast, AnswerAccepted, AnswerRefused, TypeOK,
                  LockedPhase, MarkedPhase
    <3>3. SendersOwn' /\ SyncsOwn'
      BY <3>1, <3>2 DEF LockPart, SendersOwn, SyncsOwn
    <3>4. QED BY <1>q, <3>1, <3>3
  <2>5. QED BY <1>1, <2>1, <2>2, <2>3, <2>4 DEF Sends
<1>2. ASSUME NEW a \in Account, Syncs(a) PROVE LockPart'
  <2>a. HomeOf(a) = a
    BY DEF HomeOf
  <2>1. CASE StartSync(a)
    <3>1. OwnersAtHead' /\ owns' = owns
      BY <2>1, RequestKeepsHeads DEF StartSync, LockPart
    <3>2. QED BY <2>1, <3>1 DEF StartSync, SyncStep, LockPart, SendersOwn, SyncsOwn, TypeOK
  <2>2. CASE SyncGranted(a)
    <3>1. OwnersAtHead' /\ owns' = owns \cup {a}
      BY <2>2, <2>a, GrantKeepsHeads DEF SyncGranted, LockPart
    <3>2. QED BY <2>2, <3>1 DEF SyncGranted, SyncStep, LockPart, SendersOwn, SyncsOwn, TypeOK
  <2>3. CASE PurgePhantoms(a) \/ SyncCancelled(a)
    <3>1. OwnersAtHead' /\ owns' = owns \ {a}
      BY <2>3, <2>a, ReleaseKeepsHeads DEF PurgePhantoms, SyncCancelled, LockPart
    <3>2. UNCHANGED pc /\ syncPc' = [syncPc EXCEPT ![a] = "idle"]
      BY <2>3 DEF PurgePhantoms, SyncCancelled, SyncStep
    <3>3. SendersOwn'
      BY <3>1, <3>2, HomeTyped DEF LockPart, SendersOwn
    <3>4. SyncsOwn'
      BY <3>1, <3>2 DEF LockPart, SyncsOwn, TypeOK
    <3>5. QED BY <3>1, <3>3, <3>4 DEF LockPart
  <2>4. CASE \/ RecoverPending(a) \/ FetchListing(a) \/ ListingUnusable(a) \/ ReadRows(a)
             \/ AddressDone(a) \/ SyncHistory(a) \/ IndexerUnavailable(a) \/ ResolvePending(a)
    <3>1. UNCHANGED <<owns, line, pc>>
      BY <2>4 DEF RecoverPending, FetchListing, ListingUnusable, ReadRows, AddressDone,
                  SyncHistory, IndexerUnavailable, ResolvePending
    <3>2. /\ syncPc[a] \notin {"idle", "queued"}
          /\ \A b \in Account : b # a => syncPc'[b] = syncPc[b]
      BY <2>4 DEF RecoverPending, FetchListing, ListingUnusable, ReadRows, AddressDone,
                  SyncHistory, IndexerUnavailable, ResolvePending, SyncStep, TypeOK
    <3>3. SendersOwn' /\ SyncsOwn'
      BY <3>1, <3>2 DEF LockPart, SendersOwn, SyncsOwn
    <3>4. QED BY <1>q, <3>1, <3>3
  <2>5. CASE AddListed(a) \/ MarkMissing(a)
    BY <1>0, <2>5 DEF AddListed, MarkMissing
  <2>6. QED BY <1>2, <2>1, <2>2, <2>3, <2>4, <2>5 DEF Syncs
<1>3. ASSUME NEW t \in Tx, World(t) PROVE LockPart'
  BY <1>0, <1>3 DEF World, NetworkAccepts, NetworkRefuses, IndexerLearns, Mined, Dropped,
                    TimePasses
<1>4. ASSUME NEW o \in Outpoint, ToggleFrozen(o) PROVE LockPart'
  BY <1>0, <1>4 DEF ToggleFrozen
<1>5. CASE Crash
  BY <1>5 DEF Crash, LockPart, OwnersAtHead, SendersOwn, SyncsOwn, Final, LockedPhase,
              MarkedPhase
<1>6. CASE UNCHANGED vars
  BY <1>0, <1>6 DEF vars
<1>7. QED BY <1>1, <1>2, <1>3, <1>4, <1>5, <1>6 DEF Next

\* Of the operations of one account, one at most has taken the lock.
LEMMA OneOwnerPerAccount ==
    ASSUME LockPart, NEW t \in Tx, NEW u \in Tx, AcctOf[t] = AcctOf[u],
           Kind[t] # "lock", Kind[u] # "lock", pc[t] \in LockedPhase, pc[u] \in LockedPhase
    PROVE  t = u
BY HomeTyped, OwnersEqual DEF LockPart, SendersOwn

\* A sync past its queue and a send past its own do not share an account.
LEMMA SyncExcludesSends ==
    ASSUME LockPart, NEW a \in Account, syncPc[a] \notin {"idle", "queued"},
           NEW t \in Tx, Kind[t] # "lock", pc[t] \in LockedPhase
    PROVE  AcctOf[t] # a
<1>1. a \in owns /\ t \in owns /\ HomeOf(a) = a /\ HomeOf(t) = AcctOf[t] /\ t # a
  BY HomeTyped DEF LockPart, SendersOwn, SyncsOwn, HomeOf
<1>2. QED BY <1>1, OwnersEqual DEF LockPart

\* A spender that takes no lock does not wait for one.
LocksDoNotWait == \A t \in Tx : pc[t] = "queued" => Kind[t] # "lock"
WorkPart == OwnersWork /\ LocksDoNotWait

LEMMA NextKeepsWork ==
    ASSUME TypeOK, WorkPart, [Next]_vars
    PROVE  WorkPart'
<1> USE DEF table, records, sender, syncer, network, lock, WorkPart
<1>a. Tx \cap Account = {}
  BY NamesAssumption
<1>0. ASSUME UNCHANGED <<owns, pc, syncPc>> PROVE WorkPart'
  BY <1>0 DEF OwnersWork, LocksDoNotWait
<1>1. ASSUME NEW t \in Tx, Sends(t) PROVE WorkPart'
  <2>0. UNCHANGED syncPc /\ \A u \in Tx : u # t => pc'[u] = pc[u]
    BY <1>1 DEF Sends, Call, GrantedTo, Refused, BuildAndMark, MarkFails, Broadcast,
                AnswerAccepted, AnswerRefused, RollBack, Record, StatementFails, Ends, TypeOK
  <2>1. CASE Call(t)
    <3>1. owns' = owns /\ pc[t] = "idle"
      BY <2>1 DEF Call, Lock!Request
    <3>2. t \notin owns
      BY <1>a, <3>1 DEF OwnersWork, LockedPhase, MarkedPhase
    <3>3. pc'[t] = "queued" => Kind[t] # "lock"
      BY <2>1 DEF Call, TypeOK
    <3>4. QED BY <1>a, <2>0, <3>1, <3>2, <3>3 DEF OwnersWork, LocksDoNotWait
  <2>2. CASE GrantedTo(t)
    <3>1. owns' = owns \cup {t} /\ pc[t] = "queued" /\ pc'[t] = "ready"
      BY <2>2 DEF GrantedTo, Lock!Grant, TypeOK
    <3>2. Kind[t] # "lock"
      BY <3>1 DEF LocksDoNotWait
    <3>3. QED BY <1>a, <2>0, <3>1, <3>2 DEF OwnersWork, LocksDoNotWait, LockedPhase
  <2>3. CASE Refused(t) \/ MarkFails(t) \/ RollBack(t) \/ Record(t) \/ StatementFails(t)
    <3>1. PICK how \in {"recorded", "over"} : Ends(t, how)
      BY <2>3 DEF Refused, MarkFails, RollBack, Record, StatementFails
    <3>2. pc'[t] = how /\ ReleaseOf(t)
      BY <3>1 DEF Ends, TypeOK
    <3>3. CASE Kind[t] = "lock"
      <4>1. t \notin owns /\ owns' = owns
        BY <1>a, <3>2, <3>3 DEF ReleaseOf, OwnersWork
      <4>2. QED BY <1>a, <2>0, <3>2, <4>1 DEF OwnersWork, LocksDoNotWait
    <3>4. CASE Kind[t] # "lock"
      <4>1. owns' = owns \ {t}
        BY <3>2, <3>4 DEF ReleaseOf, Lock!Release
      <4>2. QED BY <1>a, <2>0, <3>2, <4>1 DEF OwnersWork, LocksDoNotWait
    <3>5. QED BY <3>3, <3>4
  <2>4. CASE BuildAndMark(t) \/ Broadcast(t) \/ AnswerAccepted(t) \/ AnswerRefused(t)
    <3>1. owns' = owns /\ pc'[t] \in LockedPhase
      BY <2>4 DEF BuildAndMark, Broadcast, AnswerAccepted, AnswerRefused, TypeOK,
                  LockedPhase, MarkedPhase
    <3>2. pc'[t] # "queued"
      BY <3>1 DEF LockedPhase, MarkedPhase
    <3>3. QED BY <1>a, <2>0, <3>1, <3>2 DEF OwnersWork, LocksDoNotWait
  <2>5. QED BY <1>1, <2>1, <2>2, <2>3, <2>4 DEF Sends
<1>2. ASSUME NEW a \in Account, Syncs(a) PROVE WorkPart'
  <2>0. UNCHANGED pc /\ \A b \in Account : b # a => syncPc'[b] = syncPc[b]
    BY <1>2 DEF Syncs, StartSync, SyncGranted, RecoverPending, FetchListing,
           ListingUnusable, ReadRows, AddListed, MarkMissing, AddressDone, SyncHistory,
           IndexerUnavailable, ResolvePending, PurgePhantoms, SyncCancelled, SyncStep, TypeOK
  <2>1. CASE StartSync(a)
    <3>1. owns' = owns /\ syncPc[a] = "idle"
      BY <2>1 DEF StartSync, SyncStep, Lock!Request
    <3>2. a \notin owns
      BY <1>a, <3>1 DEF OwnersWork
    <3>3. QED BY <1>a, <2>0, <3>1, <3>2 DEF OwnersWork, LocksDoNotWait
  <2>2. CASE SyncGranted(a)
    <3>1. owns' = owns \cup {a} /\ syncPc'[a] = "recover"
      BY <2>2 DEF SyncGranted, SyncStep, Lock!Grant, TypeOK
    <3>2. QED BY <1>a, <2>0, <3>1 DEF OwnersWork, LocksDoNotWait
  <2>3. CASE PurgePhantoms(a) \/ SyncCancelled(a)
    <3>1. owns' = owns \ {a}
      BY <2>3 DEF PurgePhantoms, SyncCancelled, Lock!Release
    <3>2. QED BY <1>a, <2>0, <3>1 DEF OwnersWork, LocksDoNotWait
  <2>4. CASE \/ RecoverPending(a) \/ FetchListing(a) \/ ListingUnusable(a) \/ ReadRows(a)
             \/ AddressDone(a) \/ SyncHistory(a) \/ IndexerUnavailable(a) \/ ResolvePending(a)
    <3>1. owns' = owns /\ syncPc'[a] \notin {"idle", "queued"}
      BY <2>4 DEF RecoverPending, FetchListing, ListingUnusable, ReadRows, AddressDone,
                  SyncHistory, IndexerUnavailable, ResolvePending, SyncStep, TypeOK
    <3>2. QED BY <1>a, <2>0, <3>1 DEF OwnersWork, LocksDoNotWait
  <2>5. CASE AddListed(a) \/ MarkMissing(a)
    BY <1>0, <2>5 DEF AddListed, MarkMissing
  <2>6. QED BY <1>2, <2>1, <2>2, <2>3, <2>4, <2>5 DEF Syncs
<1>3. ASSUME NEW t \in Tx, World(t) PROVE WorkPart'
  BY <1>0, <1>3 DEF World, NetworkAccepts, NetworkRefuses, IndexerLearns, Mined, Dropped,
                    TimePasses
<1>4. ASSUME NEW o \in Outpoint, ToggleFrozen(o) PROVE WorkPart'
  BY <1>0, <1>4 DEF ToggleFrozen
<1>5. CASE Crash
  BY <1>5 DEF Crash, OwnersWork, LocksDoNotWait, Final
<1>6. CASE UNCHANGED vars
  BY <1>0, <1>6 DEF vars
<1>7. QED BY <1>1, <1>2, <1>3, <1>4, <1>5, <1>6 DEF Next

LEMMA InitLock == Init => LockPart /\ WorkPart
BY DEF Init, Lock!Init, LockPart, OwnersAtHead, SendersOwn, SyncsOwn, LockedPhase,
       MarkedPhase, WorkPart, OwnersWork, LocksDoNotWait

\* Whoever works owns the lock, stands at the head of the line, and is alone there.
LEMMA WorkersOwn ==
    ASSUME TypeOK, LockPart, WorkPart
    PROVE  LockHeldByWork
<1>1. ASSUME NEW a \in Account, NEW w \in AtWork(a)
      PROVE  w \in owns /\ HomeOf(w) = a
  <2>1. CASE w \in Tx /\ AcctOf[w] = a /\ Kind[w] # "lock" /\ pc[w] \in LockedPhase
    BY <2>1, HomeTyped DEF LockPart, SendersOwn
  <2>2. CASE w = a /\ syncPc[a] \notin {"idle", "queued"}
    BY <2>2 DEF LockPart, SyncsOwn, HomeOf
  <2>3. QED BY <1>1, <2>1, <2>2 DEF AtWork
<1>2. ASSUME NEW w \in owns PROVE HomeOf(w) \in Account /\ w \in AtWork(HomeOf(w))
  <2>1. CASE w \in Account /\ syncPc[w] \notin {"idle", "queued"}
    BY <2>1 DEF AtWork, HomeOf
  <2>2. CASE w \in Tx /\ Kind[w] # "lock" /\ pc[w] \in LockedPhase
    BY <2>2, HomeTyped DEF AtWork
  <2>3. QED BY <2>1, <2>2 DEF WorkPart, OwnersWork
<1>3. ASSUME NEW a \in Account, NEW v \in AtWork(a), NEW w \in AtWork(a) PROVE v = w
  BY <1>1, OwnersEqual DEF LockPart
<1>4. owns = UNION {AtWork(a) : a \in Account}
  BY <1>1, <1>2
<1>5. QED BY <1>3, <1>4 DEF LockHeldByWork

(* For any accounts, coins and operations, lockBSVs among them, and         *)
(* whatever fails, is cancelled or restarted: at most one operation of an   *)
(* account works under its lock, and no lock is held by nobody.             *)
THEOREM LedgerLockHeld == Spec => []LockHeldByWork
<1>1. Init => TypeOK /\ LockPart /\ WorkPart
  BY InitTyped, InitLock
<1>2. TypeOK /\ LockPart /\ WorkPart /\ [Next]_vars => (TypeOK /\ LockPart /\ WorkPart)'
  BY NextTyped, NextKeepsLock, NextKeepsWork
<1>3. TypeOK /\ LockPart /\ WorkPart => LockHeldByWork
  BY WorkersOwn
<1>4. QED BY <1>1, <1>2, <1>3, PTL DEF Spec

-----------------------------------------------------------------------------
(* The marks.                                                               *)
(*                                                                          *)
(* A mark is put on a row by the operation that is about to broadcast, and  *)
(* the ways out of its marked phases that leave one are those the property  *)
(* names.                                                                   *)

MayMark(t) == \/ pc[t] \in MarkedPhase
              \/ pc[t] = "over" /\ (Fails \/ crashes > 0)
              \/ pc[t] = "recorded" /\ Fails /\ Kind[t] = "lock"

\* A step that marks nothing keeps the marks with their operations if no operation
\* leaves its marked phases with a row still marked.
LEMMA MarksStay ==
    ASSUME TypeOK, MarksHaveOperations,
           \A o \in Outpoint : status'[o] = "pending" =>
               status[o] = "pending" /\ pendingBy'[o] = pendingBy[o],
           \A t \in Tx : MayMark(t) => inputs'[t] = inputs[t],
           \A t \in Tx : MayMark(t) /\ ~ MayMark(t)' => \A o \in inputs[t] : status'[o] # "pending"
    PROVE  MarksHaveOperations'
<1> SUFFICES ASSUME NEW o \in Outpoint, status'[o] = "pending"
             PROVE  \E t \in Tx : pendingBy'[o] = t /\ o \in inputs'[t] /\ MayMark(t)'
  BY DEF MarksHaveOperations, MayMark
<1>1. PICK t \in Tx : pendingBy[o] = t /\ o \in inputs[t] /\ MayMark(t)
  BY DEF MarksHaveOperations, MayMark
<1>2. QED BY <1>1

\* A sync marks no row.
LEMMA SyncMarksNothing ==
    ASSUME TypeOK, NEW a \in Account, Syncs(a), NEW o \in Outpoint, status'[o] = "pending"
    PROVE  status[o] = "pending" /\ pendingBy'[o] = pendingBy[o]
<1>1. CASE RecoverPending(a)
  BY <1>1 DEF RecoverPending, RollbackPending, SetStatus
<1>2. CASE AddListed(a)
  BY <1>2 DEF AddListed, AddRow, table, TypeOK
<1>3. CASE MarkMissing(a)
  BY <1>3 DEF MarkMissing, TypeOK
<1>4. CASE ResolvePending(a)
  BY <1>4 DEF ResolvePending
<1>5. CASE \/ StartSync(a) \/ SyncGranted(a) \/ FetchListing(a) \/ ListingUnusable(a)
           \/ ReadRows(a) \/ AddressDone(a) \/ SyncHistory(a) \/ IndexerUnavailable(a)
           \/ PurgePhantoms(a) \/ SyncCancelled(a)
  BY <1>5 DEF StartSync, SyncGranted, FetchListing, ListingUnusable, ReadRows,
         AddressDone, SyncHistory, IndexerUnavailable, PurgePhantoms, SyncCancelled, table
<1>6. QED BY <1>1, <1>2, <1>3, <1>4, <1>5 DEF Syncs

\* The rows that BuildAndMark, or the part of it that succeeds, marks are inputs.
LEMMA MarkingMarksInputs ==
    ASSUME TypeOK, MarksHaveOperations, NEW t \in Tx, pc[t] = "ready",
           NEW S, NEW P \in SUBSET S, inputs' = [inputs EXCEPT ![t] = S], MarkPending(P, t),
           \A u \in Tx : u # t => pc'[u] = pc[u], crashes' = crashes, MayMark(t)'
    PROVE  MarksHaveOperations'
<1> SUFFICES ASSUME NEW o \in Outpoint, status'[o] = "pending"
             PROVE  \E u \in Tx : pendingBy'[o] = u /\ o \in inputs'[u] /\ MayMark(u)'
  BY DEF MarksHaveOperations, MayMark
<1>1. CASE o \in P /\ status[o] = "unspent"
  <2>1. pendingBy'[o] = t /\ o \in inputs'[t]
    BY <1>1 DEF MarkPending, SetStatus, TypeOK
  <2>2. QED BY <2>1
<1>2. CASE ~ (o \in P /\ status[o] = "unspent")
  <2>1. status[o] = "pending" /\ pendingBy'[o] = pendingBy[o]
    BY <1>2 DEF MarkPending, SetStatus
  <2>2. PICK u \in Tx : pendingBy[o] = u /\ o \in inputs[u] /\ MayMark(u)
    BY <2>1 DEF MarksHaveOperations, MayMark
  <2>3. u # t
    BY <2>2 DEF MayMark, MarkedPhase
  <2>4. inputs'[u] = inputs[u] /\ MayMark(u)'
    BY <2>2, <2>3 DEF MayMark, TypeOK
  <2>5. QED BY <2>1, <2>2, <2>4
<1>3. QED BY <1>1, <1>2

LEMMA NextKeepsMarks ==
    ASSUME TypeOK, MarksHaveOperations, [Next]_vars
    PROVE  MarksHaveOperations'
<1> USE DEF table, records, sender, syncer, network, lock
<1>0. ASSUME UNCHANGED <<status, pendingBy, inputs, pc, crashes>> PROVE MarksHaveOperations'
  BY <1>0 DEF MarksHaveOperations
<1>1. ASSUME NEW t \in Tx, Sends(t) PROVE MarksHaveOperations'
  <2>0. crashes' = crashes /\ \A u \in Tx : u # t => pc'[u] = pc[u]
    BY <1>1 DEF Sends, Call, GrantedTo, Refused, BuildAndMark, MarkFails, Broadcast,
                AnswerAccepted, AnswerRefused, RollBack, Record, StatementFails, Ends, TypeOK
  <2>a. \A u \in Tx : u # t => MayMark(u)' = MayMark(u)
    BY <2>0 DEF MayMark
  <2>1. CASE BuildAndMark(t)
    <3>1. PICK S : inputs' = [inputs EXCEPT ![t] = S] /\ MarkPending(S, t)
      BY <2>1 DEF BuildAndMark
    <3>2. pc[t] = "ready" /\ MayMark(t)'
      BY <2>1 DEF BuildAndMark, MayMark, MarkedPhase, TypeOK
    <3>3. QED BY <2>0, <3>1, <3>2, MarkingMarksInputs
  <2>2. CASE MarkFails(t)
    <3>1. PICK S : /\ inputs' = [inputs EXCEPT ![t] = S]
                   /\ \E P \in SUBSET S : MarkPending(P, t)
      BY <2>2 DEF MarkFails
    <3>2. pc[t] = "ready" /\ MayMark(t)'
      BY <2>2 DEF MarkFails, Ends, MayMark, TypeOK
    <3>3. QED BY <2>0, <3>1, <3>2, MarkingMarksInputs
  <2>3. CASE RollBack(t) \/ Record(t)
    <3>1. UNCHANGED inputs
      BY <2>3 DEF RollBack, Record
    <3>2. \A o \in Outpoint : status'[o] = "pending" =>
             status[o] = "pending" /\ pendingBy'[o] = pendingBy[o]
      <4>1. CASE RollBack(t)
        BY <4>1 DEF RollBack, RollbackPending, SetStatus
      <4>2. CASE Record(t)
        <5>1. PICK S \in SUBSET inputs[t], C \in SUBSET ({t} \cap Outpoint) : SpendAndAdd(S, C)
          BY <4>2 DEF Record, SpendAndAddChange
        <5>2. QED BY <5>1 DEF SpendAndAdd
      <4>3. QED BY <2>3, <4>1, <4>2
    <3>3. MayMark(t)' \/ \A o \in inputs[t] : status'[o] # "pending"
      <4>1. inputs[t] \subseteq Outpoint
        BY DEF TypeOK
      <4>2. CASE RollBack(t)
        BY <4>1, <4>2 DEF RollBack, RollbackPending, SetStatus
      <4>3. CASE Record(t) /\ SpendAndAddChange(t)
        BY <4>1, <4>3 DEF SpendAndAddChange, SpendAndAdd
      <4>4. CASE Record(t) /\ Fails /\ Kind[t] = "lock"
        BY <4>4 DEF Record, Ends, MayMark, TypeOK
      <4>5. QED BY <2>3, <4>2, <4>3, <4>4 DEF Record
    <3>4. QED BY <2>a, <3>1, <3>2, <3>3, MarksStay
  <2>4. CASE StatementFails(t)
    <3>1. MayMark(t)' /\ UNCHANGED <<status, pendingBy, inputs>>
      BY <2>4 DEF StatementFails, Ends, MayMark, TypeOK
    <3>2. QED BY <2>a, <3>1, MarksStay
  <2>5. CASE \/ Call(t) \/ GrantedTo(t) \/ Refused(t) \/ Broadcast(t) \/ AnswerAccepted(t)
             \/ AnswerRefused(t)
    <3>1. UNCHANGED <<status, pendingBy, inputs>>
      BY <2>5 DEF Call, GrantedTo, Refused, Broadcast, AnswerAccepted, AnswerRefused
    <3>2. pc[t] \in {"idle", "queued", "ready"} \/ pc'[t] \in MarkedPhase
      BY <2>5 DEF Call, GrantedTo, Refused, Broadcast, AnswerAccepted, AnswerRefused,
                  MarkedPhase, TypeOK
    <3>3. MayMark(t) => MayMark(t)'
      BY <3>2 DEF MayMark, MarkedPhase
    <3>4. QED BY <2>a, <3>1, <3>3, MarksStay
  <2>6. QED BY <1>1, <2>1, <2>2, <2>3, <2>4, <2>5 DEF Sends
<1>2. ASSUME NEW a \in Account, Syncs(a) PROVE MarksHaveOperations'
  <2>1. UNCHANGED <<inputs, pc, crashes>>
    BY <1>2 DEF Syncs, StartSync, SyncGranted, RecoverPending, FetchListing, ListingUnusable,
           ReadRows, AddListed, MarkMissing, AddressDone, SyncHistory, IndexerUnavailable,
           ResolvePending, PurgePhantoms, SyncCancelled
  <2>2. \A t \in Tx : MayMark(t)' = MayMark(t)
    BY <2>1 DEF MayMark
  <2>3. QED BY <1>2, <2>1, <2>2, MarksStay, SyncMarksNothing
<1>3. ASSUME NEW t \in Tx, World(t) PROVE MarksHaveOperations'
  BY <1>0, <1>3 DEF World, NetworkAccepts, NetworkRefuses, IndexerLearns, Mined, Dropped,
                    TimePasses
<1>4. ASSUME NEW o \in Outpoint, ToggleFrozen(o) PROVE MarksHaveOperations'
  BY <1>0, <1>4 DEF ToggleFrozen
<1>5. CASE Crash
  <2>1. crashes' > 0
    BY <1>5 DEF Crash, TypeOK
  <2>2. \A t \in Tx : MayMark(t) => MayMark(t)'
    BY <1>5, <2>1 DEF Crash, MayMark, MarkedPhase, Final
  <2>3. QED BY <1>5, <2>2, MarksStay DEF Crash
<1>6. CASE UNCHANGED vars
  BY <1>0, <1>6 DEF vars
<1>7. QED BY <1>1, <1>2, <1>3, <1>4, <1>5, <1>6 DEF Next

LEMMA InitMarks == Init => MarksHaveOperations
BY DEF Init, MarksHaveOperations

(* For any accounts, coins and operations, whatever interleaves and fails:  *)
(* an output is marked only for an operation that spends it and is under    *)
(* way, or that a restart or a failed statement cut short.                  *)
THEOREM LedgerMarksOwned == Spec => []MarksHaveOperations
<1>1. TypeOK /\ MarksHaveOperations /\ [Next]_vars => (TypeOK /\ MarksHaveOperations)'
  BY NextTyped, NextKeepsMarks
<1>2. QED BY <1>1, InitTyped, InitMarks, PTL DEF Spec

-----------------------------------------------------------------------------
(* The inputs of a send in flight.                                          *)
(*                                                                          *)
(* InFlightInputsReserved is not inductive: it rests on the lock (a sync of *)
(* the account cannot run), on the accounts being disjoint (a sync of       *)
(* another account does not touch its rows, except to recover old marks),   *)
(* and on every mark on an input being the sender's own and fresh, which a  *)
(* stale list of candidates could spoil.                                    *)

\* No lockBSV: every operation takes the lock of its account.
NoLocks == \A t \in Tx : Kind[t] # "lock"

\* Every operation takes the lock of its account, none lasts five minutes and no
\* statement fails; and either candidates come from the table, or no restart leaves
\* marks behind on which a list of the indexer is silent.
ReservedWorld == /\ NoLocks
                 /\ Adversity \cap {"sleep", "fault"} = {}
                 /\ (\A t \in Tx : Kind[t] = "send") \/ MaxCrashes = 0

InFlightPhase == {"marked", "sent", "accepted"}

RowsOf(a) == {o \in Outpoint : AcctOf[o] = a}

RowsApart == /\ \A t \in Tx : have[t] \subseteq RowsOf(AcctOf[t])
             /\ \A t \in Tx : inputs[t] \subseteq RowsOf(AcctOf[t])
             /\ \A a \in Account : snap[a] \subseteq RowsOf(a)
MarksFresh == \A t \in Tx : pc[t] \in InFlightPhase => age[t] = 0
MarksOwned == \A t \in Tx : pc[t] \in InFlightPhase =>
                 \A o \in inputs[t] : status[o] = "pending" => pendingBy[o] = t
CandidatesFree == \A t \in Tx : \A o \in have[t] : status[o] = "pending" =>
                     /\ pendingBy[o] \in Tx
                     /\ pc[pendingBy[o]] \in MarkedPhase
                     /\ o \in inputs[pendingBy[o]]

RowPart == MarksOwned /\ CandidatesFree /\ InFlightInputsReserved
ReservationInv == /\ TypeOK /\ LockPart /\ MarksHaveOperations
                  /\ RowsApart /\ MarksFresh /\ RowPart

LEMMA NextKeepsRowsApart ==
    ASSUME TypeOK, RowsApart, [Next]_vars
    PROVE  RowsApart'
<1> USE DEF table, records, sender, syncer, network, lock
<1>0. ASSUME UNCHANGED <<have, inputs, snap>> PROVE RowsApart'
  BY <1>0 DEF RowsApart
<1>1. ASSUME NEW t \in Tx, Sends(t) PROVE RowsApart'
  <2>1. CASE Call(t)
    <3>1. /\ Candidates(AcctOf[t]) \subseteq RowsOf(AcctOf[t])
          /\ Listing(AcctOf[t]) \subseteq RowsOf(AcctOf[t])
      BY DEF Candidates, SpendableRows, Listing, UnspentAfter, RowsOf, TypeOK
    <3>2. QED BY <2>1, <3>1 DEF Call, RowsApart, TypeOK
  <2>2. CASE BuildAndMark(t) \/ MarkFails(t)
    <3>1. PICK S \in SUBSET have[t] : inputs' = [inputs EXCEPT ![t] = S]
      BY <2>2 DEF BuildAndMark, MarkFails
    <3>2. have' = [have EXCEPT ![t] = {}] /\ snap' = snap
      BY <2>2 DEF BuildAndMark, MarkFails
    <3>3. QED BY <3>1, <3>2 DEF RowsApart, TypeOK
  <2>3. CASE Refused(t)
    BY <2>3 DEF Refused, RowsApart, TypeOK
  <2>4. CASE \/ GrantedTo(t) \/ Broadcast(t) \/ AnswerAccepted(t) \/ AnswerRefused(t)
             \/ RollBack(t) \/ Record(t) \/ StatementFails(t)
    BY <1>0, <2>4 DEF GrantedTo, Broadcast, AnswerAccepted, AnswerRefused, RollBack,
                      Record, StatementFails
  <2>5. QED BY <1>1, <2>1, <2>2, <2>3, <2>4 DEF Sends
<1>2. ASSUME NEW a \in Account, Syncs(a) PROVE RowsApart'
  <2>1. CASE FetchListing(a)
    <3>1. Listing(a) \subseteq RowsOf(a)
      BY DEF Listing, UnspentAfter, RowsOf
    <3>2. QED BY <2>1, <3>1 DEF FetchListing, RowsApart, TypeOK
  <2>2. CASE AddressDone(a)
    BY <2>2 DEF AddressDone, RowsApart, TypeOK
  <2>3. CASE ~ (FetchListing(a) \/ AddressDone(a))
    BY <1>0, <1>2, <2>3 DEF Syncs, StartSync, SyncGranted, RecoverPending, ListingUnusable,
             ReadRows, AddListed, MarkMissing, SyncHistory, IndexerUnavailable,
             ResolvePending, PurgePhantoms, SyncCancelled
  <2>4. QED BY <2>1, <2>2, <2>3
<1>3. ASSUME NEW t \in Tx, World(t) PROVE RowsApart'
  BY <1>0, <1>3 DEF World, NetworkAccepts, NetworkRefuses, IndexerLearns, Mined, Dropped,
                    TimePasses
<1>4. ASSUME NEW o \in Outpoint, ToggleFrozen(o) PROVE RowsApart'
  BY <1>0, <1>4 DEF ToggleFrozen
<1>5. CASE Crash
  BY <1>5 DEF Crash, RowsApart
<1>6. CASE UNCHANGED vars
  BY <1>0, <1>6 DEF vars
<1>7. QED BY <1>1, <1>2, <1>3, <1>4, <1>5, <1>6 DEF Next

LEMMA NextKeepsMarksFresh ==
    ASSUME ReservedWorld, TypeOK, MarksFresh, [Next]_vars
    PROVE  MarksFresh'
<1> USE DEF table, records, sender, syncer, network, lock
<1>0. ASSUME UNCHANGED <<pc, age>> PROVE MarksFresh'
  BY <1>0 DEF MarksFresh
<1>1. ASSUME NEW t \in Tx, Sends(t) PROVE MarksFresh'
  <2>1. CASE BuildAndMark(t)
    BY <2>1 DEF BuildAndMark, MarksFresh, TypeOK
  <2>2. CASE Broadcast(t) \/ AnswerAccepted(t)
    BY <2>2 DEF Broadcast, AnswerAccepted, MarksFresh, TypeOK, InFlightPhase
  <2>3. CASE Refused(t) \/ MarkFails(t) \/ RollBack(t) \/ Record(t) \/ StatementFails(t)
    <3>1. \E how \in {"recorded", "over"} : Ends(t, how)
      BY <2>3 DEF Refused, MarkFails, RollBack, Record, StatementFails
    <3>2. pc'[t] \notin InFlightPhase /\ \A u \in Tx : u # t => pc'[u] = pc[u]
      BY <3>1 DEF Ends, TypeOK, InFlightPhase
    <3>3. \A u \in Tx : u # t => age'[u] = age[u]
      BY <2>3 DEF Refused, MarkFails, RollBack, Record, StatementFails, TypeOK
    <3>4. QED BY <3>2, <3>3 DEF MarksFresh
  <2>4. CASE Call(t) \/ GrantedTo(t) \/ AnswerRefused(t)
    <3>1. UNCHANGED age
      BY <2>4 DEF Call, GrantedTo, AnswerRefused
    <3>2. pc'[t] \notin InFlightPhase /\ \A u \in Tx : u # t => pc'[u] = pc[u]
      BY <2>4 DEF Call, GrantedTo, AnswerRefused, TypeOK, InFlightPhase
    <3>3. QED BY <3>1, <3>2 DEF MarksFresh
  <2>5. QED BY <1>1, <2>1, <2>2, <2>3, <2>4 DEF Sends
<1>2. ASSUME NEW a \in Account, Syncs(a) PROVE MarksFresh'
  <2>1. CASE SyncHistory(a)
    BY <2>1 DEF SyncHistory, MarksFresh, TypeOK
  <2>2. CASE ~ SyncHistory(a)
    BY <1>0, <1>2, <2>2 DEF Syncs, StartSync, SyncGranted, RecoverPending, FetchListing,
             ListingUnusable, ReadRows, AddListed, MarkMissing, AddressDone,
             IndexerUnavailable, ResolvePending, PurgePhantoms, SyncCancelled
  <2>3. QED BY <2>1, <2>2
<1>3. ASSUME NEW t \in Tx, World(t) PROVE MarksFresh'
  <2>1. CASE TimePasses(t)
    <3>1. pc[t] \notin InFlightPhase
      BY <2>1 DEF TimePasses, InFlight, ReservedWorld, InFlightPhase
    <3>2. QED BY <2>1, <3>1 DEF TimePasses, MarksFresh, TypeOK
  <2>2. CASE ~ TimePasses(t)
    BY <1>0, <1>3, <2>2 DEF World, NetworkAccepts, NetworkRefuses, IndexerLearns, Mined,
                            Dropped
  <2>3. QED BY <2>1, <2>2
<1>4. ASSUME NEW o \in Outpoint, ToggleFrozen(o) PROVE MarksFresh'
  BY <1>0, <1>4 DEF ToggleFrozen
<1>5. CASE Crash
  BY <1>5 DEF Crash, MarksFresh, Final, InFlightPhase
<1>6. CASE UNCHANGED vars
  BY <1>0, <1>6 DEF vars
<1>7. QED BY <1>1, <1>2, <1>3, <1>4, <1>5, <1>6 DEF Next

\* Two sends with a common input belong to one account.
LEMMA SharedRowsShareAccount ==
    ASSUME TypeOK, RowsApart, NEW t \in Tx, NEW u \in Tx,
           NEW o \in inputs[t], o \in inputs[u] \/ o \in have[u]
    PROVE  AcctOf[t] = AcctOf[u] /\ AcctOf[o] = AcctOf[t] /\ o \in Outpoint
BY DEF RowsApart, RowsOf, TypeOK

(* A step that marks nothing keeps the rows reserved if it leaves alone the *)
(* rows of sends in flight, and lifts the marks of a send that gives up.    *)
LEMMA NoNewMark ==
    ASSUME TypeOK, RowPart, UNCHANGED inputs,
           \A t \in Tx : have'[t] \subseteq have[t] \/ \A o \in have'[t] : status'[o] # "pending",
           \A o \in Outpoint : status'[o] = "pending" =>
               status[o] = "pending" /\ pendingBy'[o] = pendingBy[o],
           \A t \in Tx : pc'[t] \in InFlightPhase =>
               /\ pc[t] \in InFlightPhase
               /\ \A o \in inputs[t] : status'[o] = "unspent" => status[o] = "unspent",
           \A t \in Tx : pc[t] \in MarkedPhase /\ pc'[t] \notin MarkedPhase =>
               \/ \A o \in inputs[t] : status'[o] # "pending"
               \/ \A u \in Tx : have'[u] = {}
    PROVE  RowPart'
<1>1. \A t \in Tx : inputs[t] \subseteq Outpoint /\ have[t] \subseteq Outpoint
  BY DEF TypeOK
<1>2. MarksOwned'
  BY <1>1 DEF RowPart, MarksOwned
<1>3. CandidatesFree'
  <2> SUFFICES ASSUME NEW t \in Tx, NEW o \in have'[t], status'[o] = "pending"
               PROVE  /\ pendingBy'[o] \in Tx
                      /\ pc'[pendingBy'[o]] \in MarkedPhase
                      /\ o \in inputs'[pendingBy'[o]]
    BY DEF CandidatesFree
  <2>1. o \in have[t] /\ o \in Outpoint
    BY <1>1
  <2>2. status[o] = "pending" /\ pendingBy'[o] = pendingBy[o]
    BY <2>1
  <2>3. /\ pendingBy[o] \in Tx
        /\ pc[pendingBy[o]] \in MarkedPhase
        /\ o \in inputs[pendingBy[o]]
    BY <2>1, <2>2 DEF RowPart, CandidatesFree
  <2>4. pc'[pendingBy[o]] \in MarkedPhase
    BY <2>3
  <2>5. QED BY <2>2, <2>3, <2>4
<1>4. InFlightInputsReserved'
  BY <1>1 DEF RowPart, InFlightInputsReserved, InFlightPhase
<1>5. QED BY <1>2, <1>3, <1>4 DEF RowPart

LEMMA BuildKeepsRowPart ==
    ASSUME NoLocks, TypeOK, LockPart, RowsApart, RowPart, NEW t \in Tx, BuildAndMark(t)
    PROVE  RowPart'
<1>1. PICK S \in SUBSET have[t] \ {{}} : /\ inputs' = [inputs EXCEPT ![t] = S]
                                       /\ MarkPending(S, t)
  BY DEF BuildAndMark
<1>2. /\ pc[t] = "ready" /\ pc' = [pc EXCEPT ![t] = "marked"]
      /\ have' = [have EXCEPT ![t] = {}]
  BY DEF BuildAndMark
<1>3. /\ S \subseteq have[t] /\ have[t] \subseteq Outpoint
      /\ \A u \in Tx : inputs[u] \subseteq Outpoint /\ have[u] \subseteq Outpoint
  BY <1>1 DEF TypeOK
<1>4. \A o \in S : status[o] # "pending"
  <2> SUFFICES ASSUME NEW o \in S, status[o] = "pending" PROVE FALSE
    OBVIOUS
  <2>1. PICK u \in Tx : pc[u] \in MarkedPhase /\ o \in inputs[u]
    BY <1>3 DEF RowPart, CandidatesFree
  <2>2. AcctOf[u] = AcctOf[t]
    BY <1>3, <2>1, SharedRowsShareAccount
  <2>3. u = t
    BY <1>2, <2>1, <2>2, OneOwnerPerAccount DEF NoLocks, LockedPhase
  <2>4. QED BY <1>2, <2>1, <2>3 DEF MarkedPhase, InFlightPhase
<1>5. \A o \in Outpoint :
         /\ o \in S /\ status[o] = "unspent" => status'[o] = "pending" /\ pendingBy'[o] = t
         /\ ~ (o \in S /\ status[o] = "unspent") =>
               status'[o] = status[o] /\ pendingBy'[o] = pendingBy[o]
  BY <1>1, <1>3 DEF MarkPending, SetStatus
<1>6. MarksOwned'
  <2> SUFFICES ASSUME NEW u \in Tx, pc'[u] \in InFlightPhase,
                      NEW o \in inputs'[u], status'[o] = "pending"
               PROVE  pendingBy'[o] = u
    BY DEF MarksOwned
  <2>1. CASE u = t
    BY <1>1, <1>3, <1>4, <1>5, <2>1 DEF TypeOK
  <2>2. CASE u # t
    <3>1. pc[u] \in InFlightPhase /\ o \in inputs[u] /\ o \in Outpoint
      BY <1>1, <1>2, <1>3, <2>2 DEF TypeOK
    <3>2. o \notin S
      <4> SUFFICES ASSUME o \in S PROVE FALSE
        OBVIOUS
      <4>1. AcctOf[u] = AcctOf[t]
        BY <1>3, <3>1, SharedRowsShareAccount
      <4>2. QED BY <1>2, <2>2, <3>1, <4>1, OneOwnerPerAccount
                DEF NoLocks, LockedPhase, MarkedPhase, InFlightPhase
    <3>3. QED BY <1>5, <3>1, <3>2 DEF RowPart, MarksOwned
  <2>3. QED BY <2>1, <2>2
<1>7. CandidatesFree'
  <2> SUFFICES ASSUME NEW u \in Tx, NEW o \in have'[u], status'[o] = "pending"
               PROVE  /\ pendingBy'[o] \in Tx
                      /\ pc'[pendingBy'[o]] \in MarkedPhase
                      /\ o \in inputs'[pendingBy'[o]]
    BY DEF CandidatesFree
  <2>1. o \in have[u] /\ o \in Outpoint
    BY <1>2, <1>3 DEF TypeOK
  <2>2. CASE o \in S /\ status[o] = "unspent"
    BY <1>1, <1>2, <1>5, <2>1, <2>2 DEF TypeOK, MarkedPhase, InFlightPhase
  <2>3. CASE ~ (o \in S /\ status[o] = "unspent")
    <3>1. status[o] = "pending" /\ pendingBy'[o] = pendingBy[o]
      BY <1>5, <2>1, <2>3
    <3>2. /\ pendingBy[o] \in Tx
          /\ pc[pendingBy[o]] \in MarkedPhase
          /\ o \in inputs[pendingBy[o]]
      BY <2>1, <3>1 DEF RowPart, CandidatesFree
    <3>3. pendingBy[o] # t
      BY <1>2, <3>2 DEF MarkedPhase, InFlightPhase
    <3>4. QED BY <1>1, <1>2, <3>1, <3>2, <3>3 DEF TypeOK
  <2>4. QED BY <2>2, <2>3
<1>8. InFlightInputsReserved'
  <2> SUFFICES ASSUME NEW u \in Tx, pc'[u] \in InFlightPhase, NEW o \in inputs'[u]
               PROVE  status'[o] # "unspent"
    BY DEF InFlightInputsReserved, InFlightPhase
  <2>1. CASE u = t
    BY <1>1, <1>3, <1>5, <2>1 DEF TypeOK
  <2>2. CASE u # t
    <3>1. pc[u] \in InFlightPhase /\ o \in inputs[u] /\ o \in Outpoint
      BY <1>1, <1>2, <1>3, <2>2 DEF TypeOK
    <3>2. status[o] # "unspent"
      BY <3>1 DEF RowPart, InFlightInputsReserved, InFlightPhase
    <3>3. QED BY <1>5, <3>1, <3>2
  <2>3. QED BY <2>1, <2>2
<1>9. QED BY <1>6, <1>7, <1>8 DEF RowPart

\* The rollback and the record change the rows of the transaction, and of no other.
LEMMA EndKeepsRowPart ==
    ASSUME ReservedWorld, TypeOK, LockPart, RowsApart, RowPart, NEW t \in Tx,
           RollBack(t) \/ Record(t)
    PROVE  RowPart'
<1>1. UNCHANGED <<have, inputs>>
  BY DEF RollBack, Record
<1>2. /\ pc[t] \in LockedPhase /\ pc'[t] \notin MarkedPhase
      /\ \A u \in Tx : u # t => pc'[u] = pc[u]
  BY DEF RollBack, Record, Ends, TypeOK, LockedPhase, MarkedPhase, InFlightPhase
<1>3. \A o \in Outpoint :
         /\ status'[o] = "pending" => status[o] = "pending" /\ pendingBy'[o] = pendingBy[o]
         /\ o \in inputs[t] => status'[o] # "pending"
         /\ o \notin inputs[t] /\ o # t => status'[o] = status[o]
  <2>1. RollBack(t) \/ SpendAndAddChange(t)
    BY DEF Record, ReservedWorld, Fails
  <2>2. QED BY <2>1 DEF RollBack, RollbackPending, SetStatus, SpendAndAddChange, SpendAndAdd
<1>4. ASSUME NEW u \in Tx, pc'[u] \in InFlightPhase, NEW o \in inputs[u]
      PROVE  status'[o] = status[o]
  <2>1. u # t /\ pc[u] \in LockedPhase
    BY <1>2, <1>4 DEF LockedPhase, MarkedPhase, InFlightPhase
  <2>2. AcctOf[u] # AcctOf[t]
    BY <1>2, <2>1, OneOwnerPerAccount DEF ReservedWorld, NoLocks
  <2>3. o \in Outpoint /\ AcctOf[o] = AcctOf[u]
    BY <1>4 DEF RowsApart, RowsOf
  <2>4. o \notin inputs[t] /\ o # t
    BY <2>2, <2>3 DEF RowsApart, RowsOf
  <2>5. QED BY <1>3, <2>3, <2>4
<1>5. \A u \in Tx : inputs[u] \subseteq Outpoint
  BY DEF TypeOK
<1>6. \A u \in Tx : pc'[u] \in InFlightPhase => pc[u] \in InFlightPhase
  BY <1>2 DEF MarkedPhase, InFlightPhase
<1>7. QED BY <1>1, <1>2, <1>3, <1>4, <1>5, <1>6, NoNewMark

\* A sync changes the rows of its account, and lifts no fresh mark.
LEMMA SyncKeepsRowPart ==
    ASSUME ReservedWorld, TypeOK, LockPart, RowsApart, MarksFresh, RowPart,
           NEW a \in Account, Syncs(a)
    PROVE  RowPart'
<1>1. UNCHANGED <<pc, have, inputs>>
  BY DEF Syncs, StartSync, SyncGranted, RecoverPending, FetchListing, ListingUnusable,
         ReadRows, AddListed, MarkMissing, AddressDone, SyncHistory, IndexerUnavailable,
         ResolvePending, PurgePhantoms, SyncCancelled, sender
<1>2. /\ \A o \in Outpoint : status'[o] = "pending" =>
                              status[o] = "pending" /\ pendingBy'[o] = pendingBy[o]
      /\ \A t \in Tx : pc[t] \in InFlightPhase =>
            \A o \in inputs[t] : status'[o] = "unspent" => status[o] = "unspent"
  <2>1. CASE RecoverPending(a)
    <3>1. RollbackPending(OldMarks)
      BY <2>1 DEF RecoverPending, Fails, ReservedWorld
    <3>2. \A o \in Outpoint :
             \/ status'[o] = status[o] /\ pendingBy'[o] = pendingBy[o]
             \/ /\ status[o] = "pending" /\ age[pendingBy[o]] >= 1
                /\ status'[o] = "unspent"
      BY <3>1 DEF RollbackPending, SetStatus, OldMarks
    <3>3. ASSUME NEW t \in Tx, pc[t] \in InFlightPhase, NEW o \in inputs[t]
          PROVE  status'[o] = status[o]
      <4>1. o \in Outpoint /\ age[t] = 0
        BY <3>3 DEF TypeOK, MarksFresh
      <4>2. status[o] = "pending" => pendingBy[o] = t
        BY <3>3 DEF RowPart, MarksOwned
      <4>3. QED BY <3>2, <4>1, <4>2
    <3>4. QED BY <3>2, <3>3
  <2>2. CASE AddListed(a)
    <3>1. PICK o \in snap[a] : AddRow(o) \/ UNCHANGED table
      BY <2>2 DEF AddListed
    <3>2. /\ \A p \in Outpoint : p # o => status'[p] = status[p] /\ pendingBy'[p] = pendingBy[p]
          /\ status'[o] = "pending" => status[o] = "pending" /\ pendingBy'[o] = pendingBy[o]
      BY <3>1 DEF AddRow, table, TypeOK
    <3>3. ASSUME NEW t \in Tx, pc[t] \in InFlightPhase, NEW p \in inputs[t]
          PROVE  p \in Outpoint /\ p # o
      <4>1. AcctOf[t] # a
        BY <2>2, <3>3, SyncExcludesSends
           DEF AddListed, LockedPhase, MarkedPhase, InFlightPhase, ReservedWorld, NoLocks
      <4>2. AcctOf[p] = AcctOf[t] /\ AcctOf[o] = a /\ p \in Outpoint
        BY <3>1, <3>3 DEF RowsApart, RowsOf
      <4>3. QED BY <4>1, <4>2
    <3>4. QED BY <3>2, <3>3
  <2>3. CASE MarkMissing(a)
    <3>1. \A o \in Outpoint : status'[o] = status[o] \/ status'[o] = "spent"
      BY <2>3 DEF MarkMissing, TypeOK
    <3>2. pendingBy' = pendingBy /\ \A t \in Tx : inputs[t] \subseteq Outpoint
      BY <2>3 DEF MarkMissing, TypeOK
    <3>3. QED BY <3>1, <3>2
  <2>4. CASE ResolvePending(a)
    <3>1. \A o \in Outpoint : \/ status'[o] = status[o] /\ pendingBy'[o] = pendingBy[o]
                              \/ status'[o] = "absent"
      BY <2>4 DEF ResolvePending
    <3>2. \A t \in Tx : inputs[t] \subseteq Outpoint
      BY DEF TypeOK
    <3>3. QED BY <3>1, <3>2
  <2>5. CASE \/ StartSync(a) \/ SyncGranted(a) \/ FetchListing(a) \/ ListingUnusable(a)
             \/ ReadRows(a) \/ AddressDone(a) \/ SyncHistory(a) \/ IndexerUnavailable(a)
             \/ PurgePhantoms(a) \/ SyncCancelled(a)
    <3>1. UNCHANGED <<status, pendingBy>>
      BY <2>5 DEF StartSync, SyncGranted, FetchListing, ListingUnusable, ReadRows,
             AddressDone, SyncHistory, IndexerUnavailable, PurgePhantoms, SyncCancelled, table
    <3>2. QED BY <3>1
  <2>6. QED BY <2>1, <2>2, <2>3, <2>4, <2>5 DEF Syncs
<1>3. QED BY <1>1, <1>2, NoNewMark

\* Before any restart and any failure, what is marked is marked for an operation.
LEMMA MarksAreFree ==
    ASSUME "fault" \notin Adversity, MaxCrashes = 0, TypeOK', MarksHaveOperations'
    PROVE  CandidatesFree'
<1> SUFFICES ASSUME NEW t \in Tx, NEW o \in have'[t], status'[o] = "pending"
             PROVE  /\ pendingBy'[o] \in Tx
                    /\ pc'[pendingBy'[o]] \in MarkedPhase
                    /\ o \in inputs'[pendingBy'[o]]
  BY DEF CandidatesFree
<1>1. o \in Outpoint /\ crashes' = 0
  BY DEF TypeOK
<1>2. QED BY <1>1 DEF MarksHaveOperations, Fails

LEMMA NextKeepsRowPart ==
    ASSUME ReservedWorld, TypeOK, LockPart, RowsApart, MarksFresh, RowPart,
           MarksHaveOperations', TypeOK', [Next]_vars
    PROVE  RowPart'
<1> USE DEF table, records, sender, syncer, network
<1>0. ASSUME UNCHANGED <<status, pendingBy, have, inputs, pc>> PROVE RowPart'
  BY <1>0 DEF RowPart, MarksOwned, CandidatesFree, InFlightInputsReserved
<1>1. ASSUME NEW t \in Tx, Sends(t) PROVE RowPart'
  <2>1. CASE BuildAndMark(t)
    BY <2>1, BuildKeepsRowPart DEF ReservedWorld
  <2>2. CASE RollBack(t) \/ Record(t)
    BY <2>2, EndKeepsRowPart
  <2>3. CASE Call(t)
    <3>1. UNCHANGED <<status, pendingBy, inputs>> /\ pc[t] = "idle" /\ pc'[t] = "queued"
          /\ \A u \in Tx : u # t => pc'[u] = pc[u] /\ have'[u] = have[u]
      BY <2>3 DEF Call, TypeOK, ReservedWorld, NoLocks
    <3>2. \A u \in Tx : /\ pc'[u] \in InFlightPhase => pc[u] \in InFlightPhase
                        /\ ~ (pc[u] \in MarkedPhase /\ pc'[u] \notin MarkedPhase)
      BY <3>1 DEF MarkedPhase, InFlightPhase
    <3>3. CASE Kind[t] = "send"
      <4>1. have'[t] = Candidates(AcctOf[t])
        BY <2>3, <3>3 DEF Call, TypeOK
      <4>2. \A o \in have'[t] : status'[o] # "pending"
        BY <3>1, <4>1 DEF Candidates, SpendableRows
      <4>3. \A u \in Tx : have'[u] \subseteq have[u] \/ \A o \in have'[u] : status'[o] # "pending"
        BY <3>1, <4>2
      <4>4. QED BY <3>1, <3>2, <4>3, NoNewMark
    <3>4. CASE MaxCrashes = 0
      <4>1. CandidatesFree'
        BY <3>4, MarksAreFree DEF ReservedWorld
      <4>2. MarksOwned' /\ InFlightInputsReserved'
        BY <3>1, <3>2 DEF RowPart, MarksOwned, InFlightInputsReserved, InFlightPhase
      <4>3. QED BY <4>1, <4>2 DEF RowPart
    <3>5. QED BY <3>3, <3>4 DEF ReservedWorld
  <2>4. CASE \/ GrantedTo(t) \/ Refused(t) \/ Broadcast(t) \/ AnswerAccepted(t)
             \/ AnswerRefused(t)
    <3>1. UNCHANGED <<status, pendingBy, inputs>>
      BY <2>4 DEF GrantedTo, Refused, Broadcast, AnswerAccepted, AnswerRefused
    <3>2. \A u \in Tx : have'[u] \subseteq have[u]
      BY <2>4 DEF GrantedTo, Refused, Broadcast, AnswerAccepted, AnswerRefused, TypeOK
    <3>3. \A u \in Tx : /\ pc'[u] \in InFlightPhase => pc[u] \in InFlightPhase
                        /\ ~ (pc[u] \in MarkedPhase /\ pc'[u] \notin MarkedPhase)
      BY <2>4 DEF GrantedTo, Refused, Broadcast, AnswerAccepted, AnswerRefused, Ends,
                  TypeOK, MarkedPhase, InFlightPhase
    <3>4. QED BY <3>1, <3>2, <3>3, NoNewMark
  <2>5. CASE MarkFails(t) \/ StatementFails(t)
    BY <2>5 DEF MarkFails, StatementFails, Fails, ReservedWorld
  <2>6. QED BY <1>1, <2>1, <2>2, <2>3, <2>4, <2>5 DEF Sends
<1>2. ASSUME NEW a \in Account, Syncs(a) PROVE RowPart'
  BY <1>2, SyncKeepsRowPart
<1>3. ASSUME NEW t \in Tx, World(t) PROVE RowPart'
  BY <1>0, <1>3 DEF World, NetworkAccepts, NetworkRefuses, IndexerLearns, Mined, Dropped,
                    TimePasses
<1>4. ASSUME NEW o \in Outpoint, ToggleFrozen(o) PROVE RowPart'
  BY <1>0, <1>4 DEF ToggleFrozen
<1>5. CASE Crash
  <2>1. \A t \in Tx : have'[t] = {} /\ pc'[t] \notin InFlightPhase
    BY <1>5 DEF Crash, Final, InFlightPhase
  <2>2. QED BY <2>1 DEF RowPart, MarksOwned, CandidatesFree, InFlightInputsReserved,
                        InFlightPhase
<1>6. CASE UNCHANGED vars
  BY <1>0, <1>6 DEF vars
<1>7. QED BY <1>1, <1>2, <1>3, <1>4, <1>5, <1>6 DEF Next

LEMMA InitReserved == Init => ReservationInv
<1> SUFFICES ASSUME Init PROVE ReservationInv
  OBVIOUS
<1>1. TypeOK /\ LockPart /\ MarksHaveOperations
  BY InitTyped, InitLock, InitMarks
<1>2. RowsApart /\ MarksFresh /\ RowPart
  BY DEF Init, RowsApart, MarksFresh, RowPart, MarksOwned, CandidatesFree,
         InFlightInputsReserved, InFlightPhase
<1>3. QED BY <1>1, <1>2 DEF ReservationInv

(* For any accounts, coins and operations that take the lock, any           *)
(* interleaving of them with the syncs of every account, any lag of the     *)
(* indexer, lost or misreported broadcasts and cancellations: the inputs of *)
(* an operation in flight are offered to nobody.  Restarts are included     *)
(* where every candidate is read from the table: a transfer reads the       *)
(* indexer's listing, which shows a row that was marked before the restart, *)
(* and the sync of another account lifts that mark under the transfer.      *)
THEOREM LedgerReservation ==
    ASSUME ReservedWorld
    PROVE  Spec => []InFlightInputsReserved
<1>1. Init => ReservationInv
  BY InitReserved
<1>2. ReservationInv /\ [Next]_vars => ReservationInv'
  <2> SUFFICES ASSUME ReservationInv, [Next]_vars PROVE ReservationInv'
    OBVIOUS
  <2> USE DEF ReservationInv
  <2>1. TypeOK' /\ LockPart' /\ MarksHaveOperations'
    BY NextTyped, NextKeepsLock, NextKeepsMarks
  <2>2. RowsApart' /\ MarksFresh'
    BY NextKeepsRowsApart, NextKeepsMarksFresh
  <2>3. RowPart'
    BY <2>1, NextKeepsRowPart
  <2>4. QED BY <2>1, <2>2, <2>3
<1>3. ReservationInv => InFlightInputsReserved
  BY DEF ReservationInv, RowPart
<1>4. QED BY <1>1, <1>2, <1>3, PTL DEF Spec

-----------------------------------------------------------------------------
(* What the chain knows.                                                    *)
(*                                                                          *)
(* Nothing in the wallet names the change of a transaction before the       *)
(* network has taken the transaction, and from then on its inputs are       *)
(* settled.                                                                 *)

Submitted == {"sent", "accepted", "refused", "recorded", "over"}
Landed(t) == net[t] # "none"

AirFirst == \A t \in airborne : ~ Landed(t) /\ pc[t] \in Submitted
LandedSubmitted == \A t \in Tx : Landed(t) => pc[t] \in Submitted
AcceptedLanded == \A t \in Tx : pc[t] \in {"accepted", "recorded"} => Landed(t)
IndexedOnNet == indexed \subseteq OnNet
RowsLanded == \A u \in Tx \cap Outpoint : status[u] # "absent" => Landed(u)
ListsLanded == /\ \A t \in Tx : \A u \in have[t] \cap Tx : Landed(u)
               /\ \A a \in Account : \A u \in (snap[a] \cup seen[a]) \cap Tx : Landed(u)
SnapIndexed == \A a \in Account : snap[a] \cap OnNet \subseteq indexed
Timely == "lag" \notin Adversity => OnNet \subseteq indexed

PhasePart == AirFirst /\ LandedSubmitted /\ AcceptedLanded
ChainPart == PhasePart /\ IndexedOnNet /\ SnapIndexed /\ Timely /\ RowsLanded /\ ListsLanded

LEMMA SetStatusMoves ==
    ASSUME NEW S, \A p \in S : status[p] \in {"unspent", "pending"},
           NEW s \in {"unspent", "pending"}, NEW t, SetStatus(S, s, t), NEW o \in Outpoint
    PROVE  status'[o] = status[o] \/ {status[o], status'[o]} \subseteq {"unspent", "pending"}
BY DEF SetStatus

\* Which steps make a row come, go, or be spent.
LEMMA RowsMove ==
    ASSUME TypeOK, [Next]_vars, NEW o \in Outpoint
    PROVE  /\ status[o] # "absent" /\ status'[o] = "absent" =>
                 \E a \in Account : ResolvePending(a) /\ AcctOf[o] = a
           /\ status[o] \in {"absent", "spent"} /\ status'[o] \in {"unspent", "pending"} =>
                 \/ \E t \in Tx : Record(t) /\ o = t
                 \/ \E a \in Account : AddListed(a) /\ o \in snap[a]
           /\ status[o] # "spent" /\ status'[o] = "spent" =>
                 \/ \E t \in Tx : Record(t) /\ o \in inputs[t] /\ status[o] # "absent"
                 \/ \E a \in Account : /\ MarkMissing(a)
                                       /\ o \in seen[a] \ snap[a]
                                       /\ o \in PendingTxids => Fails
<1> USE DEF table, records, sender, syncer, lock, network
<1> DEFINE Same == \/ status'[o] = status[o]
                   \/ {status[o], status'[o]} \subseteq {"unspent", "pending"}
<1>1. ASSUME NEW t \in Tx, Sends(t), ~ Record(t) PROVE Same
  <2>1. CASE BuildAndMark(t) \/ MarkFails(t)
    <3>1. \E S : MarkPending(S, t)
      BY <2>1 DEF BuildAndMark, MarkFails
    <3>2. QED BY <3>1, SetStatusMoves DEF MarkPending
  <2>2. CASE RollBack(t)
    BY <2>2, SetStatusMoves DEF RollBack, RollbackPending
  <2>3. CASE \/ Call(t) \/ GrantedTo(t) \/ Refused(t) \/ Broadcast(t) \/ AnswerAccepted(t)
             \/ AnswerRefused(t) \/ StatementFails(t)
    BY <2>3 DEF Call, GrantedTo, Refused, Broadcast, AnswerAccepted, AnswerRefused,
                StatementFails
  <2>4. QED BY <1>1, <2>1, <2>2, <2>3 DEF Sends
<1>2. ASSUME NEW t \in Tx, Record(t)
      PROVE  /\ status[o] # "absent" => status'[o] # "absent"
             /\ status'[o] \in {"unspent", "pending"} => status'[o] = status[o] \/ o = t
             /\ status[o] # "spent" /\ status'[o] = "spent" =>
                   o \in inputs[t] /\ status[o] # "absent"
  <2>1. PICK S \in SUBSET inputs[t], C \in SUBSET ({t} \cap Outpoint) : SpendAndAdd(S, C)
    BY <1>2 DEF Record, SpendAndAddChange
  <2>2. QED BY <2>1 DEF SpendAndAdd
<1>3. ASSUME NEW a \in Account, Syncs(a),
             ~ (AddListed(a) \/ MarkMissing(a) \/ ResolvePending(a))
      PROVE  Same
  <2>1. CASE RecoverPending(a)
    <3>1. CASE UNCHANGED <<status, pendingBy>>
      BY <3>1
    <3>2. CASE RollbackPending(OldMarks)
      BY <3>2, SetStatusMoves DEF RollbackPending
    <3>3. QED BY <2>1, <3>1, <3>2 DEF RecoverPending
  <2>2. CASE ~ RecoverPending(a)
    BY <1>3, <2>2 DEF Syncs, StartSync, SyncGranted, FetchListing, ListingUnusable,
             ReadRows, AddressDone, SyncHistory, IndexerUnavailable, PurgePhantoms,
             SyncCancelled
  <2>3. QED BY <2>1, <2>2
<1>4. ASSUME NEW a \in Account, AddListed(a)
      PROVE  /\ status[o] # "absent" => status'[o] # "absent"
             /\ status'[o] = status[o] \/ o \in snap[a]
             /\ status'[o] = "spent" => status[o] = "spent"
  <2>1. PICK p \in snap[a] : AddRow(p) \/ UNCHANGED table
    BY <1>4 DEF AddListed
  <2>2. QED BY <2>1 DEF AddRow, TypeOK
<1>5. ASSUME NEW a \in Account, MarkMissing(a)
      PROVE  /\ status'[o] = status[o] \/ status'[o] = "spent"
             /\ status[o] # "spent" /\ status'[o] = "spent" =>
                   o \in seen[a] \ snap[a] /\ (o \in PendingTxids => Fails)
  <2>1. PICK p \in seen[a] \ snap[a] :
           \/ (p \in PendingTxids => Fails) /\ status' = [status EXCEPT ![p] = "spent"]
           \/ UNCHANGED status
    BY <1>5 DEF MarkMissing
  <2>2. QED BY <2>1 DEF TypeOK
<1>6. ASSUME NEW a \in Account, ResolvePending(a)
      PROVE  status'[o] = status[o] \/ (status'[o] = "absent" /\ AcctOf[o] = a)
  BY <1>6 DEF ResolvePending, Stale
<1>7. CASE (\E t \in Tx : World(t)) \/ (\E p \in Outpoint : ToggleFrozen(p)) \/ Crash
  <2>1. UNCHANGED status
    BY <1>7 DEF World, NetworkAccepts, NetworkRefuses, IndexerLearns, Mined, Dropped,
                TimePasses, ToggleFrozen, Crash
  <2>2. QED BY <2>1
<1>8. CASE UNCHANGED vars
  BY <1>8 DEF vars
<1>9. status[o] \in {"absent", "unspent", "pending", "spent"}
  BY DEF TypeOK
<1>10. QED BY <1>1, <1>2, <1>3, <1>4, <1>5, <1>6, <1>7, <1>8, <1>9 DEF Next

\* What the network took stays taken, and keeps its inputs.
LEMMA LandedStays ==
    ASSUME TypeOK, LandedSubmitted, [Next]_vars, NEW t \in Tx, Landed(t)
    PROVE  Landed(t)' /\ inputs'[t] = inputs[t]
<1> USE DEF table, records, sender, syncer, lock, network
<1>1. ASSUME NEW u \in Tx, Sends(u) PROVE net' = net /\ inputs'[t] = inputs[t]
  <2>1. CASE BuildAndMark(u) \/ MarkFails(u)
    <3>1. u # t
      BY <2>1 DEF BuildAndMark, MarkFails, LandedSubmitted, Submitted
    <3>2. QED BY <2>1, <3>1 DEF BuildAndMark, MarkFails, TypeOK
  <2>2. CASE ~ (BuildAndMark(u) \/ MarkFails(u))
    BY <1>1, <2>2 DEF Sends, Call, GrantedTo, Refused, Broadcast, AnswerAccepted,
             AnswerRefused, RollBack, Record, StatementFails
  <2>3. QED BY <2>1, <2>2
<1>2. ASSUME NEW a \in Account, Syncs(a) PROVE UNCHANGED <<net, inputs>>
  BY <1>2 DEF Syncs, StartSync, SyncGranted, RecoverPending, FetchListing, ListingUnusable,
         ReadRows, AddListed, MarkMissing, AddressDone, SyncHistory, IndexerUnavailable,
         ResolvePending, PurgePhantoms, SyncCancelled
<1>3. ASSUME NEW u \in Tx, World(u) PROVE Landed(t)' /\ inputs' = inputs
  BY <1>3 DEF World, NetworkAccepts, NetworkRefuses, IndexerLearns, Mined, Dropped,
              TimePasses, Landed, TypeOK
<1>4. CASE (\E o \in Outpoint : ToggleFrozen(o)) \/ Crash \/ UNCHANGED vars
  BY <1>4 DEF ToggleFrozen, Crash, vars, Landed
<1>5. QED BY <1>1, <1>2, <1>3, <1>4 DEF Next, Landed

\* A transaction comes to be on the network by being taken from the air.
LEMMA OnNetGrows ==
    ASSUME TypeOK, [Next]_vars, NEW t \in Tx, t \in OnNet', t \notin OnNet
    PROVE  NetworkAccepts(t) /\ t \in airborne
<1> USE DEF table, records, sender, syncer, lock, network
<1>1. ASSUME NEW u \in Tx, World(u) PROVE NetworkAccepts(t)
  BY <1>1 DEF World, NetworkAccepts, NetworkRefuses, IndexerLearns, Mined, Dropped,
              TimePasses, OnNet, TypeOK
<1>2. CASE net' = net
  BY <1>2 DEF OnNet
<1>3. ASSUME NEW u \in Tx, Sends(u) PROVE net' = net
  BY <1>3 DEF Sends, Call, GrantedTo, Refused, BuildAndMark, MarkFails, Broadcast,
         AnswerAccepted, AnswerRefused, RollBack, Record, StatementFails
<1>4. ASSUME NEW a \in Account, Syncs(a) PROVE net' = net
  BY <1>4 DEF Syncs, StartSync, SyncGranted, RecoverPending, FetchListing, ListingUnusable,
         ReadRows, AddListed, MarkMissing, AddressDone, SyncHistory, IndexerUnavailable,
         ResolvePending, PurgePhantoms, SyncCancelled
<1>5. CASE (\E o \in Outpoint : ToggleFrozen(o)) \/ Crash \/ UNCHANGED vars
  BY <1>2, <1>5 DEF ToggleFrozen, Crash, vars
<1>6. QED BY <1>1, <1>2, <1>3, <1>4, <1>5 DEF Next, NetworkAccepts

\* A step of an operation keeps what is submitted submitted.
LEMMA PhaseMoves ==
    ASSUME TypeOK, [Next]_vars, NEW t \in Tx
    PROVE  /\ pc[t] \in Submitted => pc'[t] \in Submitted
           /\ pc[t] \in Final => pc'[t] = pc[t]
           /\ pc[t] # "recorded" /\ pc'[t] = "recorded" => Record(t) /\ pc[t] = "accepted"
           /\ pc[t] # "accepted" /\ pc'[t] = "accepted" => AnswerAccepted(t)
<1> USE DEF table, records, sender, syncer, lock, network, Submitted, Final
<1>1. ASSUME NEW u \in Tx, Sends(u)
      PROVE  /\ pc[t] \in Submitted => pc'[t] \in Submitted
             /\ pc[t] \in Final => pc'[t] = pc[t]
             /\ pc[t] # "recorded" /\ pc'[t] = "recorded" => Record(t) /\ pc[t] = "accepted"
             /\ pc[t] # "accepted" /\ pc'[t] = "accepted" => AnswerAccepted(t)
  <2>1. CASE Record(u)
    BY <2>1 DEF Record, Ends, TypeOK
  <2>2. CASE Refused(u) \/ MarkFails(u) \/ RollBack(u) \/ StatementFails(u)
    BY <2>2 DEF Refused, MarkFails, RollBack, StatementFails, Ends, TypeOK
  <2>3. CASE Call(u) \/ GrantedTo(u) \/ BuildAndMark(u) \/ Broadcast(u)
    BY <2>3 DEF Call, GrantedTo, BuildAndMark, Broadcast, TypeOK
  <2>4. CASE AnswerAccepted(u) \/ AnswerRefused(u)
    BY <2>4 DEF AnswerAccepted, AnswerRefused, TypeOK
  <2>5. QED BY <1>1, <2>1, <2>2, <2>3, <2>4 DEF Sends
<1>2. CASE pc' = pc
  BY <1>2
<1>3. ASSUME NEW a \in Account, Syncs(a) PROVE pc' = pc
  BY <1>3 DEF Syncs, StartSync, SyncGranted, RecoverPending, FetchListing, ListingUnusable,
         ReadRows, AddListed, MarkMissing, AddressDone, SyncHistory, IndexerUnavailable,
         ResolvePending, PurgePhantoms, SyncCancelled
<1>4. ASSUME NEW u \in Tx, World(u) PROVE pc' = pc
  BY <1>4 DEF World, NetworkAccepts, NetworkRefuses, IndexerLearns, Mined, Dropped, TimePasses
<1>5. CASE Crash
  BY <1>5 DEF Crash, TypeOK
<1>6. CASE (\E o \in Outpoint : ToggleFrozen(o)) \/ UNCHANGED vars
  BY <1>2, <1>6 DEF ToggleFrozen, vars
<1>7. QED BY <1>1, <1>2, <1>3, <1>4, <1>5, <1>6 DEF Next

LEMMA NextKeepsPhases ==
    ASSUME TypeOK, PhasePart, [Next]_vars
    PROVE  PhasePart'
<1> USE DEF table, records, sender, syncer, lock, network
<1>1. ASSUME NEW t \in Tx
      PROVE  /\ t \in airborne' => t \in airborne \/ Broadcast(t)
             /\ Landed(t)' => Landed(t) \/ NetworkAccepts(t)
             /\ NetworkAccepts(t) => t \in airborne /\ airborne' = airborne \ {t}
  <2>1. ASSUME NEW u \in Tx, World(u)
        PROVE  /\ airborne' \subseteq airborne
               /\ Landed(t)' => Landed(t) \/ NetworkAccepts(t)
    BY <2>1 DEF World, NetworkAccepts, NetworkRefuses, IndexerLearns, Mined, Dropped,
                TimePasses, Landed, TypeOK
  <2>2. ASSUME NEW u \in Tx, Sends(u)
        PROVE  net' = net /\ (t \in airborne' => t \in airborne \/ Broadcast(t))
    BY <2>2 DEF Sends, Call, GrantedTo, Refused, BuildAndMark, MarkFails, Broadcast,
           AnswerAccepted, AnswerRefused, RollBack, Record, StatementFails
  <2>3. ASSUME NEW a \in Account, Syncs(a) PROVE UNCHANGED <<net, airborne>>
    BY <2>3 DEF Syncs, StartSync, SyncGranted, RecoverPending, FetchListing,
           ListingUnusable, ReadRows, AddListed, MarkMissing, AddressDone, SyncHistory,
           IndexerUnavailable, ResolvePending, PurgePhantoms, SyncCancelled
  <2>4. CASE (\E o \in Outpoint : ToggleFrozen(o)) \/ Crash \/ UNCHANGED vars
    BY <2>4 DEF ToggleFrozen, Crash, vars, Landed, NetworkAccepts
  <2>5. QED BY <2>1, <2>2, <2>3, <2>4 DEF Next, Landed, NetworkAccepts
<1>2. AirFirst'
  <2> SUFFICES ASSUME NEW t \in airborne' PROVE ~ Landed(t)' /\ pc'[t] \in Submitted
    BY DEF AirFirst
  <2>0. t \in Tx
    BY NextTyped DEF TypeOK
  <2>1. CASE t \in airborne
    <3>1. ~ Landed(t) /\ pc[t] \in Submitted
      BY <2>1 DEF PhasePart, AirFirst
    <3>2. pc'[t] \in Submitted
      BY <2>0, <3>1, PhaseMoves
    <3>3. ~ NetworkAccepts(t)
      BY <1>1, <2>0
    <3>4. QED BY <1>1, <2>0, <3>1, <3>2, <3>3
  <2>2. CASE t \notin airborne
    <3>1. Broadcast(t)
      BY <1>1, <2>0, <2>2
    <3>2. pc'[t] = "sent" /\ net' = net /\ pc[t] \notin Submitted
      BY <2>0, <3>1 DEF Broadcast, TypeOK, Submitted
    <3>3. QED BY <2>0, <3>2 DEF PhasePart, LandedSubmitted, Landed, Submitted
  <2>3. QED BY <2>1, <2>2
<1>3. LandedSubmitted'
  BY <1>1, PhaseMoves DEF PhasePart, LandedSubmitted, AirFirst
<1>4. AcceptedLanded'
  <2> SUFFICES ASSUME NEW t \in Tx, pc'[t] \in {"accepted", "recorded"} PROVE Landed(t)'
    BY DEF AcceptedLanded
  <2>1. CASE pc[t] \in {"accepted", "recorded"}
    BY <2>1, LandedStays DEF PhasePart, AcceptedLanded
  <2>2. CASE pc[t] \notin {"accepted", "recorded"}
    <3>1. AnswerAccepted(t)
      BY <2>2, PhaseMoves
    <3>2. Landed(t)
      BY <3>1 DEF AnswerAccepted, OnNet, Landed
    <3>3. QED BY <3>2, LandedStays DEF PhasePart
  <2>3. QED BY <2>1, <2>2
<1>5. QED BY <1>2, <1>3, <1>4 DEF PhasePart

LEMMA NextKeepsIndex ==
    ASSUME TypeOK, IndexedOnNet, Timely, [Next]_vars
    PROVE  IndexedOnNet' /\ Timely' /\ \A u \in indexed : u \in OnNet' => u \in indexed'
<1> USE DEF table, records, sender, syncer, lock, network
<1>1. ASSUME NEW t \in Tx, World(t)
      PROVE  IndexedOnNet' /\ Timely' /\ \A u \in indexed : u \in OnNet' => u \in indexed'
  <2>1. CASE NetworkAccepts(t)
    BY <2>1 DEF NetworkAccepts, IndexedOnNet, Timely, OnNet, TypeOK
  <2>2. CASE IndexerLearns(t)
    BY <2>2 DEF IndexerLearns, IndexedOnNet, Timely, OnNet
  <2>3. CASE Mined(t) \/ Dropped(t)
    BY <2>3 DEF Mined, Dropped, IndexedOnNet, Timely, OnNet, TypeOK
  <2>4. CASE NetworkRefuses(t) \/ TimePasses(t)
    BY <2>4 DEF NetworkRefuses, TimePasses, IndexedOnNet, Timely, OnNet
  <2>5. QED BY <1>1, <2>1, <2>2, <2>3, <2>4 DEF World
<1>2. CASE UNCHANGED <<net, indexed>>
  BY <1>2 DEF IndexedOnNet, Timely, OnNet
<1>3. ASSUME NEW t \in Tx, Sends(t) PROVE UNCHANGED <<net, indexed>>
  BY <1>3 DEF Sends, Call, GrantedTo, Refused, BuildAndMark, MarkFails, Broadcast,
         AnswerAccepted, AnswerRefused, RollBack, Record, StatementFails
<1>4. ASSUME NEW a \in Account, Syncs(a) PROVE UNCHANGED <<net, indexed>>
  BY <1>4 DEF Syncs, StartSync, SyncGranted, RecoverPending, FetchListing,
         ListingUnusable, ReadRows, AddListed, MarkMissing, AddressDone, SyncHistory,
         IndexerUnavailable, ResolvePending, PurgePhantoms, SyncCancelled
<1>5. CASE (\E o \in Outpoint : ToggleFrozen(o)) \/ Crash \/ UNCHANGED vars
  BY <1>2, <1>5 DEF ToggleFrozen, Crash, vars
<1>6. QED BY <1>1, <1>2, <1>3, <1>4, <1>5 DEF Next

LEMMA NextKeepsChain ==
    ASSUME TypeOK, ChainPart, [Next]_vars
    PROVE  ChainPart'
<1> USE DEF table, records, sender, syncer, lock, network
<1>1. PhasePart'
  BY NextKeepsPhases DEF ChainPart
<1>2. \A u \in Tx : Landed(u) => Landed(u)'
  BY LandedStays DEF ChainPart, PhasePart
<1>3. IndexedOnNet' /\ Timely' /\ \A u \in indexed : u \in OnNet' => u \in indexed'
  BY NextKeepsIndex DEF ChainPart
<1>4. RowsLanded'
  <2> SUFFICES ASSUME NEW u \in Tx \cap Outpoint, status'[u] # "absent" PROVE Landed(u)'
    BY DEF RowsLanded
  <2>1. CASE status[u] # "absent"
    BY <1>2, <2>1 DEF ChainPart, RowsLanded
  <2>2. CASE status[u] = "absent"
    <3>1. status'[u] \in {"unspent", "pending", "spent"}
      BY NextTyped DEF TypeOK
    <3>2. \/ Record(u)
          \/ \E a \in Account : u \in snap[a] \cup seen[a]
      BY <2>2, <3>1, RowsMove
    <3>3. Landed(u)
      BY <3>2 DEF Record, ChainPart, PhasePart, AcceptedLanded, ListsLanded
    <3>4. QED BY <1>2, <3>3
  <2>3. QED BY <2>1, <2>2
<1>5. \A o \in Outpoint \cap Tx : status[o] # "absent" \/ o \in indexed => Landed(o)
  BY DEF ChainPart, RowsLanded, IndexedOnNet, OnNet, Landed
<1>6. \A a \in Account : /\ \A u \in Listing(a) \cap Tx : Landed(u) /\ u \in indexed
                        /\ \A u \in SpendableRows(a) \cap Tx : Landed(u)
  BY <1>5, NamesAssumption DEF Listing, UnspentAfter, SpendableRows, TypeOK
<1>7. ASSUME NEW t \in Tx
      PROVE  \A u \in have'[t] \cap Tx : Landed(u)
  <2>1. have'[t] \subseteq have[t] \/ have'[t] \subseteq Listing(AcctOf[t])
        \/ have'[t] \subseteq SpendableRows(AcctOf[t])
    <3>1. ASSUME NEW w \in Tx, Call(w)
          PROVE  have'[t] \subseteq have[t] \/ have'[t] \subseteq Listing(AcctOf[t])
                 \/ have'[t] \subseteq SpendableRows(AcctOf[t])
      BY <3>1 DEF Call, Candidates, TypeOK
    <3>2. ASSUME NEW w \in Tx, Sends(w), ~ Call(w) PROVE have'[t] \subseteq have[t]
      BY <3>2 DEF Sends, GrantedTo, Refused, BuildAndMark, MarkFails, Broadcast,
             AnswerAccepted, AnswerRefused, RollBack, Record, StatementFails, TypeOK
    <3>3. ASSUME NEW a \in Account, Syncs(a) PROVE have' = have
      BY <3>3 DEF Syncs, StartSync, SyncGranted, RecoverPending, FetchListing,
             ListingUnusable, ReadRows, AddListed, MarkMissing, AddressDone, SyncHistory,
             IndexerUnavailable, ResolvePending, PurgePhantoms, SyncCancelled
    <3>4. ASSUME NEW w \in Tx, World(w) PROVE have' = have
      BY <3>4 DEF World, NetworkAccepts, NetworkRefuses, IndexerLearns, Mined, Dropped,
                  TimePasses
    <3>5. CASE (\E o \in Outpoint : ToggleFrozen(o)) \/ Crash \/ UNCHANGED vars
      BY <3>5 DEF ToggleFrozen, Crash, vars
    <3>6. QED BY <3>1, <3>2, <3>3, <3>4, <3>5 DEF Next
  <2>2. QED BY <1>6, <2>1, AcctAssumption DEF ChainPart, ListsLanded
<1>8. ASSUME NEW a \in Account
      PROVE  /\ snap'[a] \subseteq snap[a] \/ snap'[a] \subseteq Listing(a)
             /\ seen'[a] \subseteq snap[a] \cup seen[a] \/ seen'[a] \subseteq SpendableRows(a)
  <2>1. ASSUME NEW b \in Account, Syncs(b)
        PROVE  /\ snap'[a] \subseteq snap[a] \/ snap'[a] \subseteq Listing(a)
               /\ seen'[a] \subseteq snap[a] \cup seen[a] \/ seen'[a] \subseteq SpendableRows(a)
    <3>1. CASE FetchListing(b) \/ ReadRows(b) \/ AddressDone(b)
      BY <3>1 DEF FetchListing, ReadRows, AddressDone, TypeOK
    <3>2. CASE AddListed(b) \/ MarkMissing(b)
      <4>1. PICK o : /\ o \in snap[b] \cup seen[b]
                     /\ \/ seen' = [seen EXCEPT ![b] = @ \cup {o}]
                        \/ seen' = [seen EXCEPT ![b] = @ \ {o}]
        BY <3>2 DEF AddListed, MarkMissing
      <4>2. snap' = snap
        BY <3>2 DEF AddListed, MarkMissing
      <4>3. a # b => seen'[a] = seen[a]
        BY <4>1 DEF TypeOK
      <4>4. a = b => seen'[a] = seen[a] \cup {o} \/ seen'[a] = seen[a] \ {o}
        BY <4>1 DEF TypeOK
      <4>5. QED BY <4>1, <4>2, <4>3, <4>4
    <3>3. CASE ~ (FetchListing(b) \/ ReadRows(b) \/ AddressDone(b) \/ AddListed(b)
                  \/ MarkMissing(b))
      BY <2>1, <3>3 DEF Syncs, StartSync, SyncGranted, RecoverPending, ListingUnusable,
             SyncHistory, IndexerUnavailable, ResolvePending, PurgePhantoms, SyncCancelled
    <3>4. QED BY <3>1, <3>2, <3>3
  <2>2. CASE UNCHANGED <<snap, seen>>
    BY <2>2
  <2>3. ASSUME NEW t \in Tx, Sends(t) PROVE UNCHANGED <<snap, seen>>
    BY <2>3 DEF Sends, Call, GrantedTo, Refused, BuildAndMark, MarkFails, Broadcast,
           AnswerAccepted, AnswerRefused, RollBack, Record, StatementFails
  <2>4. ASSUME NEW t \in Tx, World(t) PROVE UNCHANGED <<snap, seen>>
    BY <2>4 DEF World, NetworkAccepts, NetworkRefuses, IndexerLearns, Mined, Dropped,
                TimePasses
  <2>5. CASE Crash
    BY <2>5 DEF Crash
  <2>6. CASE (\E o \in Outpoint : ToggleFrozen(o)) \/ UNCHANGED vars
    BY <2>2, <2>6 DEF ToggleFrozen, vars
  <2>7. QED BY <2>1, <2>2, <2>3, <2>4, <2>5, <2>6 DEF Next
<1>9. ListsLanded'
  <2>1. \A t \in Tx : \A u \in have'[t] \cap Tx : Landed(u)'
    BY <1>2, <1>7
  <2>2. ASSUME NEW a \in Account, NEW u \in (snap'[a] \cup seen'[a]) \cap Tx
        PROVE  Landed(u)'
    <3>1. Landed(u)
      BY <1>6, <1>8 DEF ChainPart, ListsLanded
    <3>2. QED BY <1>2, <3>1
  <2>3. QED BY <2>1, <2>2 DEF ListsLanded
<1>10. SnapIndexed'
  <2> SUFFICES ASSUME NEW a \in Account, NEW u \in snap'[a], u \in OnNet'
               PROVE  u \in indexed'
    BY DEF SnapIndexed
  <2>1. u \in Tx
    BY DEF OnNet
  <2>2. u \in OnNet
    <3>1. Landed(u)
      BY <1>6, <1>8, <2>1 DEF ChainPart, ListsLanded
    <3>2. ~ (NetworkAccepts(u) /\ u \in airborne)
      BY <3>1 DEF ChainPart, PhasePart, AirFirst
    <3>3. QED BY <2>1, <3>2, OnNetGrows
  <2>3. u \in indexed
    BY <1>6, <1>8, <2>1, <2>2 DEF ChainPart, SnapIndexed
  <2>4. QED BY <1>3, <2>3
<1>11. QED BY <1>1, <1>3, <1>4, <1>9, <1>10 DEF ChainPart

LEMMA InitChain == Init => ChainPart
BY NamesAssumption
   DEF Init, ChainPart, PhasePart, AirFirst, LandedSubmitted, AcceptedLanded, IndexedOnNet,
       SnapIndexed, Timely, RowsLanded, ListsLanded, Landed, OnNet

-----------------------------------------------------------------------------
(* The inputs of what was recorded.                                         *)
(*                                                                          *)
(* A sync reads the listing, then the rows, then adds what the rows lack.   *)
(* The listing must still be free of what was recorded since (SnapFree):    *)
(* this is what the lock is for.  And recording a transaction resets the    *)
(* row of its change, which must not be an input of another one that is     *)
(* recorded already (ParentsOver).                                          *)

ParentsOver == \A t \in Tx : \A u \in inputs[t] \cap Tx : pc[u] \in Final
RecordedSpent == \A t \in OnNet : pc[t] = "recorded" =>
                    \A o \in inputs[t] : status[o] \in {"spent", "absent"}
SnapFree == \A t \in OnNet : pc[t] = "recorded" /\ syncPc[AcctOf[t]] \in {"read", "apply"} =>
               inputs[t] \cap snap[AcctOf[t]] = {}

RecordedInv == /\ TypeOK /\ LockPart /\ RowsApart /\ ChainPart
               /\ ParentsOver /\ RecordedSpent /\ SnapFree

LEMMA InputsMove ==
    ASSUME TypeOK, [Next]_vars, NEW t \in Tx
    PROVE  \/ inputs'[t] = inputs[t]
           \/ pc[t] = "ready" /\ inputs'[t] \subseteq have[t]
<1> USE DEF table, records, sender, syncer, lock, network
<1>1. ASSUME NEW u \in Tx, BuildAndMark(u) \/ MarkFails(u)
      PROVE  inputs'[t] = inputs[t] \/ (pc[t] = "ready" /\ inputs'[t] \subseteq have[t])
  <2>1. pc[u] = "ready" /\ \E S \in SUBSET have[u] : inputs' = [inputs EXCEPT ![u] = S]
    BY <1>1 DEF BuildAndMark, MarkFails
  <2>2. QED BY <2>1 DEF TypeOK
<1>2. ASSUME NEW u \in Tx, Sends(u), ~ (BuildAndMark(u) \/ MarkFails(u))
      PROVE  inputs' = inputs
  BY <1>2 DEF Sends, Call, GrantedTo, Refused, Broadcast, AnswerAccepted, AnswerRefused,
              RollBack, Record, StatementFails
<1>3. ASSUME NEW a \in Account, Syncs(a) PROVE inputs' = inputs
  BY <1>3 DEF Syncs, StartSync, SyncGranted, RecoverPending, FetchListing, ListingUnusable,
         ReadRows, AddListed, MarkMissing, AddressDone, SyncHistory, IndexerUnavailable,
         ResolvePending, PurgePhantoms, SyncCancelled
<1>4. ASSUME NEW u \in Tx, World(u) PROVE inputs' = inputs
  BY <1>4 DEF World, NetworkAccepts, NetworkRefuses, IndexerLearns, Mined, Dropped, TimePasses
<1>5. CASE (\E o \in Outpoint : ToggleFrozen(o)) \/ Crash \/ UNCHANGED vars
  BY <1>5 DEF ToggleFrozen, Crash, vars
<1>6. QED BY <1>1, <1>2, <1>3, <1>4, <1>5 DEF Next

\* A sync is between its listing and the end of the address only after it fetched
\* the listing, which it then keeps.
LEMMA WindowMoves ==
    ASSUME TypeOK, [Next]_vars, NEW a \in Account, ~ FetchListing(a),
           syncPc'[a] \in {"read", "apply"}
    PROVE  /\ syncPc[a] \in {"read", "apply"} /\ snap'[a] = snap[a]
           /\ syncPc'[a] = "apply" => syncPc[a] = "apply" \/ ReadRows(a)
<1> USE DEF table, records, sender, syncer, lock, network
<1> DEFINE Stays == UNCHANGED <<syncPc, snap>>
<1>1. ASSUME NEW b \in Account, Syncs(b), b # a
      PROVE  syncPc'[a] = syncPc[a] /\ snap'[a] = snap[a]
  BY <1>1 DEF Syncs, StartSync, SyncGranted, RecoverPending, FetchListing, ListingUnusable,
         ReadRows, AddListed, MarkMissing, AddressDone, SyncHistory, IndexerUnavailable,
         ResolvePending, PurgePhantoms, SyncCancelled, SyncStep, TypeOK
<1>2. CASE Syncs(a)
  <2>1. CASE ReadRows(a)
    BY <2>1 DEF ReadRows, SyncStep, TypeOK
  <2>2. CASE AddListed(a) \/ MarkMissing(a)
    BY <2>2 DEF AddListed, MarkMissing
  <2>3. CASE ~ (ReadRows(a) \/ AddListed(a) \/ MarkMissing(a))
    <3>1. syncPc'[a] \notin {"read", "apply"}
      BY <1>2, <2>3 DEF Syncs, StartSync, SyncGranted, RecoverPending, ListingUnusable,
         AddressDone, SyncHistory, IndexerUnavailable, ResolvePending, PurgePhantoms,
         SyncCancelled, SyncStep, TypeOK
    <3>2. QED BY <3>1
  <2>4. QED BY <2>1, <2>2, <2>3
<1>3. ASSUME NEW t \in Tx, Sends(t) PROVE Stays
  BY <1>3 DEF Sends, Call, GrantedTo, Refused, BuildAndMark, MarkFails, Broadcast,
         AnswerAccepted, AnswerRefused, RollBack, Record, StatementFails
<1>4. ASSUME NEW t \in Tx, World(t) PROVE Stays
  BY <1>4 DEF World, NetworkAccepts, NetworkRefuses, IndexerLearns, Mined, Dropped, TimePasses
<1>5. CASE Crash
  BY <1>5 DEF Crash
<1>6. CASE (\E o \in Outpoint : ToggleFrozen(o)) \/ UNCHANGED vars
  BY <1>6 DEF ToggleFrozen, vars
<1>7. QED BY <1>1, <1>2, <1>3, <1>4, <1>5, <1>6 DEF Next

\* What is recorded and on the network after a step was so before it, or the step
\* recorded it.
LEMMA RecordedBefore ==
    ASSUME TypeOK, ChainPart, [Next]_vars, NEW t \in OnNet', pc'[t] = "recorded"
    PROVE  /\ t \in OnNet /\ inputs'[t] = inputs[t]
           /\ pc[t] = "recorded" \/ (Record(t) /\ pc[t] = "accepted")
<1>1. t \in Tx
  BY DEF OnNet
<1>2. pc[t] = "recorded" \/ (Record(t) /\ pc[t] = "accepted")
  BY <1>1, PhaseMoves
<1>3. Landed(t)
  BY <1>1, <1>2 DEF ChainPart, PhasePart, AcceptedLanded
<1>4. t \in OnNet
  BY <1>1, <1>3, OnNetGrows DEF ChainPart, PhasePart, AirFirst
<1>5. QED BY <1>1, <1>2, <1>3, <1>4, LandedStays DEF ChainPart, PhasePart

LEMMA NextKeepsParents ==
    ASSUME NoLocks, TypeOK, LockPart, RowsApart, ChainPart, ParentsOver, [Next]_vars
    PROVE  ParentsOver'
<1> SUFFICES ASSUME NEW t \in Tx, NEW u \in inputs'[t], u \in Tx PROVE pc'[u] \in Final
  BY DEF ParentsOver
<1>1. CASE u \in inputs[t]
  BY <1>1, PhaseMoves DEF ParentsOver
<1>2. CASE u \notin inputs[t]
  <2>1. pc[t] = "ready" /\ u \in have[t]
    BY <1>2, InputsMove
  <2>2. pc[u] \in Submitted
    BY <2>1 DEF ChainPart, PhasePart, LandedSubmitted, ListsLanded
  <2>3. AcctOf[u] = AcctOf[t]
    BY <2>1 DEF RowsApart, RowsOf
  <2>4. pc[u] \notin LockedPhase
    BY <2>1, <2>2, <2>3, OneOwnerPerAccount DEF NoLocks, LockedPhase, Submitted
  <2>5. pc[u] \in Final
    BY <2>2, <2>4 DEF Submitted, Final, LockedPhase, MarkedPhase, InFlightPhase
  <2>6. QED BY <2>5, PhaseMoves
<1>3. QED BY <1>1, <1>2

LEMMA NextKeepsRecorded ==
    ASSUME NoLocks, "lag" \notin Adversity, RecordedInv, [Next]_vars
    PROVE  RecordedSpent' /\ SnapFree'
<1> USE DEF RecordedInv
<1>1. RecordedSpent'
  <2> SUFFICES ASSUME NEW t \in OnNet', pc'[t] = "recorded", NEW o \in inputs'[t]
               PROVE  status'[o] \in {"spent", "absent"}
    BY DEF RecordedSpent
  <2>1. t \in Tx /\ t \in OnNet /\ o \in inputs[t] /\ o \in Outpoint
    BY RecordedBefore DEF OnNet, TypeOK
  <2>2. status'[o] \in {"absent", "unspent", "pending", "spent"}
    BY <2>1, NextTyped DEF TypeOK
  <2>3. CASE Record(t)
    <3>1. SpendAndAddChange(t) /\ pc[t] = "accepted"
      BY <2>1, <2>3 DEF Record, NoLocks
    <3>2. o # t
      BY <2>1, <3>1 DEF ParentsOver, Final
    <3>3. QED BY <2>1, <3>1, <3>2 DEF SpendAndAddChange, SpendAndAdd
  <2>4. CASE pc[t] = "recorded"
    <3>1. status[o] \in {"spent", "absent"}
      BY <2>1, <2>4 DEF RecordedSpent
    <3>2. ~ (o \in Tx /\ Record(o))
      BY <2>1 DEF ParentsOver, Final, Record
    <3>3. ASSUME NEW a \in Account, AddListed(a) PROVE o \notin snap[a]
      <4> SUFFICES ASSUME o \in snap[a] PROVE FALSE
        OBVIOUS
      <4>1. AcctOf[t] = a
        BY <2>1 DEF RowsApart, RowsOf
      <4>2. QED BY <2>1, <2>4, <3>3, <4>1 DEF SnapFree, AddListed
    <3>4. QED BY <2>1, <2>2, <3>1, <3>2, <3>3, RowsMove
  <2>5. QED BY <2>3, <2>4, RecordedBefore
<1>2. SnapFree'
  <2> SUFFICES ASSUME NEW t \in OnNet', pc'[t] = "recorded",
                      syncPc'[AcctOf[t]] \in {"read", "apply"}
               PROVE  inputs'[t] \cap snap'[AcctOf[t]] = {}
    BY DEF SnapFree
  <2> DEFINE a == AcctOf[t]
  <2>1. t \in Tx /\ t \in OnNet /\ inputs'[t] = inputs[t] /\ a \in Account
    BY RecordedBefore, AcctAssumption DEF OnNet
  <2>2. CASE FetchListing(a)
    <3>1. t \in indexed
      BY <2>1 DEF ChainPart, Timely
    <3>2. snap'[a] = Listing(a)
      BY <2>1, <2>2 DEF FetchListing, TypeOK
    <3>3. QED BY <2>1, <3>1, <3>2 DEF Listing, UnspentAfter
  <2>3. CASE ~ FetchListing(a)
    <3>1. syncPc[a] \in {"read", "apply"} /\ snap'[a] = snap[a]
      BY <2>1, <2>3, WindowMoves
    <3>2. ~ (Record(t) /\ pc[t] = "accepted")
      BY <2>1, <3>1, SyncExcludesSends DEF NoLocks, LockedPhase, MarkedPhase
    <3>3. pc[t] = "recorded"
      BY <3>2, RecordedBefore
    <3>4. QED BY <2>1, <3>1, <3>3 DEF SnapFree
  <2>4. QED BY <2>2, <2>3
<1>3. QED BY <1>1, <1>2

LEMMA InitRecorded == Init => RecordedInv
<1> SUFFICES ASSUME Init PROVE RecordedInv
  OBVIOUS
<1>1. TypeOK /\ LockPart /\ RowsApart /\ ChainPart
  BY InitReserved, InitChain DEF ReservationInv
<1>2. ParentsOver /\ RecordedSpent /\ SnapFree
  BY DEF Init, ParentsOver, RecordedSpent, SnapFree, OnNet
<1>3. QED BY <1>1, <1>2 DEF RecordedInv

(* For any accounts, coins, sends and transfers, with lost answers, drops,  *)
(* failing statements, frozen outputs, slow broadcasts and restarts: while  *)
(* the indexer does not lag and nobody runs lockBSV, which takes no lock,   *)
(* no sync offers again what a recorded operation has spent.                *)
THEOREM LedgerRecorded ==
    ASSUME NoLocks, "lag" \notin Adversity
    PROVE  Spec => []RecordedInputsStaySpent
<1>1. Init => RecordedInv
  BY InitRecorded
<1>2. RecordedInv /\ [Next]_vars => RecordedInv'
  BY NextTyped, NextKeepsLock, NextKeepsRowsApart, NextKeepsChain, NextKeepsParents,
     NextKeepsRecorded DEF RecordedInv
<1>3. RecordedInv => RecordedInputsStaySpent
  BY DEF RecordedInv, RecordedSpent, RecordedInputsStaySpent
<1>4. QED BY <1>1, <1>2, <1>3, PTL DEF Spec


-----------------------------------------------------------------------------
(* What the sync writes off.                                                *)
(*                                                                          *)
(* The sync writes off a row that its listing lacks.  The row is then one   *)
(* the network knows a spender of, or the change of a transaction that is   *)
(* pending, which is spared (MissingKnown).  This must survive everything   *)
(* that happens between the listing and the end of the address, and at the  *)
(* listing it rests on ChangeKnown: a change the indexer has not heard of   *)
(* belongs to a transaction that is still pending.                          *)

SpentOnce(o) == \E t \in Tx : Landed(t) /\ o \in inputs[t]
Existing == (Coin \cup OnNet) \cap Outpoint
Spared(o) == o \in Tx /\ txStatus[o] = "pending"

NoLockRows == NoLocks => locks = {}
ChangeKnown == \A u \in OnNet \cap Outpoint :
                  status[u] # "absent" => u \in indexed \/ txStatus[u] = "pending"
MissingKnown == \A a \in Account : syncPc[a] \in {"read", "apply"} =>
                   \A o \in Existing : AcctOf[o] = a /\ status[o] # "absent" /\ o \notin snap[a]
                                       => SpentOnce(o) \/ Spared(o)
SeenPresent == \A a \in Account : syncPc[a] = "apply" =>
                  \A o \in seen[a] : status[o] # "absent" /\ AcctOf[o] = a
WrittenOffSpent == \A o \in Existing : status[o] = "spent" => SpentOnce(o)

KeptInv == /\ TypeOK /\ RowsApart /\ ChainPart /\ NoLockRows
           /\ ChangeKnown /\ MissingKnown /\ SeenPresent /\ WrittenOffSpent

\* The hypotheses: no statement fails, and the indexer does not lag while locks are
\* made (a phantom lock takes the record of its transaction with it).
KeptWorld == "fault" \notin Adversity /\ ("lag" \notin Adversity \/ NoLocks)

LEMMA NextKeepsLockRows ==
    ASSUME NoLockRows, [Next]_vars
    PROVE  NoLockRows'
<1> USE DEF table, records, sender, syncer, lock, network, NoLockRows
<1> SUFFICES ASSUME NoLocks PROVE locks' = {}
  BY DEF NoLocks
<1>1. ASSUME NEW t \in Tx, Sends(t) PROVE locks' \subseteq locks
  BY <1>1 DEF NoLocks, Sends, Call, GrantedTo, Refused, BuildAndMark, MarkFails, Broadcast,
         AnswerAccepted, AnswerRefused, RollBack, Record, StatementFails
<1>2. ASSUME NEW a \in Account, Syncs(a) PROVE locks' \subseteq locks
  BY <1>2 DEF Syncs, StartSync, SyncGranted, RecoverPending, FetchListing, ListingUnusable,
         ReadRows, AddListed, MarkMissing, AddressDone, SyncHistory, IndexerUnavailable,
         ResolvePending, PurgePhantoms, SyncCancelled
<1>3. ASSUME NEW t \in Tx, World(t) PROVE locks' = locks
  BY <1>3 DEF World, NetworkAccepts, NetworkRefuses, IndexerLearns, Mined, Dropped, TimePasses
<1>4. CASE (\E o \in Outpoint : ToggleFrozen(o)) \/ Crash \/ UNCHANGED vars
  BY <1>4 DEF ToggleFrozen, Crash, vars
<1>5. QED BY <1>1, <1>2, <1>3, <1>4 DEF Next

\* A transaction stops being pending only by a sync of its account, past its listing,
\* which found it mined, deletes its outputs, or takes it for a phantom lock.
LEMMA PendingMoves ==
    ASSUME TypeOK, [Next]_vars, NEW u \in Tx, txStatus[u] = "pending", txStatus'[u] # "pending"
    PROVE  \E a \in Account : /\ AcctOf[u] = a
                              /\ syncPc[a] \in {"history", "resolve", "purge"}
                              /\ \/ u \in indexed /\ indexed' = indexed
                                 \/ u \in Outpoint => status'[u] = "absent"
                                 \/ u \in locks \ indexed
<1> USE DEF table, records, sender, syncer, lock, network
<1>1. ASSUME NEW t \in Tx, Sends(t) PROVE FALSE
  BY <1>1 DEF Sends, Call, GrantedTo, Refused, BuildAndMark, MarkFails, Broadcast,
         AnswerAccepted, AnswerRefused, RollBack, Record, StatementFails, TypeOK
<1>2. ASSUME NEW a \in Account, Syncs(a)
      PROVE  /\ AcctOf[u] = a
             /\ syncPc[a] \in {"history", "resolve", "purge"}
             /\ \/ u \in indexed /\ indexed' = indexed
                \/ u \in Outpoint => status'[u] = "absent"
                \/ u \in locks \ indexed
  <2>1. CASE SyncHistory(a)
    BY <2>1 DEF SyncHistory, SyncStep
  <2>2. CASE ResolvePending(a)
    BY <2>2 DEF ResolvePending, SyncStep, Stale
  <2>3. CASE PurgePhantoms(a)
    BY <2>3 DEF PurgePhantoms, SyncStep
  <2>4. CASE ~ (SyncHistory(a) \/ ResolvePending(a) \/ PurgePhantoms(a))
    BY <1>2, <2>4 DEF Syncs, StartSync, SyncGranted, RecoverPending, FetchListing,
         ListingUnusable, ReadRows, AddListed, MarkMissing, AddressDone,
         IndexerUnavailable, SyncCancelled
  <2>5. QED BY <2>1, <2>2, <2>3, <2>4
<1>3. ASSUME NEW t \in Tx, World(t) PROVE FALSE
  BY <1>3 DEF World, NetworkAccepts, NetworkRefuses, IndexerLearns, Mined, Dropped, TimePasses
<1>4. CASE (\E o \in Outpoint : ToggleFrozen(o)) \/ Crash \/ UNCHANGED vars
  BY <1>4 DEF ToggleFrozen, Crash, vars
<1>5. QED BY <1>1, <1>2, <1>3, <1>4 DEF Next

\* With no failing statement, what is recorded is pending.
LEMMA RecordPends ==
    ASSUME KeptWorld, TypeOK, NEW t \in Tx, Record(t)
    PROVE  txStatus'[t] = "pending" /\ Landed(t) = Landed(t)' /\ UNCHANGED <<net, indexed, syncPc>>
BY DEF KeptWorld, Record, Fails, TypeOK, network, syncer, Landed

\* An output that exists after a step and has a row existed before, with its spenders.
LEMMA ExistedBefore ==
    ASSUME TypeOK, ChainPart, [Next]_vars, NEW o \in Existing'
    PROVE  /\ o \in Outpoint
           /\ status[o] # "absent" => o \in Existing
           /\ SpentOnce(o) => SpentOnce(o)'
           /\ o \in Tx /\ status[o] = "absent" /\ o \notin OnNet => status'[o] = "absent"
<1>1. o \in Outpoint /\ (o \in Coin \/ o \in OnNet')
  BY DEF Existing, OnNet
<1>2. SpentOnce(o) => SpentOnce(o)'
  BY LandedStays DEF SpentOnce, ChainPart, PhasePart
<1>3. o \in OnNet' /\ o \notin OnNet => NetworkAccepts(o) /\ ~ Landed(o)
  BY OnNetGrows DEF OnNet, ChainPart, PhasePart, AirFirst
<1>4. o \in OnNet' /\ o \notin OnNet => status[o] = "absent" /\ status'[o] = "absent"
  <2> SUFFICES ASSUME o \in OnNet', o \notin OnNet
               PROVE  status[o] = "absent" /\ status'[o] = "absent"
    OBVIOUS
  <2>1. status[o] = "absent" /\ o \in Tx
    BY <1>1, <1>3 DEF ChainPart, RowsLanded, OnNet
  <2>2. status' = status
    BY <1>3 DEF NetworkAccepts, table
  <2>3. QED BY <2>1, <2>2
<1>5. o \in Coin => o \notin Tx
  BY NamesAssumption
<1>6. QED BY <1>1, <1>2, <1>3, <1>4, <1>5 DEF Existing, OnNet

\* What a sync holds for present while it works through the listing.
LEMMA SeenMoves ==
    ASSUME TypeOK, [Next]_vars, NEW a \in Account, syncPc[a] = "apply",
           syncPc'[a] = "apply", NEW o \in seen'[a]
    PROVE  o \in seen[a] \/ (o \in snap[a] /\ (Fails \/ status'[o] = "unspent"))
<1> USE DEF table, records, sender, syncer, lock, network
<1>1. ASSUME NEW b \in Account, Syncs(b)
      PROVE  o \in seen[a] \/ (o \in snap[a] /\ (Fails \/ status'[o] = "unspent"))
  <2>1. CASE AddListed(b)
    <3>1. PICK p \in snap[b] : /\ AddRow(p) \/ Fails
                              /\ seen' = [seen EXCEPT ![b] = @ \cup {p}]
      BY <2>1 DEF AddListed
    <3>2. p \in Outpoint
      BY <3>1 DEF TypeOK
    <3>3. AddRow(p) => status'[p] = "unspent"
      BY <3>2 DEF AddRow, TypeOK
    <3>4. CASE b = a
      BY <3>1, <3>3, <3>4 DEF TypeOK
    <3>5. CASE b # a
      BY <3>1, <3>5 DEF TypeOK
    <3>6. QED BY <3>4, <3>5
  <2>2. CASE MarkMissing(b)
    BY <2>2 DEF MarkMissing, TypeOK
  <2>3. CASE ReadRows(b) \/ AddressDone(b)
    BY <2>3 DEF ReadRows, AddressDone, SyncStep, TypeOK
  <2>4. CASE ~ (AddListed(b) \/ MarkMissing(b) \/ ReadRows(b) \/ AddressDone(b))
    BY <1>1, <2>4 DEF Syncs, StartSync, SyncGranted, RecoverPending, FetchListing,
         ListingUnusable, SyncHistory, IndexerUnavailable, ResolvePending, PurgePhantoms,
         SyncCancelled
  <2>5. QED BY <2>1, <2>2, <2>3, <2>4
<1>2. ASSUME NEW t \in Tx, Sends(t) PROVE seen' = seen
  BY <1>2 DEF Sends, Call, GrantedTo, Refused, BuildAndMark, MarkFails, Broadcast,
         AnswerAccepted, AnswerRefused, RollBack, Record, StatementFails
<1>3. ASSUME NEW t \in Tx, World(t) PROVE seen' = seen
  BY <1>3 DEF World, NetworkAccepts, NetworkRefuses, IndexerLearns, Mined, Dropped, TimePasses
<1>4. CASE Crash
  BY <1>4 DEF Crash
<1>5. CASE (\E p \in Outpoint : ToggleFrozen(p)) \/ UNCHANGED vars
  BY <1>5 DEF ToggleFrozen, vars
<1>6. QED BY <1>1, <1>2, <1>3, <1>4, <1>5 DEF Next

\* A row appears by the record of its transaction or from a listing of its account.
LEMMA RowAppears ==
    ASSUME KeptInv, [Next]_vars, NEW o \in Outpoint, status[o] = "absent",
           status'[o] # "absent"
    PROVE  \/ o \in Tx /\ Record(o)
           \/ \E a \in Account : AddListed(a) /\ o \in snap[a] /\ AcctOf[o] = a
<1>1. status'[o] \in {"unspent", "pending", "spent"}
  BY NextTyped DEF TypeOK, KeptInv
<1>2. \A a \in Account : MarkMissing(a) => o \notin seen[a]
  BY DEF KeptInv, SeenPresent, MarkMissing
<1>3. \A a \in Account : o \in snap[a] => AcctOf[o] = a
  BY DEF KeptInv, RowsApart, RowsOf
<1>4. QED BY <1>1, <1>2, <1>3, RowsMove DEF KeptInv

LEMMA NextKeepsChangeKnown ==
    ASSUME KeptWorld, KeptInv, [Next]_vars
    PROVE  ChangeKnown'
<1> USE DEF KeptInv
<1> SUFFICES ASSUME NEW u \in OnNet', u \in Outpoint, status'[u] # "absent"
             PROVE  u \in indexed' \/ txStatus'[u] = "pending"
  BY DEF ChangeKnown
<1>1. u \in Tx /\ u \in Existing' /\ u \notin Coin
  BY NamesAssumption DEF OnNet, Existing
<1>2. u \in indexed => u \in indexed'
  BY NextKeepsIndex DEF ChainPart
<1>3. CASE status[u] # "absent"
  <2>1. u \in OnNet
    BY <1>1, <1>3, ExistedBefore DEF Existing
  <2>2. u \in locks \ indexed => FALSE
    BY <2>1 DEF KeptWorld, NoLockRows, ChainPart, Timely
  <2>3. txStatus[u] = "pending" => u \in indexed \/ txStatus'[u] = "pending"
    BY <1>1, <2>2, PendingMoves
  <2>4. QED BY <1>2, <1>3, <2>1, <2>3 DEF ChangeKnown
<1>4. CASE status[u] = "absent"
  <2>1. CASE Record(u)
    BY <1>1, <2>1, RecordPends
  <2>2. ASSUME NEW a \in Account, AddListed(a), u \in snap[a] PROVE u \in indexed
    <3>1. u \in OnNet
      BY <2>2 DEF AddListed, network, OnNet
    <3>2. QED BY <2>2, <3>1 DEF ChainPart, SnapIndexed
  <2>3. QED BY <1>2, <1>4, <2>1, <2>2, RowAppears
<1>5. QED BY <1>3, <1>4

LEMMA NextKeepsMissingKnown ==
    ASSUME KeptWorld, KeptInv, [Next]_vars
    PROVE  MissingKnown'
<1> USE DEF KeptInv
<1> SUFFICES ASSUME NEW a \in Account, syncPc'[a] \in {"read", "apply"},
                    NEW o \in Existing', AcctOf[o] = a, status'[o] # "absent",
                    o \notin snap'[a]
             PROVE  SpentOnce(o)' \/ Spared(o)'
  BY DEF MissingKnown
<1>1. o \in Outpoint /\ (SpentOnce(o) => SpentOnce(o)')
  BY ExistedBefore
<1>2. CASE FetchListing(a)
  <2>1. UNCHANGED <<status, txStatus, inputs, net, indexed>> /\ snap'[a] = Listing(a)
    BY <1>2 DEF FetchListing, table, records, sender, network, TypeOK
  <2>2. o \in Existing /\ status[o] # "absent" /\ o \notin UnspentAfter(indexed)
    BY <1>1, <2>1 DEF Existing, OnNet, Listing
  <2>3. CASE o \in Coin \cup indexed
    <3>1. PICK t \in indexed : o \in inputs[t]
      BY <2>2, <2>3, <1>1 DEF UnspentAfter
    <3>2. t \in Tx /\ Landed(t)
      BY <3>1 DEF ChainPart, IndexedOnNet, OnNet, Landed
    <3>3. QED BY <1>1, <3>1, <3>2 DEF SpentOnce
  <2>4. CASE o \notin Coin \cup indexed
    BY <2>1, <2>2, <2>4 DEF Existing, ChangeKnown, Spared, OnNet
  <2>5. QED BY <2>3, <2>4
<1>3. CASE ~ FetchListing(a)
  <2>1. syncPc[a] \in {"read", "apply"} /\ snap'[a] = snap[a]
    BY <1>3, WindowMoves
  <2>2. CASE status[o] # "absent"
    <3>1. SpentOnce(o) \/ Spared(o)
      BY <2>1, <2>2, ExistedBefore DEF MissingKnown
    <3>2. Spared(o) => Spared(o)'
      BY <2>1, PendingMoves DEF Spared
    <3>3. QED BY <1>1, <3>1, <3>2
  <2>3. CASE status[o] = "absent"
    <3>1. o \in Tx /\ Record(o)
      BY <1>1, <2>1, <2>3, RowAppears
    <3>2. QED BY <3>1, RecordPends DEF Spared
  <2>4. QED BY <2>2, <2>3
<1>4. QED BY <1>2, <1>3

LEMMA NextKeepsSeenPresent ==
    ASSUME KeptWorld, KeptInv, [Next]_vars
    PROVE  SeenPresent'
<1> USE DEF KeptInv
<1> SUFFICES ASSUME NEW a \in Account, syncPc'[a] = "apply", NEW o \in seen'[a]
             PROVE  status'[o] # "absent" /\ AcctOf[o] = a
  BY DEF SeenPresent
<1>1. ~ FetchListing(a)
  BY DEF FetchListing, SyncStep, TypeOK
<1>2. CASE ReadRows(a)
  BY <1>2 DEF ReadRows, SpendableRows, table, TypeOK
<1>3. CASE syncPc[a] = "apply"
  <2>1. o \in seen[a] \/ (o \in snap[a] /\ status'[o] = "unspent")
    BY <1>3, SeenMoves DEF KeptWorld, Fails
  <2>2. CASE o \in seen[a]
    <3>1. o \in Outpoint /\ status[o] # "absent" /\ AcctOf[o] = a
      BY <1>3, <2>2 DEF SeenPresent, TypeOK
    <3>2. ~ ResolvePending(a)
      BY <1>3 DEF ResolvePending, SyncStep
    <3>3. QED BY <3>1, <3>2, RowsMove
  <2>3. CASE o \in snap[a] /\ status'[o] = "unspent"
    BY <2>3 DEF RowsApart, RowsOf
  <2>4. QED BY <2>1, <2>2, <2>3
<1>4. QED BY <1>1, <1>2, <1>3, WindowMoves

LEMMA NextKeepsWrittenOff ==
    ASSUME KeptWorld, KeptInv, [Next]_vars
    PROVE  WrittenOffSpent'
<1> USE DEF KeptInv
<1> SUFFICES ASSUME NEW o \in Existing', status'[o] = "spent" PROVE SpentOnce(o)'
  BY DEF WrittenOffSpent
<1>1. /\ o \in Outpoint /\ (SpentOnce(o) => SpentOnce(o)')
      /\ status[o] # "absent" => o \in Existing
  BY ExistedBefore
<1>2. CASE status[o] = "spent"
  BY <1>1, <1>2 DEF WrittenOffSpent
<1>3. ASSUME NEW t \in Tx, Record(t), o \in inputs[t] PROVE SpentOnce(o)
  BY <1>3 DEF Record, ChainPart, PhasePart, AcceptedLanded, SpentOnce
<1>4. ASSUME NEW a \in Account, MarkMissing(a), o \in seen[a] \ snap[a],
             o \in PendingTxids => Fails
      PROVE  SpentOnce(o)
  <2>1. syncPc[a] = "apply" /\ status[o] # "absent" /\ AcctOf[o] = a
    BY <1>4 DEF MarkMissing, SeenPresent
  <2>2. SpentOnce(o) \/ Spared(o)
    BY <1>1, <1>4, <2>1 DEF MissingKnown
  <2>3. ~ Spared(o)
    BY <1>4 DEF Spared, PendingTxids, KeptWorld, Fails
  <2>4. QED BY <2>2, <2>3
<1>5. QED BY <1>1, <1>2, <1>3, <1>4, RowsMove

LEMMA InitKept == Init => KeptInv
<1> SUFFICES ASSUME Init PROVE KeptInv
  OBVIOUS
<1>1. TypeOK /\ RowsApart /\ ChainPart
  BY InitReserved, InitChain DEF ReservationInv
<1>2. ChangeKnown /\ WrittenOffSpent /\ NoLockRows
  BY DEF Init, ChangeKnown, WrittenOffSpent, NoLockRows, OnNet, Existing
<1>3. MissingKnown /\ SeenPresent
  BY DEF Init, MissingKnown, SeenPresent
<1>4. QED BY <1>1, <1>2, <1>3 DEF KeptInv

(* For any accounts, coins and operations, with lost answers, drops, frozen *)
(* outputs, slow broadcasts and restarts, and with an indexer that lags if  *)
(* nobody runs lockBSV: while no statement fails, no sync writes off a coin *)
(* the wallet still owns.  The lock plays no part in it.                    *)
THEOREM LedgerKeepsCoins ==
    ASSUME KeptWorld
    PROVE  Spec => []LiveCoinsKept
<1>1. Init => KeptInv
  BY InitKept
<1>2. KeptInv /\ [Next]_vars => KeptInv'
  BY NextTyped, NextKeepsRowsApart, NextKeepsChain, NextKeepsLockRows,
     NextKeepsChangeKnown, NextKeepsMissingKnown, NextKeepsSeenPresent,
     NextKeepsWrittenOff DEF KeptInv
<1>3. KeptInv => LiveCoinsKept
  BY DEF KeptInv, WrittenOffSpent, LiveCoinsKept, SpentOnce, Existing, UnspentAfter, OnNet,
         Landed, TypeOK
<1>4. QED BY <1>1, <1>2, <1>3, PTL DEF Spec

-----------------------------------------------------------------------------
(* One account.                                                             *)
(*                                                                          *)
(* With two accounts and failing statements the reservation does not hold:  *)
(* the sync of one recovers old marks of the other, which a send that       *)
(* failed left on rows that a send in flight has counted on.  Within one    *)
(* account the lock alone is enough, whatever fails.                        *)

OneAccount == \A a, b \in Account : a = b
OneAccountInv == TypeOK /\ LockPart /\ InFlightInputsReserved

\* Only a step that holds a lock offers a row that was not offered.
LEMMA OffersMove ==
    ASSUME TypeOK, [Next]_vars, NEW o \in Outpoint,
           status[o] # "unspent", status'[o] = "unspent"
    PROVE  \/ \E t \in Tx : RollBack(t) \/ Record(t)
           \/ \E a \in Account : syncPc[a] \notin {"idle", "queued"}
<1> USE DEF table, records, sender, syncer, lock, network
<1>1. ASSUME NEW t \in Tx, Sends(t) PROVE RollBack(t) \/ Record(t)
  <2>1. ASSUME BuildAndMark(t) \/ MarkFails(t) PROVE FALSE
    <3>1. \E S : MarkPending(S, t)
      BY <2>1 DEF BuildAndMark, MarkFails
    <3>2. QED BY <3>1 DEF MarkPending, SetStatus
  <2>2. ASSUME ~ RollBack(t), ~ Record(t), ~ BuildAndMark(t), ~ MarkFails(t) PROVE FALSE
    BY <1>1, <2>2 DEF Sends, Call, GrantedTo, Refused, Broadcast, AnswerAccepted,
                      AnswerRefused, StatementFails
  <2>3. QED BY <2>1, <2>2
<1>2. ASSUME NEW t \in Tx, World(t) PROVE FALSE
  BY <1>2 DEF World, NetworkAccepts, NetworkRefuses, IndexerLearns, Mined, Dropped, TimePasses
<1>3. ASSUME NEW a \in Account, Syncs(a) PROVE syncPc[a] \notin {"idle", "queued"}
  BY <1>3 DEF Syncs, StartSync, SyncGranted, SyncStep, RecoverPending, FetchListing,
              ListingUnusable, ReadRows, AddListed, MarkMissing, AddressDone, SyncHistory,
              IndexerUnavailable, ResolvePending, PurgePhantoms, SyncCancelled
<1>4. ASSUME NEW p \in Outpoint, ToggleFrozen(p) PROVE FALSE
  BY <1>4 DEF ToggleFrozen
<1>5. ASSUME Crash PROVE FALSE
  BY <1>5 DEF Crash
<1>6. ASSUME UNCHANGED vars PROVE FALSE
  BY <1>6 DEF vars
<1>7. QED BY <1>1, <1>2, <1>3, <1>4, <1>5, <1>6 DEF Next

\* What is in flight after a step was so before it, or has just been marked.
LEMMA FlightMoves ==
    ASSUME TypeOK, [Next]_vars, NEW t \in Tx, pc'[t] \in InFlightPhase
    PROVE  BuildAndMark(t) \/ pc[t] \in InFlightPhase
<1> USE DEF table, records, sender, syncer, lock, network, InFlightPhase
<1>1. ASSUME NEW u \in Tx, Sends(u) PROVE BuildAndMark(t) \/ pc[t] \in InFlightPhase
  BY <1>1 DEF Sends, Call, GrantedTo, Refused, BuildAndMark, MarkFails, Broadcast,
              AnswerAccepted, AnswerRefused, RollBack, Record, StatementFails, Ends, TypeOK
<1>2. ASSUME NEW u \in Tx, World(u) PROVE pc[t] \in InFlightPhase
  BY <1>2 DEF World, NetworkAccepts, NetworkRefuses, IndexerLearns, Mined, Dropped, TimePasses
<1>3. ASSUME NEW a \in Account, Syncs(a) PROVE pc[t] \in InFlightPhase
  BY <1>3 DEF Syncs, StartSync, SyncGranted, RecoverPending, FetchListing,
              ListingUnusable, ReadRows, AddListed, MarkMissing, AddressDone, SyncHistory,
              IndexerUnavailable, ResolvePending, PurgePhantoms, SyncCancelled
<1>4. ASSUME NEW p \in Outpoint, ToggleFrozen(p) PROVE pc[t] \in InFlightPhase
  BY <1>4 DEF ToggleFrozen
<1>5. ASSUME Crash PROVE pc[t] \in InFlightPhase
  BY <1>5 DEF Crash, Final
<1>6. ASSUME UNCHANGED vars PROVE pc[t] \in InFlightPhase
  BY <1>6 DEF vars
<1>7. QED BY <1>1, <1>2, <1>3, <1>4, <1>5, <1>6 DEF Next

LEMMA NextKeepsReserved ==
    ASSUME NoLocks, OneAccount, OneAccountInv, [Next]_vars
    PROVE  InFlightInputsReserved'
<1> USE DEF OneAccountInv
<1> SUFFICES ASSUME NEW t \in Tx, pc'[t] \in InFlightPhase, NEW o \in inputs'[t],
                    status'[o] = "unspent"
             PROVE  FALSE
  BY DEF InFlightInputsReserved, InFlightPhase
<1>1. CASE BuildAndMark(t)
  <2>1. PICK S \in SUBSET have[t] \ {{}} : /\ inputs' = [inputs EXCEPT ![t] = S]
                                         /\ MarkPending(S, t)
    BY <1>1 DEF BuildAndMark
  <2>2. o \in S /\ o \in Outpoint
    BY <2>1 DEF TypeOK
  <2>3. QED BY <2>1, <2>2 DEF MarkPending, SetStatus
<1>2. CASE ~ BuildAndMark(t)
  <2>1. pc[t] \in InFlightPhase
    BY <1>2, FlightMoves
  <2>2. inputs'[t] = inputs[t]
    BY <2>1, InputsMove DEF InFlightPhase
  <2>3. status[o] # "unspent" /\ o \in Outpoint
    BY <2>1, <2>2 DEF InFlightInputsReserved, InFlightPhase, TypeOK
  <2>4. pc[t] \in LockedPhase /\ AcctOf[t] \in Account
    BY <2>1, AcctAssumption DEF LockedPhase, MarkedPhase, InFlightPhase
  <2>5. ASSUME NEW u \in Tx, RollBack(u) \/ Record(u) PROVE FALSE
    <3>1. pc[u] \in LockedPhase
      BY <2>5 DEF RollBack, Record, LockedPhase, MarkedPhase, InFlightPhase
    <3>2. u = t
      BY <2>4, <3>1, AcctAssumption, OneOwnerPerAccount DEF OneAccount, NoLocks
    <3>3. QED BY <2>5, <3>2 DEF RollBack, Record, Ends, InFlightPhase, TypeOK
  <2>6. ASSUME NEW a \in Account, syncPc[a] \notin {"idle", "queued"} PROVE FALSE
    BY <2>4, <2>6, SyncExcludesSends DEF OneAccount, NoLocks
  <2>7. QED BY <2>3, <2>5, <2>6, OffersMove
<1>3. QED BY <1>1, <1>2

(* For one account, any coins, sends and transfers, and whatever goes wrong *)
(* (failing statements and broadcasts that outlast the recovery included):  *)
(* the inputs of an operation in flight are offered to nobody.              *)
THEOREM LedgerOneAccount ==
    ASSUME NoLocks, OneAccount
    PROVE  Spec => []InFlightInputsReserved
<1>1. Init => OneAccountInv
  BY InitReserved DEF ReservationInv, RowPart, OneAccountInv
<1>2. OneAccountInv /\ [Next]_vars => OneAccountInv'
  BY NextTyped, NextKeepsLock, NextKeepsReserved DEF OneAccountInv
<1>3. OneAccountInv => InFlightInputsReserved
  BY DEF OneAccountInv
<1>4. QED BY <1>1, <1>2, <1>3, PTL DEF Spec
=============================================================================
