------------------------- MODULE PaymentInboxProofs -------------------------
(***************************************************************************)
(* Theorems about PaymentInbox, for every set of messages, payments and    *)
(* checks, and every limit.                                                *)
(*                                                                         *)
(* DeletedIsKept is not inductive.  A save replaces what is stored by what *)
(* memory holds, so memory must hold it already: StoredIsKnown.  This      *)
(* fails only between a start and the first reload, when nothing can save. *)
(* A check deletes messages after it put their payments in memory, which   *)
(* may have been replaced since: ProcessedIsKept.                          *)
(*                                                                         *)
(* The types say that no payment is in a list twice and that no list is    *)
(* longer than its limit.  AnnouncedOnce rests on what a check has found   *)
(* new and not announced yet (OnceInv).                                    *)
(***************************************************************************)
EXTENDS PaymentInbox, FiniteSetTheorems, TLAPS

Remembered == ToSet(known) \cup forgotten
Acts == {"acknowledging", "saving"}

Typed ==
    /\ box \subseteq sent /\ sent \subseteq Message
    /\ known \in Seq(Payment) /\ stored \in Seq(Payment)
    /\ stage \in [Check -> {"idle", "listing", "listed"} \cup Acts]
    /\ listing \in [Check -> SUBSET Message]
    /\ fresh \in [Check -> SUBSET Payment]

Started == wallet # NoAccount \/ (\E c \in Check : stage[c] # "idle")
StoredIsKnown == Started => ToSet(stored) \subseteq Remembered
ProcessedIsKept ==
    \A c \in Check : stage[c] \in Acts => PaidBy(listing[c]) \subseteq Remembered
BeingSaved == \A p \in ToSet(known) \ ToSet(stored) : UnderWay(p)
DeletedKnown == PaidBy(sent \ box) \subseteq Remembered \cup ToSet(stored)
DeletedPaid == \A m \in sent \ box : Pays[m] # NoPayment

InboxInv ==
    /\ Typed /\ StoredIsKnown /\ ProcessedIsKept /\ BeingSaved /\ DeletedKnown /\ DeletedPaid

-----------------------------------------------------------------------------
(* Sequences.                                                               *)

LEMMA ToSetTyped ==
    ASSUME NEW S, NEW s \in Seq(S)
    PROVE  ToSet(s) \subseteq S
BY DEF ToSet

LEMMA ToSetConcat ==
    ASSUME NEW S, NEW s \in Seq(S), NEW t \in Seq(S)
    PROVE  s \o t \in Seq(S) /\ ToSet(s \o t) \subseteq ToSet(s) \cup ToSet(t)
<1>1. s \o t \in Seq(S) /\ Len(s \o t) = Len(s) + Len(t)
  OBVIOUS
<1>2. ASSUME NEW i \in 1..Len(s \o t) PROVE (s \o t)[i] \in ToSet(s) \cup ToSet(t)
  <2>1. CASE i <= Len(s)
    BY <2>1 DEF ToSet
  <2>2. CASE i > Len(s)
    <3>1. i - Len(s) \in 1..Len(t) /\ (s \o t)[i] = t[i - Len(s)]
      BY <1>1, <2>2
    <3>2. QED BY <3>1 DEF ToSet
  <2>3. QED BY <1>1, <2>1, <2>2
<1>3. QED BY <1>1, <1>2 DEF ToSet

LEMMA CappedTyped ==
    ASSUME NEW S, NEW s \in Seq(S)
    PROVE  Capped(s) \in Seq(S) /\ ToSet(Capped(s)) \subseteq ToSet(s)
<1> DEFINE first == IF Len(s) > MaxKept THEN Len(s) - MaxKept + 1 ELSE 1
<1>1. first \in Nat /\ first >= 1
  BY BoundAssumption
<1>2. SubSeq(s, first, Len(s)) \in Seq(S)
  BY <1>1
<1>3. ASSUME NEW i \in DOMAIN SubSeq(s, first, Len(s))
      PROVE  SubSeq(s, first, Len(s))[i] \in ToSet(s)
  <2>1. first + i - 1 \in 1..Len(s) /\ SubSeq(s, first, Len(s))[i] = s[first + i - 1]
    BY <1>1
  <2>2. DOMAIN s = 1..Len(s)
    OBVIOUS
  <2>3. QED BY <2>1, <2>2 DEF ToSet
<1>4. QED BY <1>2, <1>3 DEF Capped, ToSet

LEMMA SeqOfSet ==
    ASSUME NEW S, NEW T \in SUBSET S, IsFiniteSet(T), NEW t \in SetToSeqs(T)
    PROVE  t \in Seq(S) /\ ToSet(t) \subseteq T
<1>1. Cardinality(T) \in Nat
  BY FS_CardinalityType
<1>2. t \in [1..Cardinality(T) -> T]
  BY DEF SetToSeqs
<1>3. t \in Seq(T)
  BY <1>1, <1>2
<1>4. QED BY <1>3, ToSetTyped

\* The payments of a listing.
LEMMA PaidTyped ==
    ASSUME NEW M \in SUBSET Message
    PROVE  PaidBy(M) \subseteq Payment /\ IsFiniteSet(PaidBy(M))
<1>1. PaidBy(M) \subseteq Payment
  BY MessageAssumption DEF PaidBy
<1>2. IsFiniteSet(M)
  BY MessageAssumption, FS_Subset
<1>3. IsFiniteSet({Pays[m] : m \in M})
  <2> DEFINE f == [m \in M |-> Pays[m]]
  <2>1. f \in Surjection(M, {Pays[m] : m \in M})
    BY DEF Surjection
  <2>2. QED BY <1>2, <2>1, FS_Surjection
<1>4. IsFiniteSet(PaidBy(M))
  BY <1>3, FS_Subset DEF PaidBy
<1>5. QED BY <1>1, <1>4

-----------------------------------------------------------------------------
(* The invariant.                                                           *)

LEMMA InitInbox == Init => InboxInv
<1> SUFFICES ASSUME Init PROVE InboxInv
  OBVIOUS
<1>1. Typed
  BY DEF Init, Typed
<1>2. ToSet(known) = {} /\ ToSet(stored) = {} /\ PaidBy(sent \ box) = {} /\ sent \ box = {}
  BY DEF Init, ToSet, PaidBy
<1>3. \A c \in Check : stage[c] \notin Acts
  BY DEF Init, Acts
<1>4. QED
  BY <1>1, <1>2, <1>3 DEF InboxInv, StoredIsKnown, ProcessedIsKept, BeingSaved, DeletedKnown,
                          DeletedPaid

\* A step that leaves messages, memory and storage alone, and the checks that save.
LEMMA AsideKeeps ==
    ASSUME InboxInv, Typed', UNCHANGED <<box, sent, known, stored, forgotten>>,
           Started' => Started,
           \A c \in Check : (stage'[c] \in Acts <=> stage[c] \in Acts),
           \A c \in Check : stage[c] \in Acts => listing'[c] = listing[c]
    PROVE  InboxInv'
<1>1. ASSUME NEW c \in Check, stage[c] \in Acts PROVE PaidBy(listing[c])' = PaidBy(listing[c])
  BY <1>1 DEF PaidBy
<1>2. StoredIsKnown' /\ DeletedKnown' /\ DeletedPaid'
  BY DEF InboxInv, StoredIsKnown, DeletedKnown, DeletedPaid, Remembered, ToSet, PaidBy
<1>3. ProcessedIsKept'
  BY <1>1 DEF InboxInv, ProcessedIsKept, Remembered, ToSet
<1>4. BeingSaved'
  <2>1. ASSUME NEW p, UnderWay(p) PROVE UnderWay(p)'
    BY <1>1, <2>1 DEF UnderWay, Acts
  <2>2. QED BY <2>1 DEF InboxInv, BeingSaved, ToSet
<1>5. QED BY <1>2, <1>3, <1>4 DEF InboxInv

\* A check that begins, or that ends before it has processed anything.
LEMMA EdgeStep ==
    ASSUME InboxInv, NEW c \in Check,
           \/ Tick(c) \/ CheckMessageBox(c)
           \/ Unauthorized(c) \/ ListFails(c) \/ Listed(c) \/ AcknowledgeFails(c)
    PROVE  InboxInv'
<1> USE DEF serverVars, storeVars, walletVars
<1>1. UNCHANGED <<box, sent, known, stored, forgotten>> /\ wallet' = wallet
  BY DEF Tick, CheckMessageBox, Unauthorized, ListFails, Listed, AcknowledgeFails
<1>2. Typed'
  BY <1>1 DEF Tick, CheckMessageBox, Unauthorized, ListFails, Listed, AcknowledgeFails,
              Starts, Leaves, InboxInv, Typed, Acts
<1>3. Started' => Started
  BY <1>1 DEF Tick, CheckMessageBox, Unauthorized, ListFails, Listed, AcknowledgeFails,
              Starts, Leaves, InboxInv, Typed, Started
<1>4. \A d \in Check : (stage'[d] \in Acts <=> stage[d] \in Acts)
  BY DEF Tick, CheckMessageBox, Unauthorized, ListFails, Listed, AcknowledgeFails,
         Starts, Leaves, InboxInv, Typed, Acts
<1>5. \A d \in Check : stage[d] \in Acts => listing'[d] = listing[d]
  BY DEF Tick, CheckMessageBox, Unauthorized, ListFails, Listed, AcknowledgeFails,
         Starts, Leaves, InboxInv, Typed, Acts
<1>6. QED BY <1>1, <1>2, <1>3, <1>4, <1>5, AsideKeeps

LEMMA ProcessStep ==
    ASSUME InboxInv, NEW c \in Check, Process(c)
    PROVE  InboxInv'
<1>1. stage[c] = "listed" /\ listing[c] \in SUBSET Message /\ UNCHANGED <<box, sent, stored, wallet>>
  BY DEF Process, InboxInv, Typed, serverVars, walletVars
<1>2. NotKnown(c) \subseteq Payment /\ IsFiniteSet(NotKnown(c))
  BY <1>1, PaidTyped, FS_Subset DEF NotKnown
<1>3. PICK new \in SetToSeqs(NotKnown(c)) : known' = Capped(known \o new)
  BY DEF Process
<1>4. new \in Seq(Payment) /\ ToSet(new) \subseteq NotKnown(c)
  BY <1>2, <1>3, SeqOfSet
<1>5. known \o new \in Seq(Payment) /\ ToSet(known \o new) \subseteq ToSet(known) \cup ToSet(new)
  BY <1>4, ToSetConcat DEF InboxInv, Typed
<1>6. known' \in Seq(Payment) /\ ToSet(known') \subseteq ToSet(known) \cup NotKnown(c)
  BY <1>3, <1>4, <1>5, CappedTyped
<1>7. Remembered \cup NotKnown(c) \subseteq Remembered'
  <2>1. forgotten' = forgotten \cup ((ToSet(known) \cup NotKnown(c)) \ ToSet(known'))
    BY DEF Process
  <2>2. ToSet(known)' = ToSet(known')
    BY DEF ToSet
  <2>3. QED BY <2>1, <2>2 DEF Remembered
<1>8. CASE PaidBy(listing[c]) = {}
  <2>1. stage' = [stage EXCEPT ![c] = "idle"] /\ listing' = [listing EXCEPT ![c] = {}]
        /\ fresh' = [fresh EXCEPT ![c] = {}]
    BY <1>8 DEF Process, Leaves
  <2>2. Typed'
    BY <1>1, <1>6, <2>1 DEF InboxInv, Typed, Acts
  <2>3. StoredIsKnown' /\ DeletedKnown' /\ DeletedPaid'
    <3>1. ToSet(stored)' = ToSet(stored) /\ PaidBy(sent \ box)' = PaidBy(sent \ box)
      BY <1>1 DEF ToSet, PaidBy
    <3>2. Started
      BY <1>1 DEF Started
    <3>3. QED BY <1>1, <1>7, <3>1, <3>2 DEF InboxInv, StoredIsKnown, DeletedKnown, DeletedPaid
  <2>4. ProcessedIsKept'
    <3>1. ASSUME NEW d \in Check, stage'[d] \in Acts PROVE (PaidBy(listing[d]) \subseteq Remembered)'
      <4>1. d # c /\ stage[d] \in Acts /\ listing'[d] = listing[d]
        BY <2>1, <3>1 DEF InboxInv, Typed, Acts
      <4>2. PaidBy(listing[d])' = PaidBy(listing[d])
        BY <4>1 DEF PaidBy
      <4>3. QED BY <1>7, <4>1, <4>2 DEF InboxInv, ProcessedIsKept
    <3>2. QED BY <3>1 DEF ProcessedIsKept
  <2>5. BeingSaved'
    <3>1. NotKnown(c) = {}
      BY <1>8 DEF NotKnown
    <3>2. ASSUME NEW p, UnderWay(p) PROVE UnderWay(p)'
      <4>1. PICK d \in Check : stage[d] \in Acts /\ p \in PaidBy(listing[d])
        BY <3>2 DEF UnderWay, Acts
      <4>2. d # c
        BY <1>1, <4>1 DEF Acts
      <4>3. stage'[d] = stage[d] /\ listing'[d] = listing[d]
        BY <2>1, <4>2 DEF InboxInv, Typed
      <4>4. QED BY <4>1, <4>3 DEF UnderWay, PaidBy, Acts
    <3>3. ToSet(known)' \ ToSet(stored)' \subseteq ToSet(known) \ ToSet(stored)
      BY <1>1, <1>6, <3>1 DEF ToSet
    <3>4. QED BY <3>2, <3>3 DEF InboxInv, BeingSaved
  <2>6. QED BY <2>2, <2>3, <2>4, <2>5 DEF InboxInv
<1>9. CASE PaidBy(listing[c]) # {}
  <2>1. stage' = [stage EXCEPT ![c] = "acknowledging"] /\ listing' = listing
        /\ fresh' = [fresh EXCEPT ![c] = NotKnown(c)]
    BY <1>9 DEF Process
  <2>2. Typed'
    BY <1>1, <1>2, <1>6, <2>1 DEF InboxInv, Typed, Acts
  <2>3. StoredIsKnown' /\ DeletedKnown' /\ DeletedPaid'
    <3>1. ToSet(stored)' = ToSet(stored) /\ PaidBy(sent \ box)' = PaidBy(sent \ box)
      BY <1>1 DEF ToSet, PaidBy
    <3>2. Started
      BY <1>1 DEF Started
    <3>3. QED BY <1>1, <1>7, <3>1, <3>2 DEF InboxInv, StoredIsKnown, DeletedKnown, DeletedPaid
  <2>4. ASSUME NEW d \in Check PROVE PaidBy(listing[d])' = PaidBy(listing[d])
    BY <2>1 DEF PaidBy
  <2>5. ProcessedIsKept'
    <3>1. ASSUME NEW d \in Check, stage'[d] \in Acts PROVE PaidBy(listing[d]) \subseteq Remembered'
      <4>1. CASE d = c
        BY <1>7, <4>1 DEF NotKnown, Remembered
      <4>2. CASE d # c
        <5>1. stage[d] \in Acts
          BY <2>1, <3>1, <4>2 DEF InboxInv, Typed
        <5>2. QED BY <1>7, <5>1 DEF InboxInv, ProcessedIsKept
      <4>3. QED BY <4>1, <4>2
    <3>2. QED BY <2>4, <3>1 DEF ProcessedIsKept
  <2>6. BeingSaved'
    <3>1. ASSUME NEW p \in ToSet(known) \ ToSet(stored) PROVE UnderWay(p)'
      <4>1. PICK d \in Check : stage[d] \in Acts /\ p \in PaidBy(listing[d])
        BY <3>1 DEF UnderWay, Acts, InboxInv, BeingSaved
      <4>2. stage'[d] \in Acts
        BY <2>1, <4>1 DEF InboxInv, Typed, Acts
      <4>3. QED BY <2>4, <4>1, <4>2 DEF UnderWay, Acts
    <3>2. ASSUME NEW p \in NotKnown(c) PROVE UnderWay(p)'
      <4>1. stage'[c] \in Acts /\ p \in PaidBy(listing[c])
        BY <2>1, <3>2 DEF InboxInv, Typed, Acts, NotKnown
      <4>2. QED BY <2>4, <4>1 DEF UnderWay, Acts
    <3>3. ToSet(known)' \ ToSet(stored)' \subseteq (ToSet(known) \ ToSet(stored)) \cup NotKnown(c)
      BY <1>1, <1>6 DEF ToSet
    <3>4. QED BY <3>1, <3>2, <3>3 DEF BeingSaved
  <2>7. QED BY <2>2, <2>3, <2>5, <2>6 DEF InboxInv
<1>10. QED BY <1>8, <1>9

\* The server deletes what the check has processed.
LEMMA AcknowledgeStep ==
    ASSUME InboxInv, NEW c \in Check, Acknowledge(c)
    PROVE  InboxInv'
<1>1. /\ stage[c] \in Acts /\ stage' = [stage EXCEPT ![c] = "saving"]
      /\ box' = box \ Processed(c)
      /\ UNCHANGED <<sent, known, stored, forgotten, listing, fresh, wallet>>
  BY DEF Acknowledge, Acts, storeVars, walletVars
<1>2. Typed'
  BY <1>1 DEF InboxInv, Typed, Acts
<1>3. /\ Remembered' = Remembered /\ ToSet(stored)' = ToSet(stored) /\ ToSet(known)' = ToSet(known)
      /\ \A d \in Check : PaidBy(listing[d])' = PaidBy(listing[d])
      /\ \A d \in Check : stage'[d] \in Acts <=> stage[d] \in Acts
  BY <1>1 DEF Remembered, ToSet, PaidBy, InboxInv, Typed, Acts
<1>4. StoredIsKnown' /\ ProcessedIsKept'
  BY <1>1, <1>3 DEF InboxInv, StoredIsKnown, ProcessedIsKept, Started, Acts
<1>5. BeingSaved'
  BY <1>3 DEF InboxInv, BeingSaved, UnderWay, Acts
<1>6. DeletedKnown'
  <2>1. PaidBy(sent \ box)' \subseteq PaidBy(sent \ box) \cup PaidBy(listing[c])
    BY <1>1 DEF PaidBy, Processed
  <2>2. PaidBy(listing[c]) \subseteq Remembered
    BY <1>1 DEF InboxInv, ProcessedIsKept
  <2>3. QED BY <1>3, <2>1, <2>2 DEF InboxInv, DeletedKnown
<1>7. DeletedPaid'
  BY <1>1 DEF InboxInv, DeletedPaid, Processed
<1>8. QED BY <1>2, <1>4, <1>5, <1>6, <1>7 DEF InboxInv

\* What is stored is what memory holds, and memory held what was stored.
LEMMA SaveStep ==
    ASSUME InboxInv, NEW c \in Check, Save(c)
    PROVE  InboxInv'
<1>1. /\ stage[c] = "saving" /\ stage' = [stage EXCEPT ![c] = "idle"]
      /\ listing' = [listing EXCEPT ![c] = {}] /\ fresh' = [fresh EXCEPT ![c] = {}]
      /\ stored' = known /\ UNCHANGED <<box, sent, known, forgotten>>
  BY DEF Save, Leaves, serverVars
<1>2. Typed'
  BY <1>1 DEF InboxInv, Typed, Acts
<1>3. Remembered' = Remembered /\ ToSet(known)' = ToSet(known) /\ ToSet(stored)' = ToSet(known)
  BY <1>1 DEF Remembered, ToSet
<1>4. StoredIsKnown' /\ BeingSaved'
  BY <1>3 DEF StoredIsKnown, BeingSaved, Remembered
<1>5. ProcessedIsKept'
  <2>1. ASSUME NEW d \in Check, stage'[d] \in Acts PROVE (PaidBy(listing[d]) \subseteq Remembered)'
    <3>1. d # c /\ stage[d] \in Acts /\ listing'[d] = listing[d]
      BY <1>1, <2>1 DEF InboxInv, Typed, Acts
    <3>2. PaidBy(listing[d])' = PaidBy(listing[d])
      BY <3>1 DEF PaidBy
    <3>3. QED BY <1>3, <3>1, <3>2 DEF InboxInv, ProcessedIsKept
  <2>2. QED BY <2>1 DEF ProcessedIsKept
<1>6. DeletedKnown' /\ DeletedPaid'
  <2>1. PaidBy(sent \ box)' = PaidBy(sent \ box)
    BY <1>1 DEF PaidBy
  <2>2. ToSet(stored) \subseteq Remembered
    BY <1>1 DEF InboxInv, StoredIsKnown, Started
  <2>3. QED BY <1>1, <1>3, <2>1, <2>2 DEF InboxInv, DeletedKnown, DeletedPaid
<1>7. QED BY <1>2, <1>4, <1>5, <1>6 DEF InboxInv

\* The reload: what it makes memory forget is recorded.
LEMMA ListenStep ==
    ASSUME InboxInv, NEW c \in Check, Listen(c)
    PROVE  InboxInv'
<1>1. /\ stage[c] = "idle" /\ stage' = [stage EXCEPT ![c] = "listing"]
      /\ known' = Reloaded /\ forgotten' = forgotten \cup (ToSet(known) \ ToSet(known'))
      /\ UNCHANGED <<box, sent, stored, listing, fresh>>
  BY DEF Listen, Starts, serverVars
<1>2. Typed'
  BY <1>1 DEF InboxInv, Typed, Acts, Reloaded
<1>3. /\ ToSet(known)' = ToSet(known') /\ ToSet(stored)' = ToSet(stored)
      /\ PaidBy(sent \ box)' = PaidBy(sent \ box)
      /\ \A d \in Check : PaidBy(listing[d])' = PaidBy(listing[d])
      /\ \A d \in Check : stage'[d] \in Acts <=> stage[d] \in Acts
  BY <1>1 DEF ToSet, PaidBy, InboxInv, Typed, Acts
<1>4. Remembered \subseteq Remembered'
  BY <1>1, <1>3 DEF Remembered
<1>5. ToSet(known)' = ToSet(stored) \/ (ToSet(known)' = ToSet(known) /\ ToSet(stored) = {})
  BY <1>1, <1>3 DEF Reloaded, ToSet
<1>6. StoredIsKnown' /\ ProcessedIsKept'
  BY <1>3, <1>4, <1>5 DEF InboxInv, StoredIsKnown, ProcessedIsKept, Remembered
<1>7. BeingSaved'
  BY <1>3, <1>5 DEF InboxInv, BeingSaved, UnderWay, Acts
<1>8. DeletedKnown' /\ DeletedPaid'
  BY <1>1, <1>3, <1>4 DEF InboxInv, DeletedKnown, DeletedPaid
<1>9. QED BY <1>2, <1>6, <1>7, <1>8 DEF InboxInv

LEMMA RestartStep ==
    ASSUME InboxInv, Restart
    PROVE  InboxInv'
<1>1. /\ wallet' = NoAccount /\ known' = <<>>
      /\ forgotten' = forgotten \cup (ToSet(known) \ ToSet(stored))
      /\ stage' = [c \in Check |-> "idle"] /\ listing' = [c \in Check |-> {}]
      /\ fresh' = [c \in Check |-> {}]
      /\ UNCHANGED <<box, sent, stored>>
  BY DEF Restart, serverVars
<1>2. Typed'
  BY <1>1 DEF InboxInv, Typed, Acts
<1>3. StoredIsKnown' /\ ProcessedIsKept' /\ BeingSaved'
  BY <1>1 DEF StoredIsKnown, Started, ProcessedIsKept, BeingSaved, Acts, ToSet
<1>4. /\ ToSet(stored)' = ToSet(stored) /\ PaidBy(sent \ box)' = PaidBy(sent \ box)
      /\ Remembered \subseteq Remembered' \cup ToSet(stored)
  BY <1>1 DEF Remembered, ToSet, PaidBy
<1>5. DeletedKnown' /\ DeletedPaid'
  BY <1>1, <1>4 DEF InboxInv, DeletedKnown, DeletedPaid
<1>6. QED BY <1>2, <1>3, <1>5 DEF InboxInv

LEMMA SendStep ==
    ASSUME InboxInv, NEW m \in Message, Send(m)
    PROVE  InboxInv'
<1>1. /\ sent' = sent \cup {m} /\ box' = box \cup {m} /\ m \notin sent
      /\ UNCHANGED <<known, stored, forgotten, wallet, stage, listing, fresh>>
  BY DEF Send, storeVars, walletVars, checkVars
<1>2. sent' \ box' = sent \ box
  BY <1>1 DEF InboxInv, Typed
<1>3. Typed'
  BY <1>1 DEF InboxInv, Typed
<1>4. /\ ToSet(known)' = ToSet(known) /\ ToSet(stored)' = ToSet(stored) /\ Remembered' = Remembered
      /\ PaidBy(sent \ box)' = PaidBy(sent \ box)
      /\ \A c \in Check : PaidBy(listing[c])' = PaidBy(listing[c])
  BY <1>1, <1>2 DEF ToSet, Remembered, PaidBy
<1>5. StoredIsKnown' /\ ProcessedIsKept' /\ BeingSaved'
  BY <1>1, <1>4 DEF InboxInv, StoredIsKnown, Started, ProcessedIsKept, BeingSaved, UnderWay
<1>6. DeletedKnown' /\ DeletedPaid'
  BY <1>2, <1>4 DEF InboxInv, DeletedKnown, DeletedPaid
<1>7. QED BY <1>3, <1>5, <1>6 DEF InboxInv

\* The keys, the end of a listener, the pause after refusals.
LEMMA WalletStep ==
    ASSUME InboxInv,
           \/ \E a \in Account \cup {NoAccount} : ChangeKeys(a)
           \/ StopListening \/ Cool \/ UNCHANGED vars
    PROVE  InboxInv'
<1>1. UNCHANGED <<box, sent, known, stored, forgotten, stage, listing, fresh>>
  BY DEF ChangeKeys, StopListening, Cool, vars, serverVars, storeVars, checkVars
<1>2. wallet' \in {wallet, NoAccount}
  BY DEF ChangeKeys, StopListening, Cool, vars, walletVars
<1>3. Typed' /\ (Started' => Started)
  BY <1>1, <1>2 DEF InboxInv, Typed, Started
<1>4. QED BY <1>1, <1>3, AsideKeeps

LEMMA NextKeepsInbox == InboxInv /\ [Next]_vars => InboxInv'
<1> SUFFICES ASSUME InboxInv, [Next]_vars PROVE InboxInv'
  OBVIOUS
<1>1. ASSUME NEW m \in Message, Send(m) PROVE InboxInv'
  BY <1>1, SendStep
<1>2. ASSUME NEW c \in Check,
             \/ Tick(c) \/ CheckMessageBox(c)
             \/ Unauthorized(c) \/ ListFails(c) \/ Listed(c) \/ AcknowledgeFails(c)
      PROVE  InboxInv'
  BY <1>2, EdgeStep
<1>3. ASSUME NEW c \in Check, Process(c) \/ Acknowledge(c) \/ Save(c) \/ Listen(c)
      PROVE  InboxInv'
  BY <1>3, ProcessStep, AcknowledgeStep, SaveStep, ListenStep
<1>4. ASSUME \/ \E a \in Account \cup {NoAccount} : ChangeKeys(a)
             \/ StopListening \/ Cool \/ UNCHANGED vars
      PROVE  InboxInv'
  BY <1>4, WalletStep
<1>5. CASE Restart
  BY <1>5, RestartStep
<1>6. QED
  BY <1>1, <1>2, <1>3, <1>4, <1>5 DEF Next

-----------------------------------------------------------------------------
\* A message that is gone from the server is one of a payment that is remembered,
\* stored, or was forgotten by the limit, a reload or a restart, and what only memory
\* holds is about to be saved (checkForPaymentsImpl), for any number of checks.
THEOREM InboxDeletedIsKept == Spec => []DeletedIsKept
<1>1. InboxInv => DeletedIsKept
  BY DEF InboxInv, DeletedIsKept, DeletedKnown, DeletedPaid, BeingSaved, Remembered
<1>2. QED
  BY InitInbox, NextKeepsInbox, <1>1, PTL DEF Spec

-----------------------------------------------------------------------------
(* The types.  Memory lists each payment once, and no more than MaxKept.     *)

TypeInv == TypeOK /\ Len(stored) <= MaxKept

LEMMA CappedInjective ==
    ASSUME NEW S, NEW s \in Seq(S), IsInjective(s)
    PROVE  IsInjective(Capped(s)) /\ Len(Capped(s)) <= MaxKept
<1> DEFINE first == IF Len(s) > MaxKept THEN Len(s) - MaxKept + 1 ELSE 1
<1>1. MaxKept \in Nat \ {0} /\ Len(s) \in Nat /\ DOMAIN s = 1..Len(s)
  BY BoundAssumption
<1>2. first \in Nat /\ first >= 1 /\ first <= Len(s) + 1 /\ Len(s) - first + 1 <= MaxKept
  BY <1>1
<1>3. PICK cut : cut = SubSeq(s, first, Len(s)) /\ cut = Capped(s)
  BY DEF Capped
<1> HIDE DEF first
<1>4. /\ Len(cut) = Len(s) - first + 1 /\ DOMAIN cut = 1..(Len(s) - first + 1)
      /\ \A i \in 1..(Len(s) - first + 1) : cut[i] = s[first + i - 1]
  <2>1. Len(SubSeq(s, first, Len(s))) = Len(s) - first + 1
    BY <1>1, <1>2
  <2>2. DOMAIN SubSeq(s, first, Len(s)) = 1..(Len(s) - first + 1)
    BY <1>1, <1>2
  <2>3. ASSUME NEW i \in 1..(Len(s) - first + 1)
        PROVE  SubSeq(s, first, Len(s))[i] = s[first + i - 1]
    BY <1>1, <1>2
  <2>4. QED BY <1>3, <2>1, <2>2, <2>3
<1>5. ASSUME NEW i \in DOMAIN cut, NEW j \in DOMAIN cut, cut[i] = cut[j] PROVE i = j
  <2>1. i \in Int /\ j \in Int /\ first + i - 1 \in DOMAIN s /\ first + j - 1 \in DOMAIN s
    BY <1>1, <1>2, <1>4
  <2>2. s[first + i - 1] = s[first + j - 1]
    BY <1>4, <1>5
  <2>3. first + i - 1 = first + j - 1
    BY <2>1, <2>2 DEF IsInjective
  <2>4. QED BY <1>2, <2>1, <2>3
<1>6. IsInjective(cut)
  BY <1>5 DEF IsInjective
<1>7. QED BY <1>2, <1>3, <1>4, <1>6

\* New payments after those that memory holds.
LEMMA AppendedInjective ==
    ASSUME NEW S, NEW s \in Seq(S), IsInjective(s), NEW T \in SUBSET S, IsFiniteSet(T),
           T \cap ToSet(s) = {}, NEW t \in SetToSeqs(T)
    PROVE  IsInjective(s \o t)
<1>1. t \in Seq(S) /\ ToSet(t) \subseteq T
  BY SeqOfSet
<1>2. \A i, j \in DOMAIN t : i # j => t[i] # t[j]
  BY DEF SetToSeqs
<1>3. Len(s \o t) = Len(s) + Len(t) /\ DOMAIN (s \o t) = 1..Len(s \o t)
  BY <1>1
<1>4. ASSUME NEW i \in DOMAIN (s \o t)
      PROVE  \/ i \in DOMAIN s /\ (s \o t)[i] = s[i] /\ s[i] \in ToSet(s)
             \/ /\ i - Len(s) \in DOMAIN t /\ (s \o t)[i] = t[i - Len(s)]
                /\ t[i - Len(s)] \in T /\ i > Len(s)
  <2>1. CASE i <= Len(s)
    <3>1. i \in DOMAIN s /\ (s \o t)[i] = s[i]
      BY <1>1, <1>3, <2>1
    <3>2. QED BY <3>1 DEF ToSet
  <2>2. CASE i > Len(s)
    <3>1. i - Len(s) \in DOMAIN t /\ (s \o t)[i] = t[i - Len(s)]
      BY <1>1, <1>3, <2>2
    <3>2. QED BY <1>1, <2>2, <3>1 DEF ToSet
  <2>3. QED BY <1>3, <2>1, <2>2
<1>5. ASSUME NEW i \in DOMAIN (s \o t), NEW j \in DOMAIN (s \o t), (s \o t)[i] = (s \o t)[j]
      PROVE  i = j
  <2>1. i \in Int /\ j \in Int /\ Len(s) \in Int
    BY <1>3
  <2>2. CASE i \in DOMAIN s /\ j \in DOMAIN s /\ s[i] = s[j]
    BY <2>2 DEF IsInjective
  <2>3. CASE i - Len(s) \in DOMAIN t /\ j - Len(s) \in DOMAIN t /\ t[i - Len(s)] = t[j - Len(s)]
    <3>1. i - Len(s) = j - Len(s)
      BY <1>2, <2>3
    <3>2. QED BY <2>1, <3>1
  <2>4. QED BY <1>4, <1>5, <2>2, <2>3
<1>6. QED BY <1>5 DEF IsInjective

LEMMA TypeInvInit == Init => TypeInv
  BY BoundAssumption DEF Init, TypeInv, TypeOK, IsInjective

LEMMA ProcessTyped ==
    ASSUME TypeInv, NEW c \in Check, Process(c)
    PROVE  TypeInv'
<1>1. listing[c] \in SUBSET Message /\ known \in Seq(Payment) /\ IsInjective(known)
  BY DEF TypeInv, TypeOK
<1>2. NotKnown(c) \subseteq Payment /\ IsFiniteSet(NotKnown(c)) /\ NotKnown(c) \cap ToSet(known) = {}
  BY <1>1, PaidTyped, FS_Subset DEF NotKnown
<1>3. PICK new \in SetToSeqs(NotKnown(c)) : known' = Capped(known \o new)
  BY DEF Process
<1>4. known \o new \in Seq(Payment) /\ IsInjective(known \o new)
  <2>1. new \in Seq(Payment)
    BY <1>2, <1>3, SeqOfSet
  <2>2. QED BY <1>1, <1>2, <1>3, <2>1, AppendedInjective, ToSetConcat
<1>5. known' \in Seq(Payment) /\ IsInjective(known') /\ Len(known') <= MaxKept
  BY <1>3, <1>4, CappedTyped, CappedInjective
<1>6. forgotten' \subseteq Payment
  BY <1>1, <1>2, ToSetTyped DEF Process, TypeInv, TypeOK
<1>7. /\ stage' \in [Check -> {"idle", "listing", "listed", "acknowledging", "saving"}]
      /\ identity' \in [Check -> Account \cup {NoAccount}]
      /\ listing' \in [Check -> SUBSET Message] /\ fresh' \in [Check -> SUBSET Payment]
      /\ ticking' \in Check \cup {NoCheck}
  BY <1>2 DEF Process, Leaves, TypeInv, TypeOK
<1>8. UNCHANGED <<serverVars, stored, walletVars, authVars, announced>>
  BY DEF Process
<1>9. QED BY <1>5, <1>6, <1>7, <1>8 DEF TypeInv, TypeOK, serverVars, walletVars, authVars, IsInjective

LEMMA CheckTyped ==
    ASSUME TypeInv, NEW c \in Check,
           \/ Tick(c) \/ CheckMessageBox(c) \/ Listed(c) \/ Unauthorized(c) \/ ListFails(c)
           \/ Acknowledge(c) \/ AcknowledgeFails(c)
    PROVE  TypeInv'
<1>1. UNCHANGED <<sent, known, stored, forgotten, wallet, keys, changes, announced>>
  BY DEF Tick, CheckMessageBox, Listed, Unauthorized, ListFails, Acknowledge, AcknowledgeFails,
         serverVars, storeVars, walletVars
<1>2. failures' \in Nat /\ cooled' \in BOOLEAN
  <2>1. failures' \in {0, failures, failures + 1} /\ cooled' \in {FALSE, cooled}
    BY DEF Tick, CheckMessageBox, Listed, Unauthorized, ListFails, Acknowledge, AcknowledgeFails,
           serverVars, storeVars, walletVars, authVars, AfterGuard
  <2>2. failures' \in Nat
    BY <2>1 DEF TypeInv, TypeOK
  <2>3. cooled' \in BOOLEAN
    BY <2>1, Zenon DEF TypeInv, TypeOK
  <2>4. QED BY <2>2, <2>3
<1>3. box' \subseteq sent'
  BY <1>1 DEF Tick, CheckMessageBox, Listed, Unauthorized, ListFails, Acknowledge, AcknowledgeFails,
         serverVars, TypeInv, TypeOK
<1>4. /\ stage' \in [Check -> {"idle", "listing", "listed", "acknowledging", "saving"}]
      /\ identity' \in [Check -> Account \cup {NoAccount}]
      /\ ticking' \in Check \cup {NoCheck}
  BY DEF Tick, CheckMessageBox, Listed, Unauthorized, ListFails, Acknowledge, AcknowledgeFails,
         Starts, Leaves, TypeInv, TypeOK
<1>5. listing' \in [Check -> SUBSET Message] /\ fresh' \in [Check -> SUBSET Payment]
  <2>1. {m \in box : To[m] = identity[c]} \subseteq Message
    BY DEF TypeInv, TypeOK
  <2>2. QED
    BY <2>1 DEF Tick, CheckMessageBox, Listed, Unauthorized, ListFails, Acknowledge,
                AcknowledgeFails, Starts, Leaves, TypeInv, TypeOK
<1>6. QED BY <1>1, <1>2, <1>3, <1>4, <1>5 DEF TypeInv, TypeOK, IsInjective

LEMMA SaveTyped ==
    ASSUME TypeInv, NEW c \in Check, Save(c)
    PROVE  TypeInv'
<1>1. announced' \in [Payment -> 0..2]
  <2>1. ASSUME NEW p \in Payment PROVE announced'[p] \in 0..2
    <3>1. announced[p] \in 0..2
      BY DEF TypeInv, TypeOK
    <3>2. QED BY <3>1 DEF Save
  <2>2. QED BY <2>1 DEF Save
<1>2. /\ stage' \in [Check -> {"idle", "listing", "listed", "acknowledging", "saving"}]
      /\ identity' \in [Check -> Account \cup {NoAccount}]
      /\ listing' \in [Check -> SUBSET Message] /\ fresh' \in [Check -> SUBSET Payment]
      /\ ticking' \in Check \cup {NoCheck}
  BY DEF Save, Leaves, TypeInv, TypeOK
<1>3. stored' = known /\ UNCHANGED <<box, sent, known, forgotten, wallet, keys, changes, failures, cooled>>
  BY DEF Save, serverVars, walletVars, authVars
<1>4. QED BY <1>1, <1>2, <1>3 DEF TypeInv, TypeOK, IsInjective

LEMMA ListenTyped ==
    ASSUME TypeInv, NEW c \in Check, Listen(c)
    PROVE  TypeInv'
<1>1. /\ known' = Reloaded /\ forgotten' = forgotten \cup (ToSet(known) \ ToSet(known'))
      /\ wallet' = keys /\ ticking' = NoCheck /\ failures' = 0
      /\ UNCHANGED <<box, sent, stored, keys, changes, cooled, announced, listing, fresh>>
  BY DEF Listen, Starts, serverVars
<1>2. forgotten' \subseteq Payment
  BY <1>1, ToSetTyped DEF TypeInv, TypeOK
<1>3. /\ stage' \in [Check -> {"idle", "listing", "listed", "acknowledging", "saving"}]
      /\ identity' \in [Check -> Account \cup {NoAccount}]
  BY DEF Listen, Starts, TypeInv, TypeOK
<1>4. QED BY <1>1, <1>2, <1>3 DEF TypeInv, TypeOK, IsInjective, Reloaded

LEMMA WalletTyped ==
    ASSUME TypeInv,
           \/ \E m \in Message : Send(m)
           \/ \E a \in Account \cup {NoAccount} : ChangeKeys(a)
           \/ StopListening \/ Cool \/ UNCHANGED vars
    PROVE  TypeInv'
<1>1. UNCHANGED <<known, stored, forgotten, stage, identity, listing, fresh, announced, failures>>
  BY DEF Send, ChangeKeys, StopListening, Cool, vars, storeVars, checkVars, authVars
<1>2. /\ box' \subseteq sent' /\ sent' \subseteq Message
      /\ wallet' \in Account \cup {NoAccount} /\ keys' \in Account \cup {NoAccount}
      /\ cooled' \in BOOLEAN /\ ticking' \in Check \cup {NoCheck}
  BY DEF Send, ChangeKeys, StopListening, Cool, vars, serverVars, walletVars, authVars, TypeInv, TypeOK
<1>3. changes' \in 0..MaxChanges
  BY BoundAssumption DEF Send, ChangeKeys, StopListening, Cool, vars, walletVars, TypeInv, TypeOK
<1>4. QED BY <1>1, <1>2, <1>3 DEF TypeInv, TypeOK, IsInjective

LEMMA RestartTyped == TypeInv /\ Restart => TypeInv'
<1> SUFFICES ASSUME TypeInv, Restart PROVE TypeInv'
  OBVIOUS
<1>1. /\ known' = <<>> /\ forgotten' = forgotten \cup (ToSet(known) \ ToSet(stored))
      /\ UNCHANGED <<box, sent, stored, announced>>
  BY DEF Restart, serverVars
<1>2. forgotten' \subseteq Payment
  BY <1>1, ToSetTyped DEF TypeInv, TypeOK
<1>3. changes' \in 0..MaxChanges
  BY BoundAssumption DEF Restart, TypeInv, TypeOK
<1>4. known' \in Seq(Payment) /\ IsInjective(known') /\ Len(known') <= MaxKept
  BY <1>1, BoundAssumption DEF IsInjective
<1>5. QED BY <1>1, <1>2, <1>3, <1>4 DEF Restart, TypeInv, TypeOK, IsInjective

LEMMA NextTyped == TypeInv /\ [Next]_vars => TypeInv'
<1> SUFFICES ASSUME TypeInv, [Next]_vars PROVE TypeInv'
  OBVIOUS
<1>1. ASSUME NEW c \in Check,
             \/ Tick(c) \/ CheckMessageBox(c) \/ Listed(c) \/ Unauthorized(c) \/ ListFails(c)
             \/ Acknowledge(c) \/ AcknowledgeFails(c)
      PROVE  TypeInv'
  BY <1>1, CheckTyped
<1>2. ASSUME NEW c \in Check, Process(c) \/ Save(c) \/ Listen(c)
      PROVE  TypeInv'
  BY <1>2, ProcessTyped, SaveTyped, ListenTyped
<1>3. ASSUME \/ \E m \in Message : Send(m)
             \/ \E a \in Account \cup {NoAccount} : ChangeKeys(a)
             \/ StopListening \/ Cool \/ UNCHANGED vars
      PROVE  TypeInv'
  BY <1>3, WalletTyped
<1>4. CASE Restart
  BY <1>4, RestartTyped
<1>5. QED BY <1>1, <1>2, <1>3, <1>4 DEF Next

\* Memory and storage list each payment once and keep to the limit (MAX_NOTIFICATIONS).
THEOREM InboxTypeOK == Spec => []TypeOK
  BY TypeInvInit, NextTyped, PTL DEF Spec, TypeInv

-----------------------------------------------------------------------------
(* A payment is announced once.  What a check found to be new is in memory,  *)
(* so no other check finds it new, and until the check saves it has not been *)
(* announced; what was announced is in memory or stored.                     *)

FreshKept == \A c \in Check : stage[c] \in Acts => fresh[c] \subseteq Remembered
FreshApart ==
    \A c, d \in Check : c # d /\ stage[c] \in Acts /\ stage[d] \in Acts =>
        fresh[c] \cap fresh[d] \subseteq forgotten
FreshUnannounced ==
    \A c \in Check : stage[c] \in Acts => \A p \in fresh[c] \ forgotten : announced[p] = 0
AnnouncedKept == \A p \in Payment : announced[p] > 0 => p \in Remembered \cup ToSet(stored)

OnceInv == FreshKept /\ FreshApart /\ FreshUnannounced /\ AnnouncedKept /\ AnnouncedOnce

LEMMA OnceInit == Init => OnceInv
  BY DEF Init, OnceInv, FreshKept, FreshApart, FreshUnannounced, AnnouncedKept, AnnouncedOnce, Acts

\* A step that announces nothing and gives no check anything new.
LEMMA OnceAside ==
    ASSUME OnceInv, announced' = announced, forgotten \subseteq forgotten',
           Remembered \cup ToSet(stored) \subseteq Remembered' \cup ToSet(stored)',
           \A c \in Check : stage'[c] \in Acts =>
               stage[c] \in Acts /\ fresh'[c] = fresh[c] /\ Remembered \subseteq Remembered'
    PROVE  OnceInv'
<1>1. FreshKept' /\ FreshApart' /\ FreshUnannounced'
  BY DEF OnceInv, FreshKept, FreshApart, FreshUnannounced
<1>2. AnnouncedKept' /\ AnnouncedOnce'
  BY DEF OnceInv, AnnouncedKept, AnnouncedOnce
<1>3. QED BY <1>1, <1>2 DEF OnceInv

LEMMA OnceProcess ==
    ASSUME InboxInv, TypeInv, OnceInv, NEW c \in Check, Process(c)
    PROVE  OnceInv'
<1>1. /\ stage[c] = "listed" /\ listing[c] \in SUBSET Message
      /\ UNCHANGED <<stored, announced>>
      /\ forgotten' = forgotten \cup ((ToSet(known) \cup NotKnown(c)) \ ToSet(known'))
  BY DEF Process, InboxInv, Typed
<1>2. /\ ToSet(known)' = ToSet(known') /\ ToSet(stored)' = ToSet(stored)
      /\ forgotten \subseteq forgotten'
      /\ Remembered \cup NotKnown(c) \subseteq Remembered'
  BY <1>1 DEF ToSet, Remembered
<1>3. CASE PaidBy(listing[c]) = {}
  <2>1. \A d \in Check : stage'[d] \in Acts => stage[d] \in Acts /\ fresh'[d] = fresh[d]
    BY <1>3 DEF Process, Leaves, InboxInv, Typed, Acts
  <2>2. QED BY <1>1, <1>2, <2>1, OnceAside
<1>4. CASE PaidBy(listing[c]) # {}
  <2>1. stage' = [stage EXCEPT ![c] = "acknowledging"] /\ fresh' = [fresh EXCEPT ![c] = NotKnown(c)]
    BY <1>4 DEF Process
  <2>2. ASSUME NEW d \in Check, d # c
        PROVE  stage'[d] = stage[d] /\ fresh'[d] = fresh[d]
    BY <2>1, <2>2 DEF InboxInv, Typed
  <2>3. fresh'[c] = NotKnown(c) /\ NotKnown(c) \subseteq Payment
    BY <1>1, <2>1, PaidTyped DEF InboxInv, Typed, NotKnown
  <2>4. ToSet(stored) \subseteq Remembered
    BY <1>1 DEF InboxInv, StoredIsKnown, Started
  <2>5. NotKnown(c) \cap ToSet(known) = {}
    BY DEF NotKnown
  <2>6. FreshKept'
    BY <1>2, <2>2, <2>3 DEF OnceInv, FreshKept
  <2>7. FreshApart'
    <3>1. ASSUME NEW d \in Check, d # c, stage[d] \in Acts
          PROVE  fresh[d] \cap NotKnown(c) \subseteq forgotten
      BY <2>5, <3>1 DEF OnceInv, FreshKept, Remembered
    <3>2. QED BY <1>2, <2>2, <2>3, <3>1 DEF OnceInv, FreshApart
  <2>8. FreshUnannounced'
    <3>1. ASSUME NEW p \in NotKnown(c) \ forgotten PROVE announced[p] = 0
      <4>1. p \in Payment /\ p \notin Remembered \cup ToSet(stored)
        BY <2>3, <2>4, <2>5 DEF Remembered
      <4>2. announced[p] \in 0..2
        BY <4>1 DEF TypeInv, TypeOK
      <4>3. QED BY <4>1, <4>2 DEF OnceInv, AnnouncedKept
    <3>2. QED BY <1>1, <1>2, <2>2, <2>3, <3>1 DEF OnceInv, FreshUnannounced
  <2>9. AnnouncedKept' /\ AnnouncedOnce'
    BY <1>1, <1>2 DEF OnceInv, AnnouncedKept, AnnouncedOnce
  <2>10. QED BY <2>6, <2>7, <2>8, <2>9 DEF OnceInv
<1>5. QED BY <1>3, <1>4

LEMMA OnceSave ==
    ASSUME InboxInv, TypeInv, OnceInv, NEW c \in Check, Save(c)
    PROVE  OnceInv'
<1>1. /\ stage[c] = "saving" /\ stage' = [stage EXCEPT ![c] = "idle"]
      /\ fresh' = [fresh EXCEPT ![c] = {}]
      /\ stored' = known /\ UNCHANGED <<known, forgotten>>
      /\ announced' = [p \in Payment |->
             IF p \in fresh[c] /\ announced[p] < 2 THEN announced[p] + 1 ELSE announced[p]]
  BY DEF Save, Leaves
<1>2. ASSUME NEW d \in Check, stage'[d] \in Acts
      PROVE  d # c /\ stage[d] \in Acts /\ fresh'[d] = fresh[d]
  BY <1>1, <1>2 DEF InboxInv, Typed, Acts
<1>3. Remembered' = Remembered /\ ToSet(stored)' = ToSet(known) /\ ToSet(stored) \subseteq Remembered
  BY <1>1 DEF ToSet, Remembered, InboxInv, StoredIsKnown, Started
<1>4. FreshKept' /\ FreshApart'
  BY <1>1, <1>2, <1>3 DEF OnceInv, FreshKept, FreshApart
<1>5. fresh[c] \subseteq Remembered /\ \A p \in fresh[c] \ forgotten : announced[p] = 0
  BY <1>1 DEF OnceInv, FreshKept, FreshUnannounced, Acts
<1>6. FreshUnannounced'
  <2>1. ASSUME NEW d \in Check, stage'[d] \in Acts, NEW p \in fresh[d] \ forgotten
        PROVE  announced'[p] = 0
    <3>1. announced[p] = 0 /\ p \notin fresh[c] /\ p \in Payment
      BY <1>1, <1>2, <2>1 DEF OnceInv, FreshUnannounced, FreshApart, Acts, TypeInv, TypeOK
    <3>2. QED BY <1>1, <3>1
  <2>2. QED BY <1>1, <1>2, <2>1 DEF FreshUnannounced
<1>7. AnnouncedKept'
  <2>1. ASSUME NEW p \in Payment, announced'[p] > 0 PROVE p \in Remembered
    <3>1. p \in fresh[c] \/ announced[p] > 0
      BY <1>1, <2>1
    <3>2. QED BY <1>3, <1>5, <3>1 DEF OnceInv, AnnouncedKept
  <2>2. QED BY <1>3, <2>1 DEF AnnouncedKept
<1>8. AnnouncedOnce'
  <2>1. ASSUME NEW p \in Payment \ forgotten PROVE announced'[p] <= 1
    BY <1>1, <1>5, <2>1 DEF OnceInv, AnnouncedOnce, TypeInv, TypeOK
  <2>2. QED BY <1>1, <2>1 DEF AnnouncedOnce
<1>9. QED BY <1>4, <1>6, <1>7, <1>8 DEF OnceInv

LEMMA OnceNext == InboxInv /\ TypeInv /\ OnceInv /\ [Next]_vars => OnceInv'
<1> SUFFICES ASSUME InboxInv, TypeInv, OnceInv, [Next]_vars PROVE OnceInv'
  OBVIOUS
<1>1. ASSUME NEW c \in Check,
             \/ Tick(c) \/ CheckMessageBox(c) \/ Unauthorized(c) \/ ListFails(c) \/ Listed(c)
             \/ Acknowledge(c) \/ AcknowledgeFails(c)
      PROVE  OnceInv'
  <2>1. UNCHANGED <<known, stored, forgotten, announced>>
    BY <1>1 DEF Tick, CheckMessageBox, Unauthorized, ListFails, Listed, Acknowledge,
                AcknowledgeFails, storeVars
  <2>2. Remembered' = Remembered /\ ToSet(stored)' = ToSet(stored)
    BY <2>1 DEF Remembered, ToSet
  <2>3. \A d \in Check : stage'[d] \in Acts => stage[d] \in Acts /\ fresh'[d] = fresh[d]
    BY <1>1 DEF Tick, CheckMessageBox, Unauthorized, ListFails, Listed, Acknowledge,
                AcknowledgeFails, Starts, Leaves, InboxInv, Typed, Acts
  <2>4. QED BY <2>1, <2>2, <2>3, OnceAside
<1>2. ASSUME NEW c \in Check, Process(c) \/ Save(c) PROVE OnceInv'
  BY <1>2, OnceProcess, OnceSave
<1>3. ASSUME NEW c \in Check, Listen(c) PROVE OnceInv'
  <2>1. /\ forgotten' = forgotten \cup (ToSet(known) \ ToSet(known'))
        /\ UNCHANGED <<stored, announced>>
        /\ \A d \in Check : stage'[d] \in Acts => stage[d] \in Acts /\ fresh'[d] = fresh[d]
    BY <1>3 DEF Listen, Starts, InboxInv, Typed, Acts
  <2>2. ToSet(known)' = ToSet(known') /\ ToSet(stored)' = ToSet(stored)
    BY <2>1 DEF ToSet
  <2>3. Remembered \subseteq Remembered'
    BY <2>1, <2>2 DEF Remembered
  <2>4. QED BY <2>1, <2>2, <2>3, OnceAside
<1>4. CASE Restart
  <2>1. /\ known' = <<>> /\ forgotten' = forgotten \cup (ToSet(known) \ ToSet(stored))
        /\ UNCHANGED <<stored, announced>> /\ stage' = [d \in Check |-> "idle"]
    BY <1>4 DEF Restart
  <2>2. Remembered \subseteq Remembered' \cup ToSet(stored) /\ ToSet(stored)' = ToSet(stored)
    BY <2>1 DEF Remembered, ToSet
  <2>3. \A d \in Check : stage'[d] \notin Acts
    BY <2>1 DEF Acts
  <2>4. QED BY <2>1, <2>2, <2>3, OnceAside
<1>5. ASSUME \/ \E m \in Message : Send(m)
             \/ \E a \in Account \cup {NoAccount} : ChangeKeys(a)
             \/ StopListening \/ Cool \/ UNCHANGED vars
      PROVE  OnceInv'
  <2>1. UNCHANGED <<known, stored, forgotten, stage, fresh, announced>>
    BY <1>5 DEF Send, ChangeKeys, StopListening, Cool, vars, storeVars, checkVars
  <2>2. Remembered' = Remembered /\ ToSet(stored)' = ToSet(stored)
    BY <2>1 DEF Remembered, ToSet
  <2>3. QED BY <2>1, <2>2, OnceAside
<1>6. QED BY <1>1, <1>2, <1>3, <1>4, <1>5 DEF Next

\* However many checks overlap, and however often the server lists a message again, a
\* payment is announced as new once, unless it was forgotten (checkForPaymentsImpl).
THEOREM InboxAnnouncedOnce == Spec => []AnnouncedOnce
<1>1. InboxInv /\ TypeInv /\ OnceInv /\ [Next]_vars => InboxInv' /\ TypeInv' /\ OnceInv'
  BY NextKeepsInbox, NextTyped, OnceNext
<1>2. OnceInv => AnnouncedOnce
  BY DEF OnceInv
<1>3. QED
  BY InitInbox, TypeInvInit, OnceInit, <1>1, <1>2, PTL DEF Spec
=============================================================================
