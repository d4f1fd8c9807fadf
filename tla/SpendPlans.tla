----------------------------- MODULE SpendPlans -----------------------------
(***************************************************************************)
(* The amounts of what an account spends: which coins an operation takes,  *)
(* what fee and change the builder in Rust gives it, and what the web view *)
(* records of them.  The operations run one at a time, under the lock of   *)
(* SyncMutex; that they may fail half way, and what a sync does meanwhile, *)
(* is in WalletLedger, which knows no amounts.                             *)
(*                                                                         *)
(* A coin is [tx, vout, sats, by]: by is the kind of operation that made   *)
(* it.  A plan is what is asked of the wallet: [kind, n, amount, bytes,    *)
(* own, outs, rate] has n outputs besides the change, which pay amount and *)
(* take bytes in the transaction; own inputs of one satoshi, an ordinal or *)
(* tokens, are spent with it; outs is how many outputs its estimate of the *)
(* fee counts; rate is a fraction of a satoshi per byte.                   *)
(***************************************************************************)
EXTENDS Integers, FiniteSets

CONSTANTS Coins,  \* the coins of the wallet at the start
          Plan,   \* what may be asked
          MaxTx   \* bound: transactions sent

Kinds == {"send",        \* sendBSV and its variants, to one recipient or to many
          "consolidate", \* consolidateUtxos
          "lock",        \* lockBSV
          "ordinal",     \* transferOrdinal
          "token",       \* transferToken
          "action"}      \* createAction, of an application

\* The transactions of the model are 1, 2, ... MaxTx; the coins are of others.
ASSUME CoinsAssumption ==
    /\ IsFiniteSet(Coins) /\ Coins \subseteq [tx: Nat, vout: Nat, sats: Nat, by: Kinds]
    /\ \A c \in Coins : c.tx \notin 1..MaxTx
ASSUME PlanAssumption ==
    /\ Plan # {}
    /\ \A p \in Plan : /\ p.kind \in Kinds
                       /\ p.n \in Nat /\ p.amount \in Nat /\ p.bytes \in Nat
                       /\ p.own \in Nat /\ p.outs \in Nat
                       /\ p.rate \in (Nat \ {0}) \X (Nat \ {0})
                       /\ p.kind = "send" => p.bytes = p.n * 34
                       /\ p.kind = "consolidate" => p.n = 0 /\ p.bytes = 0
                       /\ p.kind = "ordinal" => p.bytes = 34 /\ p.own = p.amount
                       /\ p.kind \in {"send", "consolidate", "lock"} => p.own = 0
ASSUME PlanBounds == MaxTx \in Nat

Coin == [tx: Nat, vout: Nat, sats: Nat, by: Kinds]

VARIABLES
    rows,    \* the coins the table offers
    owned,   \* the unspent outputs of the wallet's address on the chain
    phase,   \* "idle", "taking", "built" or "sent"
    plan,    \* what was asked last
    left,    \* candidates the selection has not looked at
    taken,   \* inputsToUse
    total,   \* totalInput
    fee,     \* the fee the builder answered
    change,  \* the change, or the single output of a consolidation
    amount,  \* amount of the last transaction recorded
    sent     \* transactions sent

offer == <<plan, left, taken, total>>
built == <<fee, change>>
planVars == <<rows, owned, phase, offer, built, amount, sent>>

Null == "null"

PlanInit ==
    /\ rows = Coins /\ owned = Coins
    /\ phase = "idle"
    /\ plan = (CHOOSE p \in Plan : TRUE) /\ left = {} /\ taken = {} /\ total = 0
    /\ fee = 0 /\ change = 0
    /\ amount = Null /\ sent = 0

-----------------------------------------------------------------------------
(* Fees.                                                                    *)
InputSize == 148
OutputSize == 34
TxOverhead == 10

AtMost(m, n) == IF m < n THEN m ELSE n

\* feeFromBytes: bytes * rate rounded up, at least one.  The product is exact here.
feeFromBytes(bytes, rate) ==
    LET up == (bytes * rate[1] + rate[2] - 1) \div rate[2]
    IN  IF up < 1 THEN 1 ELSE up

TxSize(ins, bytes) == TxOverhead + ins * InputSize + bytes

calculateTxFee(ins, outs, rate) == feeFromBytes(TxSize(ins, outs * OutputSize), rate)

\* The rate the builder is told: that of the settings, or one written in the code.
Rate == CASE plan.kind = "token" -> <<1, 20>>
          [] plan.kind = "action" -> <<1, 10>>
          [] OTHER -> plan.rate

Taken == Cardinality(taken)
Offered == Cardinality(taken \cup left)

\* What the inputs leave beyond the outputs.
Rest == total + plan.own - plan.amount

\* MUTANT of CountsChange: the builders count the output they may not add.
CountsNoChange == FALSE

\* will_have_change: the fee counts a change output above this rest only.
CountsChange == Rest > 100

\* The size counted for a change output: calculate_inscription_tx_fee takes it for the
\* size of a script.
ScriptedChange == IF CountsChange THEN OutputSize + 9 ELSE 0

Fee ==
    CASE plan.kind = "send" ->
             calculateTxFee(Taken, plan.n + (IF CountsChange THEN 1 ELSE 0), Rate)
      [] plan.kind = "consolidate" -> calculateTxFee(Taken, 1, Rate)
      [] plan.kind = "ordinal" -> calculateTxFee(plan.own + Taken, 2, Rate)
      [] plan.kind = "lock" -> feeFromBytes(TxSize(Taken, plan.bytes + OutputSize), Rate)
      [] OTHER ->
             feeFromBytes(TxSize(plan.own + Taken, plan.bytes + ScriptedChange), Rate)

-----------------------------------------------------------------------------
(* Selection.                                                               *)
\* The estimate of the fee an operation selects coins by.
Estimate(ins) == calculateTxFee(plan.own + ins, plan.outs, plan.rate)

\* The loop over the candidates stops.
Enough ==
    CASE plan.kind = "send" -> total >= plan.amount + 100
      [] plan.kind = "lock" -> total >= plan.amount + 500
      [] plan.kind = "action" ->
             total >= plan.amount + Estimate(AtMost(Offered, 3)) + 100
      [] plan.kind = "ordinal" -> total >= Estimate(AtMost(Offered, 2)) + 100
      [] plan.kind = "token" -> /\ total >= Estimate(AtMost(Offered, 2)) + 100
                                /\ total >= Estimate(Taken) + 100
      [] OTHER -> FALSE

\* The check before the builder is called.
Sufficient ==
    CASE plan.kind = "send" -> Enough
      [] plan.kind = "action" -> Enough /\ total - plan.amount >= Estimate(Taken)
      [] plan.kind = "consolidate" -> Taken >= 2
      [] plan.kind = "lock" -> TRUE
      [] OTHER -> total >= Estimate(Taken)

\* The operation is asked for.  Its caller offers some of the rows (those of pending
\* transactions are not offered, the user may choose) or some of what the indexer lists.
Ask(p) ==
    /\ phase = "idle" /\ sent < MaxTx
    /\ left' \in SUBSET (IF p.kind \in {"ordinal", "token", "action"}
                        THEN owned ELSE rows)
    /\ left' # {}
    /\ plan' = p /\ taken' = {} /\ total' = 0
    /\ phase' = "taking"
    /\ UNCHANGED <<rows, owned, built, amount, sent>>

\* The next coin: the smallest for selectCoins, else the next one listed.
Take(c) ==
    /\ phase = "taking" /\ c \in left /\ ~Enough
    /\ plan.kind \in {"send", "action"} => \A d \in left : c.sats <= d.sats
    /\ taken' = taken \cup {c} /\ left' = left \ {c}
    /\ total' = total + c.sats
    /\ UNCHANGED <<rows, owned, phase, plan, built, amount, sent>>

Selected == phase = "taking" /\ (Enough \/ left = {})

\* The change of a consolidation is its only output.
Pays == Sufficient /\ (Rest > Fee \/ (Rest = Fee /\ plan.kind # "consolidate"))

Refuse ==
    /\ Selected /\ ~Pays
    /\ phase' = "idle"
    /\ UNCHANGED <<rows, owned, offer, built, amount, sent>>

\* MUTANT of Change: change at or below the threshold is left to the miners.
ChangeAboveDust == IF Rest - Fee > 100 THEN Rest - Fee ELSE 0

Change == Rest - Fee

\* The commands build_..._tx_from_store.
Build ==
    /\ Selected /\ Pays
    /\ fee' = Fee /\ change' = Change
    /\ phase' = "built"
    /\ UNCHANGED <<rows, owned, offer, amount, sent>>

-----------------------------------------------------------------------------
(* Broadcast and record.                                                    *)
Output(tx, vout, sats) == [tx |-> tx, vout |-> vout, sats |-> sats, by |-> plan.kind]

\* The change is the last output of the transaction, if there is any.
Broadcast ==
    /\ phase = "built" /\ taken \subseteq owned
    /\ sent' = sent + 1
    /\ owned' = (owned \ taken) \cup
                (IF change > 0 THEN {Output(sent + 1, plan.n, change)} ELSE {})
    /\ phase' = "sent"
    /\ UNCHANGED <<rows, offer, built, amount>>

\* An input does not exist, or not with that amount: the marks are rolled back.
Rejected ==
    /\ phase = "built" /\ ~(taken \subseteq owned)
    /\ phase' = "idle"
    /\ UNCHANGED <<rows, owned, offer, built, amount, sent>>

\* MUTANT of NumOutputs: the outputs the fee counted.
OutputsCounted == plan.n + (IF CountsChange THEN 1 ELSE 0)

\* numOutputs of BuiltTransaction.
NumOutputs == plan.n + (IF change > 0 THEN 1 ELSE 0)

\* createAction computes the change again instead of taking the builder's.
ActionChange == total - plan.amount - Estimate(Taken)

Recorded ==
    CASE plan.kind = "send" ->
             IF change > 0 THEN {Output(sent, NumOutputs - 1, change)} ELSE {}
      [] plan.kind = "consolidate" -> {Output(sent, 0, change)}
      [] plan.kind = "action" ->
             IF ActionChange > 0 THEN {Output(sent, plan.n, ActionChange)} ELSE {}
      [] plan.kind = "token" -> {}
      [] OTHER -> IF change > 0 THEN {Output(sent, plan.n, change)} ELSE {}

AmountRecorded ==
    CASE plan.kind \in {"send", "lock"} -> -(plan.amount + fee)
      [] plan.kind = "ordinal" -> -fee
      [] plan.kind = "token" -> change
      [] OTHER -> Null

\* recordTransactionResult and its counterparts.
Record ==
    /\ phase = "sent"
    /\ rows' = (rows \ taken) \cup Recorded
    /\ amount' = AmountRecorded
    /\ phase' = "idle"
    /\ UNCHANGED <<owned, offer, built, sent>>

\* A sync, once the indexer knows all that was sent.
Sync ==
    /\ phase = "idle"
    /\ rows' = owned
    /\ UNCHANGED <<owned, phase, offer, built, amount, sent>>

PlanNext == \/ \E p \in Plan : Ask(p)
        \/ \E c \in left : Take(c)
        \/ Refuse \/ Build \/ Broadcast \/ Rejected \/ Record \/ Sync

PlanSpec == PlanInit /\ [][PlanNext]_planVars

-----------------------------------------------------------------------------
PlanTypeOK ==
    /\ phase \in {"idle", "taking", "built", "sent"}
    /\ plan \in Plan
    /\ \A S \in {rows, owned, left, taken} : IsFiniteSet(S) /\ S \subseteq Coin
    /\ sent \in Nat
    /\ fee \in Nat /\ change \in Nat /\ total \in Nat

\* The change of a token transfer is left to the next sync, and what createAction
\* records of its change is not what it built.
Tracked(S) == {c \in S : c.by \notin {"token", "action"}}

(* Without a sync the table already holds the outputs the wallet owns, each *)
(* at its place and with its amount, and no other: the change the web view  *)
(* records ("Track change UTXO atomically so balance stays correct until    *)
(* next sync", recordTransactionResult) is the one the builder made.        *)
RowsAreOwned == phase = "idle" => Tracked(rows) = Tracked(owned)

\* The satoshis of a set of coins, and how many they are.
Satoshis(S) == UNION {{c} \X (1..c.sats) : c \in S}
Balance(S) == Cardinality(Satoshis(S))

(* The amount of a transaction in the activity is by how much the balance   *)
(* changed (recordSentTransaction: "Transaction amount in satoshis"); what  *)
(* is recorded without an amount, and a token transfer, aside.              *)
ActivityTellsBalance ==
    [][phase = "sent" /\ phase' = "idle" /\ taken \subseteq rows
           /\ plan.kind \notin {"token", "action", "consolidate"}
       => amount' = Balance(rows') - Balance(rows)]_planVars

FeeFor(size) == feeFromBytes(size, Rate)
BuiltSize == TxSize(plan.own + Taken, plan.bytes + (IF change > 0 THEN OutputSize ELSE 0))

(* No transaction pays less than the rate for its size, but for the change  *)
(* output the builder adds and does not count when the rest is 100 or less  *)
(* (calculate_change_and_fee).                                              *)
FeePaysForSize ==
    phase \in {"built", "sent"} =>
        fee >= FeeFor(BuiltSize) \/ (Rest <= 100 /\ fee >= FeeFor(BuiltSize - OutputSize))
=============================================================================
