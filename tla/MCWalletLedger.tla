--------------------------- MODULE MCWalletLedger ---------------------------
(* Instances of WalletLedger for TLC. *)
EXTENDS WalletLedger, TLC

CONSTANTS a1, c1, c2, t1, t2

OneCoin == [x \in {c1, t1, t2} |-> a1]
OneAccount == [x \in {c1, c2, t1, t2} |-> a1]

TwoSends == [t \in {t1, t2} |-> "send"]
SendAndTransfer == [t \in {t1, t2} |-> IF t = t1 THEN "send" ELSE "live"]

SendsSymmetry == Permutations({t1, t2})
=============================================================================
