--------------------------- MODULE MCPaymentInbox ---------------------------
(* An instance of PaymentInbox for TLC. *)
EXTENDS PaymentInbox

CONSTANTS a1, a2, m1, m2, m3, m4, p1, p2, c1, c2

\* Two messages about one payment, one about another and one about none; all for one
\* account.
Boxes == [m \in Message |-> a1]
Payments == [m \in Message |-> CASE m = m3 -> p2 [] m = m4 -> NoPayment [] OTHER -> p1]

\* Bound: the message that comes with m1 repeats it, tells of a payment beyond the limit,
\* or of none; after the last two the keys stay.
Bounded ==
    /\ Cardinality(sent \cap {m2, m3, m4}) <= 1
    /\ sent \cap {m3, m4} # {} => changes = 1 /\ keys = a1

BoundedSpec == Init /\ [][Next /\ Bounded']_vars /\ Fairness
=============================================================================
