----------------------------- MODULE MCBrc100 ------------------------------
(***************************************************************************)
(* Requests of applications, and the transactions that they and the user   *)
(* ask for: small instances of Brc100Requests and of SpendPlans, checked   *)
(* in one run.  An initial state chooses one; the other stays as it        *)
(* starts.                                                                 *)
(***************************************************************************)
EXTENDS Brc100Requests, SpendPlans, FiniteSetsExt, TLC

VARIABLE part   \* "crowd", "switches" or "plans"

EitherInit == part \in {"crowd", "switches", "plans"} /\ Init /\ PlanInit

Forwarded == {r \in Request : told[r] # "none"}

\* All requests, more than the wallet holds, and a wallet that stays; or two
\* requests of a wallet that changes MaxSwitches times.
EitherNext ==
    /\ UNCHANGED part
    /\ \/ part = "crowd" /\ Next /\ switches' = 0 /\ UNCHANGED planVars
       \/ part = "switches" /\ Next /\ Cardinality(Forwarded') <= 2 /\ UNCHANGED planVars
       \/ part = "plans" /\ PlanNext /\ UNCHANGED vars

EitherSpec == EitherInit /\ [][EitherNext]_<<part, vars, planVars>>

\* Requests of equal trust are interchangeable, and so are the accounts.
Symmetry == Permutations(Request \ Trusted) \cup Permutations(Account)

\* Three coins: with the amounts asked, what a send leaves is 100, or just above.
ThreeCoins == {[tx |-> 0, vout |-> v, sats |-> s, by |-> "send"] :
                   <<v, s>> \in {<<0, 600>>, <<1, 700>>, <<2, 1500>>}}

Send(outs, sats, rate) ==
    [kind |-> "send", n |-> outs, amount |-> sats, bytes |-> outs * OutputSize,
     own |-> 0, outs |-> 0, rate |-> rate]

\* The balance of SpendPlans is the sum of the amounts.
ASSUME BalanceIsSum ==
    \A S \in SUBSET ThreeCoins : Balance(S) = MapThenSumSet(LAMBDA c : c.sats, S)

Low == <<1, 20>>
High == <<1, 1>>

Plans ==
    {Send(n, s, r) : n \in {1, 2}, s \in {500, 590, 1200}, r \in {Low, High}}
    \cup {[Send(0, 0, r) EXCEPT !.kind = "consolidate"] : r \in {Low, High}}
    \cup {[Send(n, 200, Low) EXCEPT !.kind = "lock", !.bytes = 1101 + 34 * (n - 1)] :
              n \in {1, 2}}
    \cup {[Send(1, 1, r) EXCEPT !.kind = "ordinal", !.own = 1, !.outs = 2] :
              r \in {Low, High}}
    \cup {[Send(1, 1, Low) EXCEPT !.kind = "token", !.own = 2, !.outs = 3, !.bytes = 169]}
    \cup {[Send(1, 300, Low) EXCEPT !.kind = "action", !.outs = 2, !.bytes = 209]}
=============================================================================
