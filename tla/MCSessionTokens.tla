-------------------------- MODULE MCSessionTokens --------------------------
(***************************************************************************)
(* The session with an application and the switches of account, which      *)
(* rotate its token: small instances of SessionTokens, where a switch is   *)
(* one step, and of AccountSwitch, which tells its steps apart, checked in *)
(* one run.  An initial state chooses one; the other stays as it starts.   *)
(***************************************************************************)
EXTENDS SessionTokens, AccountSwitch, TLC

CONSTANTS x1, x2, x3, n1, n2, b1, b2, b3

VARIABLE part   \* "tokens" or "switches"

EitherInit ==
    /\ part \in {"tokens", "switches"}
    /\ TokenInit /\ SwitchInit
    /\ part = "tokens" => active = CHOOSE a \in First : TRUE

EitherNext ==
    /\ UNCHANGED part
    /\ \/ part = "tokens" /\ TokenNext /\ UNCHANGED switchVars
       \/ part = "switches" /\ SwitchNext /\ UNCHANGED tokenVars

EitherSpec == EitherInit /\ [][EitherNext]_<<part, tokenVars, switchVars>>

Symmetry == Permutations(Call) \cup Permutations(Nonce)
=============================================================================
