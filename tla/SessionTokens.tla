--------------------------- MODULE SessionTokens ---------------------------
(***************************************************************************)
(* The token of the HTTP bridge, the nonces of its state-changing calls    *)
(* and a client of the SDK. The bridge rotates the token when it is older  *)
(* than an hour, after every state-changing call and when the account is   *)
(* switched; it signs each answer with the token of that moment, and the   *)
(* client checks the signature with the token it holds then.               *)
(*                                                                         *)
(* A call of the SDK is one request, or two when it needs a nonce first.   *)
(* Tokens are numbered in the order they are made.                         *)
(***************************************************************************)
EXTENDS Naturals, FiniteSets

CONSTANTS
    Call,       \* calls of the SDK, each made once
    Nonce,
    NoNonce,
    MaxUsed,    \* MAX_USED_NONCES
    MaxToken,   \* bound on rotations
    MaxSwitches \* bound on account switches

ASSUME NonceAssumption == NoNonce \notin Nonce
ASSUME TokenBounds == MaxUsed \in Nat /\ MaxToken \in Nat \ {0} /\ MaxSwitches \in Nat

VARIABLES
    token,      \* SessionState.token
    aged,       \* it is older than SESSION_TOKEN_TTL_SECS
    used,       \* used_nonces, which are those of nonce_timestamps
    later,      \* [Nonce -> those that come after it in nonce_timestamps]
    lapsed,     \* nonces whose five minutes are over
    issued,     \* nonces handed out
    held,       \* sessionToken of the client
    stage,      \* [Call -> how far its request is]
    leg,        \* [Call -> "nonce" | "main": the request it is at]
    carried,    \* [Call -> the token its request carries]
    nonce,      \* [Call -> the nonce it was given]
    sawAged,    \* calls that passed the check with an old token
    refused,    \* calls whose answer is an error
    newToken,   \* [Call -> the token its answer carries, 0 for none]
    signed,     \* [Call -> the token its answer is signed with]
    tampered,   \* calls that reported a wrong signature though nothing overlapped them
    accepted,   \* [Nonce -> times it was accepted]
    forgotten,  \* nonces dropped from used before they lapsed
    alone,      \* calls under way that no other call and no switch overlapped
    behind,     \* the client may hold an old token: an answer was lost, or a switch
    crossed,    \* a state-changing call rotated the token while another answer carried one
    switches

bridgeVars == <<token, aged, used, later, lapsed, issued>>
requestVars == <<leg, carried, nonce, sawAged, refused, newToken, signed>>
ghostVars == <<accepted, forgotten, alone, behind, crossed, switches>>
tokenVars == <<bridgeVars, held, stage, requestVars, tampered, ghostVars>>

\* One invariant for the types of all variables.
TokenTypeOK ==
    /\ token \in 1..MaxToken /\ aged \in BOOLEAN
    /\ used \subseteq Nonce /\ later \in [Nonce -> SUBSET used]
    /\ lapsed \subseteq Nonce /\ issued \subseteq Nonce
    /\ held \in 1..MaxToken
    /\ stage \in [Call -> {"idle", "sent", "checked", "forwarded", "handled", "served", "signed", "over"}]
    /\ leg \in [Call -> {"nonce", "main"}]
    /\ carried \in [Call -> 0..MaxToken] /\ nonce \in [Call -> Nonce \cup {NoNonce}]
    /\ sawAged \subseteq Call
    /\ refused \subseteq Call
    /\ newToken \in [Call -> 0..MaxToken] /\ signed \in [Call -> 0..MaxToken]
    /\ tampered \subseteq Call
    /\ accepted \in [Nonce -> 0..2]
    /\ forgotten \subseteq Nonce /\ alone \subseteq Call
    /\ behind \in BOOLEAN /\ crossed \in BOOLEAN /\ switches \in 0..MaxSwitches

TokenInit ==
    /\ token = 1 /\ aged = FALSE
    /\ used = {} /\ later = [n \in Nonce |-> {}] /\ lapsed = {} /\ issued = {}
    /\ held = 1
    /\ stage = [c \in Call |-> "idle"] /\ leg = [c \in Call |-> "main"]
    /\ carried = [c \in Call |-> 0] /\ nonce = [c \in Call |-> NoNonce]
    /\ sawAged = {} /\ refused = {} /\ tampered = {}
    /\ newToken = [c \in Call |-> 0] /\ signed = [c \in Call |-> 0]
    /\ accepted = [n \in Nonce |-> 0] /\ forgotten = {}
    /\ alone = {} /\ behind = FALSE /\ crossed = FALSE /\ switches = 0

InFlight == {c \in Call : stage[c] \notin {"idle", "over"}}

\* A call that changes state carries a nonce, and rotates the token.
Changes(c) == nonce[c] # NoNonce

Step(c, s) == stage' = [stage EXCEPT ![c] = s]

(***************************************************************************)
(* The client: request() of the SDK.                                       *)
(***************************************************************************)
\* A call sends its first request: for a nonce if it changes state and was given none.
Begin(c) ==
    /\ stage[c] = "idle"
    /\ Step(c, "sent")
    /\ carried' = [carried EXCEPT ![c] = held]
    /\ \/ leg' = [leg EXCEPT ![c] = "nonce"] /\ UNCHANGED nonce
       \/ UNCHANGED leg /\ \E n \in issued : nonce' = [nonce EXCEPT ![c] = n]
       \/ UNCHANGED <<leg, nonce>>
    /\ alone' = IF InFlight = {} /\ held = token THEN alone \cup {c} ELSE alone \ InFlight
    /\ UNCHANGED <<bridgeVars, held, sawAged, refused, newToken, signed, tampered,
                   accepted, forgotten, behind, crossed, switches>>

\* A token in the answer replaces the one held, before the signature is checked.
TokenAfter(c) == IF newToken[c] # 0 THEN newToken[c] ELSE held

Verified(c) == signed[c] = TokenAfter(c)

\* The request is over: what only it used is reset.
Forget(c) ==
    /\ carried' = [carried EXCEPT ![c] = 0] /\ nonce' = [nonce EXCEPT ![c] = NoNonce]
    /\ leg' = [leg EXCEPT ![c] = "main"] /\ refused' = refused \ {c}

\* The answer arrives. With a nonce the call goes on to its main request.
Receive(c) ==
    /\ stage[c] = "signed"
    /\ held' = TokenAfter(c)
    /\ tampered' = IF Verified(c) THEN tampered ELSE tampered \cup (alone \cap {c})
    /\ IF leg[c] = "nonce" /\ Verified(c) /\ c \notin refused
         THEN /\ Step(c, "sent")
              /\ leg' = [leg EXCEPT ![c] = "main"]
              /\ carried' = [carried EXCEPT ![c] = held']
              /\ UNCHANGED <<nonce, refused, alone>>
         ELSE Step(c, "over") /\ Forget(c) /\ alone' = alone \ {c}
    /\ newToken' = [newToken EXCEPT ![c] = 0]
    /\ signed' = [signed EXCEPT ![c] = 0]
    /\ UNCHANGED <<bridgeVars, sawAged, accepted, forgotten, behind, crossed, switches>>

\* The client gives up after its timeout and never sees the answer.
GiveUp(c) ==
    /\ c \in InFlight
    /\ Step(c, "over") /\ Forget(c)
    /\ behind' = TRUE /\ alone' = alone \ {c}
    /\ newToken' = [newToken EXCEPT ![c] = 0]
    /\ signed' = [signed EXCEPT ![c] = 0]
    /\ sawAged' = sawAged \ {c}
    /\ UNCHANGED <<bridgeVars, held, tampered, accepted, forgotten, crossed, switches>>

(***************************************************************************)
(* The bridge.                                                             *)
(***************************************************************************)
\* rotate_token.
Rotate == token < MaxToken /\ token' = token + 1 /\ aged' = FALSE

Succeed == UNCHANGED refused
Fail(c) == refused' = refused \cup {c}

\* validate_session_token up to next.run: the token must be the current one, and
\* the rate limit may refuse the request all the same.
CheckToken(c) ==
    /\ stage[c] = "sent"
    /\ \/ /\ carried[c] = token /\ Step(c, "checked")
          /\ sawAged' = IF aged THEN sawAged \cup {c} ELSE sawAged
          /\ UNCHANGED refused
       \/ Step(c, "served") /\ Fail(c) /\ UNCHANGED sawAged
    /\ UNCHANGED <<bridgeVars, held, leg, carried, nonce, newToken, signed, tampered, ghostVars>>

\* handle_get_nonce.
GetNonce(c) ==
    /\ stage[c] = "checked" /\ leg[c] = "nonce"
    /\ \E n \in Nonce \ issued :
         issued' = issued \cup {n} /\ nonce' = [nonce EXCEPT ![c] = n]
    /\ Step(c, "handled") /\ Succeed
    /\ UNCHANGED <<token, aged, used, later, lapsed, held, leg, carried, sawAged, newToken, signed,
                   tampered, ghostVars>>

\* cleanup_expired_nonces: what lapsed goes, then the oldest beyond the limit.
Unexpired == used \ lapsed
Cleaned == {n \in Unexpired : Cardinality(later[n] \ lapsed) < MaxUsed}

\* MUTANT of ValidNonce: the nonce is not looked for among the used ones.
ValidUnexpired(n) == n \notin lapsed

\* SessionState::validate_nonce.
ValidNonce(n) == n \notin Cleaned /\ n \notin lapsed

\* nonce_timestamps after the clean-up, with the nonces of S pushed at its end.
Keep(S) ==
    /\ used' = Cleaned \cup S
    /\ later' = [n \in Nonce |-> IF n \in Cleaned THEN (later[n] \cap Cleaned) \cup S ELSE {}]

\* A request that carries a nonce goes on to the wallet if the nonce is good.
CheckNonce(c) ==
    /\ stage[c] = "checked" /\ leg[c] = "main" /\ Changes(c)
    /\ LET n == nonce[c]
       IN  IF ValidNonce(n)
             THEN /\ Keep({n})
                  /\ accepted[n] < 2 /\ accepted' = [accepted EXCEPT ![n] = @ + 1]
                  /\ Step(c, "forwarded") /\ UNCHANGED refused
             ELSE /\ Keep({}) /\ UNCHANGED accepted
                  /\ Step(c, "handled") /\ Fail(c)
    /\ forgotten' = forgotten \cup (Unexpired \ Cleaned)
    /\ UNCHANGED <<token, aged, lapsed, issued, held, leg, carried, nonce, sawAged, newToken,
                   signed, tampered, alone, behind, crossed, switches>>

\* A read-only request needs no nonce.
Forward(c) ==
    /\ stage[c] = "checked" /\ leg[c] = "main" /\ ~Changes(c)
    /\ Step(c, "forwarded")
    /\ UNCHANGED <<bridgeVars, held, requestVars, tampered, ghostVars>>

\* forward_to_frontend: the wallet answers, refuses, or does not answer in thirty
\* seconds. After a state-changing call the token is rotated.
WalletAnswers(c) ==
    /\ stage[c] = "forwarded"
    /\ Step(c, "handled")
    /\ \/ Fail(c) /\ UNCHANGED <<token, aged, newToken, crossed>>
       \/ ~Changes(c) /\ Succeed /\ UNCHANGED <<token, aged, newToken, crossed>>
       \/ /\ Changes(c) /\ Succeed
          /\ Rotate /\ newToken' = [newToken EXCEPT ![c] = token']
          /\ crossed' = (crossed \/ \E d \in InFlight \ {c} : newToken[d] # 0)
    /\ UNCHANGED <<used, later, lapsed, issued, held, leg, carried, nonce, sawAged, signed, tampered,
                   accepted, forgotten, alone, behind, switches>>

\* MUTANT of StillAged: the answer given before the request ran is trusted.
SawItAged(c) == c \in sawAged

\* The second check of the age, under the lock.
StillAged(c) == c \in sawAged /\ aged

\* validate_session_token after next.run.
RotateAged(c) ==
    /\ stage[c] = "handled"
    /\ Step(c, "served")
    /\ IF StillAged(c)
         THEN Rotate /\ newToken' = [newToken EXCEPT ![c] = token']
         ELSE UNCHANGED <<token, aged, newToken>>
    /\ sawAged' = sawAged \ {c}
    /\ UNCHANGED <<used, later, lapsed, issued, held, leg, carried, nonce, refused, signed, tampered,
                   ghostVars>>

\* The response_signing layer, around all others.
Sign(c) ==
    /\ stage[c] = "served"
    /\ Step(c, "signed")
    /\ signed' = [signed EXCEPT ![c] = token]
    /\ UNCHANGED <<bridgeVars, held, leg, carried, nonce, sawAged, refused, newToken, tampered,
                   ghostVars>>

(***************************************************************************)
(* The rest of the wallet, and time.                                       *)
(***************************************************************************)
\* rotate_session_for_account: on a switch, an unlock or a new password. No
\* client is told.
SwitchAccount ==
    /\ switches < MaxSwitches /\ Rotate
    /\ used' = {} /\ later' = [n \in Nonce |-> {}]
    /\ switches' = switches + 1
    /\ forgotten' = forgotten \cup (used \ lapsed)
    /\ behind' = TRUE /\ alone' = alone \ InFlight
    /\ UNCHANGED <<lapsed, issued, held, stage, requestVars, tampered, accepted, crossed>>

\* setSessionToken, with what the wallet shows (get_session_token).
SetSessionToken ==
    /\ InFlight = {} /\ (behind \/ crossed)
    /\ held' = token
    /\ behind' = FALSE /\ crossed' = FALSE
    /\ UNCHANGED <<bridgeVars, stage, requestVars, tampered, accepted, forgotten, alone, switches>>

\* An hour passes: every request that carries an older token is long over.
Age ==
    /\ ~aged /\ \A c \in InFlight : carried[c] = token
    /\ aged' = TRUE
    /\ UNCHANGED <<token, used, later, lapsed, issued, held, stage, requestVars, tampered, ghostVars>>

\* Five minutes pass.
Lapse(n) ==
    /\ n \in issued \ lapsed
    /\ lapsed' = lapsed \cup {n}
    /\ UNCHANGED <<token, aged, used, later, issued, held, stage, requestVars, tampered, ghostVars>>

TokenNext ==
    \/ \E c \in Call : \/ Begin(c) \/ Receive(c) \/ GiveUp(c)
                      \/ CheckToken(c) \/ GetNonce(c) \/ CheckNonce(c) \/ Forward(c)
                      \/ WalletAnswers(c) \/ RotateAged(c) \/ Sign(c)
    \/ SwitchAccount \/ SetSessionToken \/ Age
    \/ \E n \in Nonce : Lapse(n)

TokenSpec == TokenInit /\ [][TokenNext]_tokenVars

(***************************************************************************)
(* Properties.                                                             *)
(***************************************************************************)
\* S-23, the second check of the age: however the answers of calls that saw an
\* old token arrive, the client ends with the token of the bridge. Only a lost
\* answer, a switch, or a rotation after a state-changing call that crosses
\* another answer with a token leaves it behind. And a call that nothing overlaps
\* never reports a forged answer: the bridge signs with the token it hands out, and
\* the client takes that one first.
ClientKeepsUp ==
    /\ InFlight = {} /\ ~behind /\ ~crossed => held = token
    /\ tampered = {}

\* A nonce is accepted once, unless the bridge forgot it: on a switch, or when
\* more than MAX_USED_NONCES were accepted in five minutes.
NonceAcceptedOnce == \A n \in Nonce \ forgotten : accepted[n] <= 1

\* docs/reviews/2026-02-23-full-review-v10.md says of S-23 that it "eliminates the
\* race entirely": no overlap of calls leaves the client "holding an invalidated
\* token".
OverlapKeepsToken == InFlight = {} /\ ~behind => held = token
=============================================================================
