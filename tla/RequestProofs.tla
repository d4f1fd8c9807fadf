---------------------------- MODULE RequestProofs ----------------------------
(***************************************************************************)
(* Theorems about the requests of applications (Brc100Requests), for any   *)
(* number of requests and accounts, and about the transactions that they   *)
(* and the user ask for (SpendPlans), for any coins, plans and rates.      *)
(***************************************************************************)
EXTENDS Brc100Requests, SpendPlans, FiniteSetTheorems, TLAPS

-----------------------------------------------------------------------------
(* Requests.  The invariant follows each request on its own (Sound): what   *)
(* an action does to one request, it does to no other, except that a        *)
(* question replaces the one on the screen.  Runs are counted together with *)
(* the calls that have yet to run.                                          *)

ToDo == {"recording", "running"}
Left(r) == (IF approval[r][1] \in ToDo THEN 1 ELSE 0) + (IF approval[r][2] \in ToDo THEN 1 ELSE 0)
Limit(r) == IF r \in Trusted THEN 2 ELSE 1
Unapproved(r) == \A i \in Call : approval[r][i] = "none"

\* Nobody has looked at the request.
Fresh(r) ==
    /\ r \notin held /\ modal # r /\ Unapproved(r) /\ refusal[r] = "none" /\ runs[r] = 0
    /\ \A w \in Word : <<r, w>> \notin replies

Sound(r) ==
    /\ told[r] \in {"none", "failed"} => Fresh(r) /\ r \notin events
    /\ r \in events => Fresh(r)
    /\ r \in channel => told[r] \in {"waiting", "failed"}
    /\ r \in held => owner[r] # NoWallet
    /\ Approved(r) => keys = owner[r] \/ r \in overtaken
    /\ runs[r] + Left(r) <= Limit(r)
    /\ modal = r => Unapproved(r) /\ refusal[r] = "none" /\ runs[r] = 0 /\ r \notin Trusted
    /\ refusal[r] # "none" => runs[r] = 0 /\ Unapproved(r) /\ modal # r
    /\ <<r, "refused">> \in replies \/ told[r] = "refused" => refusal[r] = "done"
    /\ <<r, "ok">> \in replies \/ told[r] = "ok" => runs[r] > 0
    /\ \A i \in Call : approval[r][i] = "succeeded" => runs[r] > 0

RequestInv == TypeOK /\ \A r \in Request : Sound(r)

-----------------------------------------------------------------------------
LEMMA InitRequests == Init => RequestInv
<1> SUFFICES ASSUME Init PROVE RequestInv
  OBVIOUS
<1>1. TypeOK
  BY BoundAssumption DEF Init, TypeOK, Call, Step, Word
<1>2. ASSUME NEW r \in Request PROVE Sound(r)
  <2>1. Fresh(r) /\ Left(r) = 0
    BY RequestAssumption DEF Init, Fresh, Unapproved, Left, ToDo, Call
  <2>2. QED BY <2>1, RequestAssumption DEF Init, Sound, Limit, Call, Fresh, Unapproved, Approved
<1>3. QED BY <1>1, <1>2 DEF RequestInv

\* What an action does not touch stays sound.
LEMMA AsideSound ==
    ASSUME NEW r \in Request, Sound(r), modal' = r => modal = r,
           told'[r] = told[r], r \in events' => r \in events, r \in channel' => r \in channel,
           r \in held' => r \in held, owner'[r] = owner[r], keys' = keys \/ r \in overtaken',
           r \in overtaken => r \in overtaken',
           approval'[r] = approval[r], refusal'[r] = refusal[r], runs'[r] = runs[r],
           \A w \in Word : <<r, w>> \in replies' => <<r, w>> \in replies
    PROVE  Sound(r)'
<1>1. Left(r)' = Left(r) /\ Unapproved(r)' = Unapproved(r)
  BY DEF Left, Unapproved
<1>2. Fresh(r) => Fresh(r)'
  BY <1>1 DEF Fresh
<1>3. "ok" \in Word /\ "refused" \in Word
  BY DEF Word
<1>4. Approved(r)' = Approved(r)
  BY DEF Approved
<1>5. QED BY <1>1, <1>2, <1>3, <1>4 DEF Sound, Limit

-----------------------------------------------------------------------------
(* The bridge.                                                               *)

(* What is left to run.                                                      *)
LEMMA LeftIsNat == \A r : Left(r) \in 0..2 /\ Limit(r) \in 1..2
  BY DEF Left, Limit

LEMMA ForwardKeeps ==
    ASSUME RequestInv, NEW r \in Request, Forward(r)
    PROVE  RequestInv'
<1> USE DEF RequestInv
<1>1. TypeOK'
  BY DEF Forward, manageVars, workVars, walletVars, TypeOK, Word, Call, Step, vars
<1>2. ASSUME NEW q \in Request, q # r PROVE Sound(q)'
  BY <1>2, AsideSound DEF Forward, manageVars, workVars, walletVars, TypeOK
<1>3. Sound(r)'
  BY DEF Forward, manageVars, workVars, walletVars, Sound, TypeOK, Fresh, Unapproved, Left, Limit, ToDo, Word, Call, Approved
<1>4. QED BY <1>1, <1>2, <1>3

LEMMA EmitFailsKeeps ==
    ASSUME RequestInv, NEW r \in Request, EmitFails(r)
    PROVE  RequestInv'
<1> USE DEF RequestInv
<1>1. TypeOK'
  BY DEF EmitFails, manageVars, workVars, walletVars, TypeOK, Word, Call, Step, vars
<1>2. ASSUME NEW q \in Request, q # r PROVE Sound(q)'
  BY <1>2, AsideSound DEF EmitFails, manageVars, workVars, walletVars, TypeOK
<1>3. Sound(r)'
  BY DEF EmitFails, manageVars, workVars, walletVars, Sound, TypeOK, Fresh, Unapproved, Left, Limit, ToDo, Word, Call, Approved
<1>4. QED BY <1>1, <1>2, <1>3

LEMMA BridgeTimeoutKeeps ==
    ASSUME RequestInv, NEW r \in Request, BridgeTimeout(r)
    PROVE  RequestInv'
<1> USE DEF RequestInv
<1>1. TypeOK'
  BY DEF BridgeTimeout, manageVars, workVars, walletVars, TypeOK, Word, Call, Step, vars
<1>2. ASSUME NEW q \in Request, q # r PROVE Sound(q)'
  BY <1>2, AsideSound DEF BridgeTimeout, manageVars, workVars, walletVars, TypeOK
<1>3. Sound(r)'
  BY DEF BridgeTimeout, manageVars, workVars, walletVars, Sound, TypeOK, Fresh, Unapproved, Left, Limit, ToDo, Word, Call, Approved
<1>4. QED BY <1>1, <1>2, <1>3

LEMMA DeliverKeeps ==
    ASSUME RequestInv, NEW r \in Request, NEW w \in Word, Deliver(r, w)
    PROVE  RequestInv'
<1> USE DEF RequestInv
<1>1. TypeOK'
  BY DEF Deliver, manageVars, workVars, walletVars, TypeOK, Word, Call, Step, vars
<1>2. ASSUME NEW q \in Request, q # r PROVE Sound(q)'
  BY <1>2, AsideSound DEF Deliver, manageVars, workVars, walletVars, TypeOK
<1>3. Sound(r)'
  <2>1. /\ UNCHANGED <<events, held, owner, modal, approval, refusal, runs, overtaken, keys>>
        /\ <<r, w>> \in replies /\ replies' \subseteq replies /\ channel' = channel \ {r}
        /\ told'[r] = told[r] \/ told'[r] = w
    BY DEF Deliver, manageVars, workVars, walletVars, TypeOK
  <2>2. /\ Left(r)' = Left(r) /\ Approved(r)' = Approved(r) /\ Unapproved(r)' = Unapproved(r)
        /\ Limit(r)' = Limit(r)
    BY <2>1 DEF Left, Approved, Unapproved, Limit
  <2>3. ~Fresh(r) /\ w \notin {"none", "failed"}
    BY <2>1 DEF Fresh, Word
  <2>4. told[r] \notin {"none", "failed"} /\ r \notin events
    BY <2>3 DEF Sound
  <2>5. QED BY <2>1, <2>2, <2>3, <2>4 DEF Sound
<1>4. QED BY <1>1, <1>2, <1>3

-----------------------------------------------------------------------------
(* The listener and the user.                                                *)

LEMMA RejectKeeps ==
    ASSUME RequestInv, NEW r \in Request, Reject(r)
    PROVE  RequestInv'
<1> USE DEF RequestInv
<1>1. TypeOK'
  BY DEF Reject, bridgeVars, walletVars, TypeOK, Word, Call, Step, vars
<1>2. ASSUME NEW q \in Request, q # r PROVE Sound(q)'
  BY <1>2, AsideSound, RequestAssumption DEF Reject, bridgeVars, walletVars, TypeOK
<1>3. Sound(r)'
  BY RequestAssumption DEF Reject, bridgeVars, walletVars, Sound, TypeOK, Fresh, Unapproved, Left, Limit, ToDo, Word, Call, Approved
<1>4. QED BY <1>1, <1>2, <1>3

LEMMA RejectRecordedKeeps ==
    ASSUME RequestInv, NEW r \in Request, RejectRecorded(r)
    PROVE  RequestInv'
<1> USE DEF RequestInv
<1>1. TypeOK'
  BY DEF RejectRecorded, Reply, bridgeVars, walletVars, TypeOK, Word, Call, Step, vars
<1>2. ASSUME NEW q \in Request, q # r PROVE Sound(q)'
  BY <1>2, AsideSound DEF RejectRecorded, Reply, bridgeVars, walletVars, TypeOK
<1>3. Sound(r)'
  <2>1. refusal[r] # "none" /\ refusal'[r] = "done"
    BY DEF RejectRecorded, TypeOK
  <2>2. ~Fresh(r) /\ Unapproved(r)' /\ Left(r)' = Left(r)
    BY <2>1 DEF Fresh, Sound, Unapproved, Left, RejectRecorded
  <2>3. \A w \in Word : <<r, w>> \in replies' => <<r, w>> \in replies \/ w = "refused"
    BY DEF RejectRecorded, Reply
  <2>4. told[r] \notin {"none", "failed"} /\ r \notin events
    BY <2>2 DEF Sound
  <2>5. QED BY <2>1, <2>2, <2>3, <2>4 DEF RejectRecorded, Sound, Limit, Word, bridgeVars, walletVars, Approved
<1>4. QED BY <1>1, <1>2, <1>3

LEMMA ApprovalRecordedKeeps ==
    ASSUME RequestInv, NEW r \in Request, NEW i \in Call, ApprovalRecorded(r, i)
    PROVE  RequestInv'
<1> USE DEF RequestInv
<1>1. TypeOK'
  BY DEF ApprovalRecorded, SetCall, bridgeVars, manageVars, walletVars, TypeOK, Word, Call, Step, vars
<1>2. ASSUME NEW q \in Request, q # r PROVE Sound(q)'
  BY <1>2, AsideSound DEF ApprovalRecorded, SetCall, bridgeVars, manageVars, walletVars, TypeOK
<1>3. Sound(r)'
  BY DEF ApprovalRecorded, SetCall, bridgeVars, manageVars, walletVars, Sound, TypeOK, Fresh, Unapproved, Left, Limit, ToDo, Word, Call, Approved
<1>4. QED BY <1>1, <1>2, <1>3

LEMMA ExecuteKeeps ==
    ASSUME RequestInv, NEW r \in Request, NEW i \in Call, Execute(r, i)
    PROVE  RequestInv'
<1> USE DEF RequestInv
<1>1. TypeOK'
  <2>1. Left(r) # 0
    BY DEF Execute, Left, ToDo, Call
  <2>2. runs[r] + 1 \in 0..2
    <3>1. runs[r] + Left(r) <= Limit(r) /\ runs[r] \in 0..2
      BY DEF Sound, TypeOK
    <3>2. QED BY <2>1, <3>1, LeftIsNat
  <2>3. runs' \in [Request -> 0..2]
    BY <2>2 DEF Execute, TypeOK
  <2>4. approval' \in [Request -> [Call -> Step]]
    <3>1. PICK s \in Step : SetCall(r, i, s)
      BY DEF Execute, Step
    <3>2. QED BY <3>1 DEF SetCall, TypeOK
  <2>5. QED
    BY <2>3, <2>4 DEF Execute, bridgeVars, manageVars, walletVars, TypeOK
<1>2. ASSUME NEW q \in Request, q # r PROVE Sound(q)'
  BY <1>2, AsideSound DEF Execute, SetCall, bridgeVars, manageVars, walletVars, TypeOK
<1>3. Sound(r)'
  <2>1. \A j \in Call : j # i => approval'[r][j] = approval[r][j]
    BY DEF Execute, SetCall, TypeOK
  <2>2. approval[r][i] = "running" /\ approval'[r][i] \in {"succeeded", "errored"}
    BY DEF Execute, SetCall, TypeOK
  <2>3. ~Unapproved(r) /\ ~Fresh(r) /\ Left(r)' = Left(r) - 1
    BY <2>1, <2>2 DEF Unapproved, Fresh, Left, ToDo, Call
  <2>4. /\ told[r] \notin {"none", "failed"} /\ r \notin events /\ modal # r
        /\ refusal[r] = "none"
    BY <2>3 DEF Sound, TypeOK
  <2>5. \/ runs'[r] = runs[r] + 1
        \/ runs'[r] = runs[r] /\ approval'[r][i] = "errored"
    BY DEF Execute, SetCall, TypeOK
  <2>6. /\ runs[r] \in 0..2 /\ runs[r] + Left(r) <= Limit(r)
        /\ \A j \in Call : approval[r][j] = "succeeded" => runs[r] > 0
    BY DEF TypeOK, Sound
  <2>7. runs'[r] + Left(r)' <= Limit(r) /\ (runs[r] > 0 => runs'[r] > 0)
    BY <2>3, <2>5, <2>6, LeftIsNat
  <2>8. \A j \in Call : approval'[r][j] = "succeeded" => runs'[r] > 0
    BY <2>1, <2>2, <2>5, <2>6, <2>7
  <2>9. Approved(r)' => Approved(r)
    BY <2>1, <2>2 DEF Approved
  <2>10. QED BY <2>4, <2>7, <2>8, <2>9 DEF Execute, Sound, Limit, bridgeVars, manageVars, walletVars
<1>4. QED BY <1>1, <1>2, <1>3

LEMMA SettleKeeps ==
    ASSUME RequestInv, NEW r \in Request, NEW i \in Call, Settle(r, i)
    PROVE  RequestInv'
<1> USE DEF RequestInv
<1>1. TypeOK'
  BY DEF Settle, SetCall, Reply, bridgeVars, manageVars, walletVars, TypeOK, Word, Call, Step, vars
<1>2. ASSUME NEW q \in Request, q # r PROVE Sound(q)'
  BY <1>2, AsideSound DEF Settle, SetCall, Reply, bridgeVars, manageVars, walletVars, TypeOK
<1>3. Sound(r)'
  <2>1. \A j \in Call : j # i => approval'[r][j] = approval[r][j]
    BY DEF Settle, SetCall, TypeOK
  <2>2. approval[r][i] \in {"succeeded", "errored"} /\ approval'[r][i] = "done"
    BY DEF Settle, SetCall, TypeOK
  <2>3. ~Unapproved(r) /\ ~Fresh(r) /\ Left(r)' = Left(r)
    BY <2>1, <2>2 DEF Unapproved, Fresh, Left, ToDo, Call
  <2>4. /\ told[r] \notin {"none", "failed"} /\ r \notin events /\ modal # r
        /\ refusal[r] = "none"
    BY <2>3 DEF Sound, TypeOK
  <2>5. /\ <<r, "refused">> \in replies' => <<r, "refused">> \in replies
        /\ <<r, "ok">> \in replies' => <<r, "ok">> \in replies \/ approval[r][i] = "succeeded"
    BY DEF Settle, Reply
  <2>6. \A j \in Call : approval'[r][j] = "succeeded" => runs'[r] > 0
    BY <2>1, <2>2 DEF Sound, Settle
  <2>7. Approved(r)' => Approved(r)
    BY <2>1, <2>2 DEF Approved
  <2>8. QED BY <2>3, <2>4, <2>5, <2>6, <2>7 DEF Settle, Sound, Limit, bridgeVars, manageVars, walletVars
<1>4. QED BY <1>1, <1>2, <1>3

LEMMA ExpireKeeps ==
    ASSUME RequestInv, NEW r \in Request, Expire(r)
    PROVE  RequestInv'
<1> USE DEF RequestInv
<1>1. TypeOK'
  BY DEF Expire, Reply, bridgeVars, workVars, walletVars, TypeOK, Word, Call, Step, vars
<1>2. ASSUME NEW q \in Request, q # r PROVE Sound(q)'
  BY <1>2, AsideSound DEF Expire, Reply, bridgeVars, workVars, walletVars, TypeOK
<1>3. Sound(r)'
  BY DEF Expire, Reply, bridgeVars, workVars, walletVars, Sound, TypeOK, Fresh, Unapproved, Left, Limit, ToDo, Word, Call, Approved
<1>4. QED BY <1>1, <1>2, <1>3

LEMMA ApproveKeeps ==
    ASSUME RequestInv, NEW r \in Request, Approve(r)
    PROVE  RequestInv'
<1> USE DEF RequestInv
<1>1. CASE r \in held /\ MayApprove(r)
  <2>1. /\ approval' = [approval EXCEPT ![r] =
                          [i \in Call |-> IF i \in {1} THEN "recording" ELSE approval[r][i]]]
        /\ overtaken' = IF keys = wallet THEN overtaken ELSE overtaken \cup {r}
        /\ modal = r /\ modal' = NoRequest
        /\ UNCHANGED <<bridgeVars, held, replies, owner, refusal, runs, walletVars>>
    BY <1>1 DEF Approve, StartApproval, BeginCalls
  <2>2. TypeOK'
    BY <2>1 DEF TypeOK, bridgeVars, walletVars, Step
  <2>3. ASSUME NEW q \in Request, q # r PROVE Sound(q)'
    BY <2>1, <2>3, AsideSound, RequestAssumption DEF TypeOK, bridgeVars, walletVars
  <2>4. Sound(r)'
    <3>1. /\ Unapproved(r) /\ refusal[r] = "none" /\ runs[r] = 0 /\ ~Fresh(r)
          /\ owner[r] = wallet
      BY <1>1, <2>1 DEF Sound, Fresh, MayApprove
    <3>2. approval'[r][1] = "recording" /\ approval'[r][2] = "none"
      BY <2>1, <3>1 DEF TypeOK, Unapproved, Call
    <3>3. Left(r)' = 1
      BY <3>2 DEF Left, ToDo
    <3>4. runs'[r] + Left(r)' <= Limit(r)
      BY <2>1, <3>1, <3>3, LeftIsNat
    <3>5. \A i \in Call : approval'[r][i] # "succeeded"
      BY <3>2 DEF Call
    <3>6. /\ told[r] \notin {"none", "failed"} /\ r \notin events /\ modal' # r
          /\ Limit(r)' = Limit(r)
      BY <2>1, <3>1, RequestAssumption DEF Sound, Limit
    <3>7. keys' = owner'[r] \/ r \in overtaken'
      BY <2>1, <3>1 DEF walletVars
    <3>8. QED BY <2>1, <3>1, <3>2, <3>4, <3>5, <3>6, <3>7 DEF Sound, bridgeVars
  <2>5. QED BY <2>2, <2>3, <2>4
<1>2. CASE ~(r \in held /\ MayApprove(r))
  <2>1. /\ modal = r /\ modal' = NoRequest
        /\ UNCHANGED <<bridgeVars, approval, overtaken, owner, refusal, runs, walletVars>>
        /\ held' \subseteq held /\ replies \subseteq replies'
        /\ replies' \subseteq replies \cup {<<r, "error">>}
    BY <1>2 DEF Approve, StartApproval, Reply
  <2>2. TypeOK'
    BY <2>1 DEF TypeOK, bridgeVars, walletVars, Word
  <2>3. ASSUME NEW q \in Request, q # r PROVE Sound(q)'
    BY <2>1, <2>3, AsideSound, RequestAssumption DEF TypeOK, bridgeVars, walletVars
  <2>4. Sound(r)'
    <3>1. ~Fresh(r) /\ Left(r)' = Left(r) /\ Limit(r)' = Limit(r) /\ modal' # r
      BY <2>1, RequestAssumption DEF Fresh, Left, Limit
    <3>2. /\ <<r, "ok">> \in replies' => <<r, "ok">> \in replies
          /\ <<r, "refused">> \in replies' => <<r, "refused">> \in replies
      BY <2>1
    <3>3. QED BY <2>1, <3>1, <3>2 DEF Sound, bridgeVars, walletVars, Approved
  <2>5. QED BY <2>2, <2>3, <2>4
<1>3. QED BY <1>1, <1>2

\* What is heard is fresh, and its application waits or has given up.
LEMMA HeardIsFresh ==
    ASSUME RequestInv, NEW r \in Request, r \in events
    PROVE  Fresh(r) /\ told[r] \notin {"none", "failed", "refused", "ok"} /\ Left(r) = 0
<1>1. Fresh(r) /\ told[r] \notin {"none", "failed"}
  BY DEF RequestInv, Sound
<1>2. told[r] # "refused" /\ told[r] # "ok"
  <2>1. runs[r] = 0 /\ refusal[r] = "none"
    BY <1>1 DEF Fresh
  <2>2. (told[r] = "refused" => refusal[r] = "done") /\ (told[r] = "ok" => runs[r] > 0)
    BY DEF RequestInv, Sound
  <2>3. QED BY <2>1, <2>2
<1>3. QED BY <1>1, <1>2 DEF Fresh, Unapproved, Left, ToDo, Call

LEMMA ListenKeeps ==
    ASSUME RequestInv, NEW r \in Request, Listen(r)
    PROVE  RequestInv'
<1> USE DEF RequestInv
<1>1. Fresh(r) /\ told[r] \notin {"none", "failed", "refused", "ok"} /\ Left(r) = 0
  BY HeardIsFresh DEF Listen
<1>2. /\ events' = events \ {r} /\ r \in events
      /\ UNCHANGED <<told, channel, walletVars, refusal>>
  BY DEF Listen, workVars
<1>3. CASE /\ UNCHANGED <<manageVars, approval, overtaken>>
           /\ \E w \in {"ok", "error"} : replies' = replies \cup {<<r, w>>}
           /\ \/ UNCHANGED runs /\ <<r, "ok">> \notin replies'
              \/ runs' = [runs EXCEPT ![r] = 1]
  <2>1. TypeOK'
    BY <1>2, <1>3 DEF TypeOK, walletVars, manageVars, Word
  <2>2. ASSUME NEW q \in Request, q # r PROVE Sound(q)'
    BY <1>2, <1>3, <2>2, AsideSound DEF TypeOK, manageVars, walletVars
  <2>3. Sound(r)'
    <3>1. Unapproved(r) /\ modal # r /\ r \notin held /\ <<r, "refused">> \notin replies
      BY <1>1 DEF Fresh, Word
    <3>2. runs'[r] \in {0, 1} /\ (<<r, "ok">> \in replies' => runs'[r] > 0)
      BY <1>1, <1>3 DEF Fresh, TypeOK
    <3>3. runs'[r] + Left(r)' <= Limit(r)'
      BY <1>1, <1>3, <3>2, LeftIsNat DEF Left, Limit
    <3>4. refusal[r] = "none" /\ <<r, "refused">> \notin replies'
      BY <1>1, <1>3, <3>1 DEF Fresh
    <3>5. \A i \in Call : approval'[r][i] # "succeeded"
      BY <1>3, <3>1 DEF Unapproved
    <3>6. QED
      BY <1>1, <1>2, <1>3, <3>1, <3>2, <3>3, <3>4, <3>5 DEF Sound, manageVars, walletVars, Approved
  <2>4. QED BY <2>1, <2>2, <2>3
<1>4. CASE /\ wallet # NoWallet /\ UNCHANGED <<runs, replies>>
           /\ held' = held \cup {r} /\ owner' = [owner EXCEPT ![r] = wallet]
           /\ IF r \in Trusted
                THEN /\ approval' = [approval EXCEPT ![r] = [i \in Call |-> "recording"]]
                     /\ overtaken' = IF keys = wallet THEN overtaken ELSE overtaken \cup {r}
                     /\ UNCHANGED modal
                ELSE modal' = r /\ UNCHANGED <<approval, overtaken>>
  <2>1. TypeOK'
    <3>1. /\ owner' \in [Request -> Account \cup {NoWallet}]
          /\ overtaken' \subseteq Request
          /\ modal' \in Request \cup {NoRequest}
      BY <1>4 DEF TypeOK
    <3>2. approval' \in [Request -> [Call -> Step]]
      <4>1. [i \in Call |-> "recording"] \in [Call -> Step]
        BY DEF Step
      <4>2. QED BY <1>4, <4>1 DEF TypeOK
    <3>3. QED BY <1>2, <1>4, <3>1, <3>2 DEF TypeOK, walletVars
  <2>2. ASSUME NEW q \in Request, q # r PROVE Sound(q)'
    BY <1>2, <1>4, <2>2, AsideSound DEF TypeOK, walletVars
  <2>3. Sound(r)'
    <3>1. /\ runs'[r] = 0 /\ refusal'[r] = "none" /\ owner'[r] # NoWallet
          /\ <<r, "refused">> \notin replies' /\ <<r, "ok">> \notin replies'
      BY <1>1, <1>2, <1>4 DEF Fresh, TypeOK, Word
    <3>2. \A i \in Call : approval'[r][i] # "succeeded"
      BY <1>1, <1>4 DEF Fresh, Unapproved, TypeOK
    <3>3. Left(r)' <= Limit(r)' /\ Left(r)' \in 0..2
      BY <1>1, <1>4 DEF Left, Limit, ToDo, Call, TypeOK
    <3>4. modal' = r => Unapproved(r)' /\ r \notin Trusted
      BY <1>1, <1>4 DEF Fresh, Unapproved
    <3>5. Approved(r)' => keys' = owner'[r] \/ r \in overtaken'
      BY <1>1, <1>2, <1>4 DEF Approved, Fresh, Unapproved, TypeOK, walletVars
    <3>6. QED BY <1>1, <1>2, <3>1, <3>2, <3>3, <3>4, <3>5 DEF Sound
  <2>4. QED BY <2>1, <2>2, <2>3
<1>5. QED
  <2>1. "ok" \in Word /\ <<r, "ok">> \notin replies
    BY <1>1 DEF Fresh, Word
  <2>2. ASSUME BeginCalls(r, Call)
        PROVE  /\ approval' = [approval EXCEPT ![r] = [i \in Call |-> "recording"]]
               /\ overtaken' = IF keys = wallet THEN overtaken ELSE overtaken \cup {r}
    BY <2>2 DEF BeginCalls
  <2>3. QED BY <1>3, <1>4, <2>1, <2>2 DEF Listen, Reply, manageVars, workVars

\* A change of the wallet disturbs no request.
LEMMA WalletKeeps ==
    ASSUME RequestInv, \/ UNCHANGED vars
                       \/ \E w \in Account \cup {NoWallet} : ChangeWallet(w) \/ ChangeKeys(w)
    PROVE  RequestInv'
<1> USE DEF RequestInv, vars, bridgeVars, manageVars, workVars, walletVars
<1>1. TypeOK'
  BY BoundAssumption DEF ChangeWallet, ChangeKeys, TypeOK
<1>2. ASSUME NEW q \in Request PROVE Sound(q)'
  <2>1. CASE \E w \in Account \cup {NoWallet} : ChangeKeys(w) /\ Approved(q)
    BY <2>1, AsideSound DEF ChangeKeys
  <2>2. CASE \E w \in Account \cup {NoWallet} : ChangeKeys(w) /\ ~Approved(q)
    BY <2>2 DEF ChangeKeys, Sound, Fresh, Unapproved, Left, Limit, Approved
  <2>3. CASE UNCHANGED vars \/ \E w \in Account \cup {NoWallet} : ChangeWallet(w)
    BY <2>3, AsideSound DEF ChangeWallet
  <2>4. QED BY <2>1, <2>2, <2>3
<1>3. QED BY <1>1, <1>2

-----------------------------------------------------------------------------
LEMMA NextKeeps == RequestInv /\ [Next]_vars => RequestInv'
<1> SUFFICES ASSUME RequestInv, [Next]_vars PROVE RequestInv'
  OBVIOUS
<1>1. ASSUME NEW r \in Request,
             \/ Forward(r) \/ EmitFails(r) \/ BridgeTimeout(r) \/ Listen(r) \/ Respond(r)
             \/ Approve(r) \/ Reject(r) \/ Work(r) \/ Expire(r)
      PROVE  RequestInv'
  <2>1. CASE Forward(r) \/ EmitFails(r) \/ BridgeTimeout(r) \/ Respond(r)
    BY <2>1, ForwardKeeps, EmitFailsKeeps, BridgeTimeoutKeeps, DeliverKeeps DEF Respond
  <2>2. CASE Listen(r) \/ Approve(r) \/ Reject(r) \/ Expire(r)
    BY <2>2, ListenKeeps, ApproveKeeps, RejectKeeps, ExpireKeeps
  <2>3. CASE Work(r)
    BY <2>3, RejectRecordedKeeps, ApprovalRecordedKeeps, ExecuteKeeps, SettleKeeps DEF Work
  <2>4. QED BY <1>1, <2>1, <2>2, <2>3
<1>2. CASE \E w \in Account \cup {NoWallet} : ChangeWallet(w) \/ ChangeKeys(w)
  BY <1>2, WalletKeeps
<1>3. CASE UNCHANGED vars
  BY <1>3, WalletKeeps
<1>4. QED BY <1>1, <1>2, <1>3 DEF Next

LEMMA RequestInvariant == Spec => []RequestInv
<1>1. QED BY InitRequests, NextKeeps, PTL DEF Spec

\* The variables of a request keep their types in every execution; for runs that
\* says that no request is executed a third time (executeApprovedRequest).
THEOREM RequestTypeOK == Spec => []TypeOK
<1>1. RequestInv => TypeOK
  BY DEF RequestInv
<1>2. QED BY <1>1, RequestInvariant, PTL

\* What the user refused is not executed, what the user was asked about is executed
\* once at most, and a success that an application is told of was executed
\* (approveRequest, rejectRequest).
THEOREM UserDecidesAlways == Spec => []UserDecides
<1>1. RequestInv => UserDecides
  <2> SUFFICES ASSUME RequestInv PROVE UserDecides
    OBVIOUS
  <2>1. ASSUME NEW r \in Request
        PROVE  /\ told[r] = "refused" \/ refusal[r] = "done" => runs[r] = 0
               /\ r \notin Trusted => runs[r] <= 1
               /\ told[r] = "ok" => runs[r] > 0
    <3>1. Sound(r) /\ runs[r] \in 0..2
      BY DEF RequestInv, TypeOK
    <3>2. r \notin Trusted => runs[r] <= 1
      <4>1. runs[r] + Left(r) <= Limit(r)
        BY <3>1 DEF Sound
      <4>2. QED BY <3>1, <4>1, LeftIsNat DEF Limit
    <3>3. told[r] = "refused" \/ refusal[r] = "done" => runs[r] = 0
      BY <3>1 DEF Sound
    <3>4. QED BY <3>1, <3>2, <3>3 DEF Sound
  <2>2. QED BY <2>1 DEF UserDecides
<1>2. QED BY <1>1, RequestInvariant, PTL

\* Whenever an approved request is executed, the native store holds the keys of the
\* account it was queued for, or they changed, or were not those of the wallet shown,
\* since it was approved (approveRequest, executeApprovedRequest).
THEOREM OwnersKeys == Spec => RunsForItsOwner
<1>1. RequestInv /\ [Next]_vars
        => [\A r \in Request : Runs(r) => keys = owner[r] \/ r \in overtaken]_vars
  <2> SUFFICES ASSUME RequestInv, NEW r \in Request, Runs(r)
               PROVE  keys = owner[r] \/ r \in overtaken
    OBVIOUS
  <2>1. Approved(r)
    BY DEF Runs, Approved
  <2>2. QED BY <2>1 DEF RequestInv, Sound
<1>2. QED BY <1>1, RequestInvariant, PTL DEF Spec, RunsForItsOwner

\* An application gets one answer: no reply can change what it was told
\* (respond_to_brc100, the timeout of forward_to_frontend).
THEOREM OneAnswer == Spec => AnsweredOnce
<1>1. RequestInv /\ [Next]_vars
        => [\A r \in Request : told[r] \notin {"none", "waiting"} => told'[r] = told[r]]_vars
  <2> SUFFICES ASSUME RequestInv, Next, NEW q \in Request, told[q] \notin {"none", "waiting"}
               PROVE  told'[q] = told[q]
    BY DEF vars, bridgeVars
  <2>1. ASSUME NEW r \in Request, Forward(r) \/ EmitFails(r) \/ BridgeTimeout(r)
        PROVE  told'[q] = told[q]
    BY <2>1 DEF Forward, EmitFails, BridgeTimeout, RequestInv, TypeOK
  <2>2. ASSUME NEW r \in Request, NEW w \in Word, Deliver(r, w)
        PROVE  told'[q] = told[q]
    <3>1. r \in channel => told[r] = "waiting"
      BY <2>2 DEF Deliver, RequestInv, Sound, Fresh
    <3>2. QED BY <2>2, <3>1 DEF Deliver, RequestInv, TypeOK
  <2>3. ASSUME NEW r \in Request, Listen(r) \/ Approve(r) \/ Reject(r) \/ Work(r) \/ Expire(r)
        PROVE  told'[q] = told[q]
    BY <2>3 DEF Listen, Approve, Reject, Work, RejectRecorded, ApprovalRecorded, Execute,
                Settle, Expire, bridgeVars
  <2>4. ASSUME NEW w \in Account \cup {NoWallet}, ChangeWallet(w) \/ ChangeKeys(w)
        PROVE  told'[q] = told[q]
    BY <2>4 DEF ChangeWallet, ChangeKeys, bridgeVars
  <2>5. QED BY <2>1, <2>2, <2>3, <2>4 DEF Next, Respond
<1>2. QED BY <1>1, RequestInvariant, PTL DEF Spec, AnsweredOnce

-----------------------------------------------------------------------------
(* Plans.  RowsAreOwned rests on this: what is recorded of a transaction    *)
(* that was sent must be what it made (RecordMatches), which for a          *)
(* consolidation rests on the builder, which answers no empty output        *)
(* (OutputNotEmpty).                                                        *)

InStep == phase # "sent" => Tracked(rows) = Tracked(owned)
RecordMatches ==
    phase = "sent" => Tracked((rows \ taken) \cup Recorded) = Tracked(owned)
OutputNotEmpty ==
    phase \in {"built", "sent"} /\ plan.kind = "consolidate" => change > 0

PlansInv == PlanTypeOK /\ InStep /\ RecordMatches /\ OutputNotEmpty

FiniteCoins(S) == IsFiniteSet(S) /\ S \subseteq Coin

-----------------------------------------------------------------------------
(* Arithmetic.                                                              *)

\* Quotients rounded down keep the order.
LEMMA DivisionMonotone ==
    ASSUME NEW a \in Int, NEW b \in Int, NEW d \in Nat \ {0}, a <= b
    PROVE  a \div d \in Int /\ a \div d <= b \div d
  OBVIOUS

LEMMA ProductMonotone ==
    ASSUME NEW a \in Nat, NEW b \in Nat, NEW k \in Nat, a <= b
    PROVE  a * k \in Nat /\ b * k \in Nat /\ a * k <= b * k
<1>1. \A x, y \in Nat : x * y \in Nat
  OBVIOUS
<1> DEFINE d == b - a
<1>2. d \in Nat /\ b = a + d
  OBVIOUS
<1>3. d * k \in Nat
  BY <1>1, <1>2
<1>4. b * k = a * k + d * k
  BY <1>2
<1>5. QED BY <1>1, <1>3, <1>4

\* A fee is at least a satoshi, and more bytes never cost less.
LEMMA FeeMonotone ==
    ASSUME NEW m \in Nat, NEW n \in Nat, m <= n,
           NEW r \in (Nat \ {0}) \X (Nat \ {0})
    PROVE  /\ feeFromBytes(m, r) \in Nat
           /\ feeFromBytes(m, r) <= feeFromBytes(n, r)
<1>1. PICK p \in Nat \ {0}, q \in Nat \ {0} : r[1] = p /\ r[2] = q
  OBVIOUS
<1>2. m * p \in Nat /\ n * p \in Nat /\ m * p <= n * p
  BY ProductMonotone
<1> DEFINE up(k) == (k * p + q - 1) \div q
<1>3. up(m) \in Int /\ up(n) \in Int /\ up(m) <= up(n)
  <2>1. m * p + q - 1 \in Int /\ n * p + q - 1 \in Int /\ m * p + q - 1 <= n * p + q - 1
    BY <1>2
  <2>2. QED BY <2>1, DivisionMonotone
<1>4. feeFromBytes(m, r) = IF up(m) < 1 THEN 1 ELSE up(m)
  BY <1>1, Zenon DEF feeFromBytes
<1>5. feeFromBytes(n, r) = IF up(n) < 1 THEN 1 ELSE up(n)
  BY <1>1, Zenon DEF feeFromBytes
<1>6. QED BY <1>3, <1>4, <1>5

\* The size of a transaction is a number that grows with what is in it.
LEMMA SizeTyped ==
    ASSUME NEW i \in Nat, NEW b \in Nat
    PROVE  TxSize(i, b) \in Nat
BY DEF TxSize, TxOverhead, InputSize

LEMMA PlanTyped ==
    ASSUME PlanTypeOK
    PROVE  /\ plan.kind \in Kinds /\ plan.n \in Nat /\ plan.amount \in Nat
           /\ plan.bytes \in Nat /\ plan.own \in Nat /\ plan.outs \in Nat
           /\ plan.rate \in (Nat \ {0}) \X (Nat \ {0})
           /\ plan.kind = "consolidate" => plan.n = 0
BY PlanAssumption DEF PlanTypeOK

LEMMA RestTyped ==
    ASSUME PlanTypeOK
    PROVE  Rest \in Int /\ Taken \in Nat /\ Rate \in (Nat \ {0}) \X (Nat \ {0})
<1>1. IsFiniteSet(taken)
  BY DEF PlanTypeOK
<1>2. Taken \in Nat
  BY <1>1, FS_CardinalityType DEF Taken
<1>3. Rest \in Int
  BY PlanTyped DEF Rest, PlanTypeOK
<1>4. Rate \in (Nat \ {0}) \X (Nat \ {0})
  BY PlanTyped DEF Rate
<1>5. QED BY <1>2, <1>3, <1>4

LEMMA CalculateTyped ==
    ASSUME NEW i \in Nat, NEW o \in Nat, NEW r \in (Nat \ {0}) \X (Nat \ {0})
    PROVE  calculateTxFee(i, o, r) \in Nat
<1>1. o * OutputSize \in Nat
  BY DEF OutputSize
<1>2. TxSize(i, o * OutputSize) \in Nat
  BY <1>1, SizeTyped
<1>3. QED BY <1>2, FeeMonotone DEF calculateTxFee

\* The fee of the builder, whatever is asked of it.
LEMMA FeeTyped ==
    ASSUME PlanTypeOK
    PROVE  Fee \in Nat
<1>1. Taken \in Nat /\ plan.own + Taken \in Nat /\ Rate \in (Nat \ {0}) \X (Nat \ {0})
  BY RestTyped, PlanTyped
<1>2. CASE plan.kind = "send"
  <2>1. plan.n + (IF CountsChange THEN 1 ELSE 0) \in Nat
    BY PlanTyped
  <2>2. QED BY <1>1, <1>2, <2>1, CalculateTyped DEF Fee
<1>3. CASE plan.kind = "consolidate"
  BY <1>1, <1>3, CalculateTyped DEF Fee
<1>4. CASE plan.kind = "ordinal"
  BY <1>1, <1>4, CalculateTyped DEF Fee
<1>5. CASE plan.kind = "lock"
  <2>1. TxSize(Taken, plan.bytes + OutputSize) \in Nat
    <3>1. plan.bytes + OutputSize \in Nat
      BY PlanTyped DEF OutputSize
    <3>2. QED BY <1>1, <3>1, SizeTyped
  <2>2. QED BY <1>1, <1>5, <2>1, FeeMonotone DEF Fee
<1>6. CASE plan.kind \notin {"send", "consolidate", "ordinal", "lock"}
  <2>1. plan.bytes + ScriptedChange \in Nat
    BY PlanTyped DEF ScriptedChange, OutputSize
  <2>2. TxSize(plan.own + Taken, plan.bytes + ScriptedChange) \in Nat
    BY <1>1, <2>1, SizeTyped
  <2>3. QED BY <1>1, <1>6, <2>2, FeeMonotone DEF Fee
<1>7. QED BY <1>2, <1>3, <1>4, <1>5, <1>6

LEMMA EstimateTyped ==
    ASSUME PlanTypeOK
    PROVE  Estimate(Taken) \in Nat
<1>1. plan.own + Taken \in Nat
  BY RestTyped, PlanTyped
<1>2. QED BY <1>1, PlanTyped, CalculateTyped DEF Estimate

-----------------------------------------------------------------------------
(* Types.                                                                   *)

LEMMA OutputTyped ==
    ASSUME PlanTypeOK, NEW t \in Nat, NEW v \in Nat, NEW x \in Nat
    PROVE  FiniteCoins({Output(t, v, x)})
<1>1. plan.kind \in Kinds
  BY PlanTyped
<1>2. Output(t, v, x) \in Coin
  BY <1>1 DEF Output, Coin
<1>3. QED BY <1>2, FS_Singleton DEF FiniteCoins

LEMMA CoinsTyped ==
    ASSUME NEW S, FiniteCoins(S), NEW T, FiniteCoins(T), NEW U
    PROVE  FiniteCoins((S \ U) \cup T)
<1>1. IsFiniteSet(S \ U)
  BY FS_Difference DEF FiniteCoins
<1>2. IsFiniteSet((S \ U) \cup T)
  BY <1>1, FS_Union DEF FiniteCoins
<1>3. QED BY <1>2 DEF FiniteCoins

LEMMA RecordedTyped ==
    ASSUME PlanTypeOK
    PROVE  FiniteCoins(Recorded)
<1>1. FiniteCoins({})
  BY FS_EmptySet DEF FiniteCoins
<1>2. sent \in Nat /\ change \in Nat /\ plan.n \in Nat
  BY PlanTyped, PlanBounds DEF PlanTypeOK
<1>3. \A v \in {0, plan.n} : FiniteCoins({Output(sent, v, change)})
  BY <1>2, OutputTyped
<1>4. change > 0 => NumOutputs - 1 = plan.n
  BY <1>2 DEF NumOutputs
<1>5. ASSUME ActionChange > 0
      PROVE  FiniteCoins({Output(sent, plan.n, ActionChange)})
  <2>1. ActionChange \in Int
    BY PlanTyped, EstimateTyped DEF ActionChange, PlanTypeOK
  <2>2. ActionChange \in Nat
    BY <1>5, <2>1
  <2>3. QED BY <1>2, <2>2, OutputTyped
<1>6. QED BY <1>1, <1>3, <1>4, <1>5, Zenon DEF Recorded

LEMMA PlansInit == PlanInit => PlansInv
<1> SUFFICES ASSUME PlanInit PROVE PlansInv
  OBVIOUS
<1>1. plan \in Plan
  BY PlanAssumption DEF PlanInit
<1>2. FiniteCoins(Coins) /\ FiniteCoins({})
  BY CoinsAssumption, FS_EmptySet DEF FiniteCoins, Coin
<1>3. PlanTypeOK
  BY <1>1, <1>2, PlanBounds DEF PlanInit, PlanTypeOK, FiniteCoins
<1>4. InStep /\ RecordMatches /\ OutputNotEmpty
  BY DEF PlanInit, InStep, RecordMatches, OutputNotEmpty
<1>5. QED BY <1>3, <1>4 DEF PlansInv

LEMMA TypesKept == PlanTypeOK /\ [PlanNext]_planVars => PlanTypeOK'
<1> SUFFICES ASSUME PlanTypeOK, [PlanNext]_planVars PROVE PlanTypeOK'
  OBVIOUS
<1> USE DEF PlanTypeOK, FiniteCoins, offer, built
<1>1. ASSUME NEW p \in Plan, Ask(p) PROVE PlanTypeOK'
  <2>1. left' \subseteq rows \/ left' \subseteq owned
    BY <1>1 DEF Ask
  <2>2. FiniteCoins(left') /\ FiniteCoins(taken')
    BY <1>1, <2>1, FS_Subset, FS_EmptySet DEF Ask
  <2>3. QED BY <1>1, <2>2 DEF Ask
<1>2. ASSUME NEW c \in left, Take(c) PROVE PlanTypeOK'
  <2>1. FiniteCoins(left') /\ FiniteCoins(taken')
    BY <1>2, FS_RemoveElement, FS_AddElement DEF Take
  <2>2. c.sats \in Nat
    BY DEF Coin
  <2>3. QED BY <1>2, <2>1, <2>2 DEF Take
<1>3. ASSUME Refuse PROVE PlanTypeOK'
  BY <1>3 DEF Refuse
<1>4. ASSUME Build PROVE PlanTypeOK'
  <2>1. fee' \in Nat /\ fee' = Fee /\ change' = Rest - Fee
    BY <1>4, FeeTyped DEF Build, Change
  <2>2. Rest >= Fee
    BY <1>4, FeeTyped, RestTyped DEF Build, Pays
  <2>3. change' \in Nat
    BY <2>1, <2>2, FeeTyped, RestTyped
  <2>4. QED BY <1>4, <2>1, <2>3 DEF Build
<1>5. ASSUME Broadcast PROVE PlanTypeOK'
  <2>1. sent + 1 \in Nat
    BY PlanBounds
  <2>2. FiniteCoins(IF change > 0 THEN {Output(sent + 1, plan.n, change)} ELSE {})
    <3>1. plan.n \in Nat /\ change \in Nat
      BY PlanTyped
    <3>2. FiniteCoins({Output(sent + 1, plan.n, change)})
      BY <2>1, <3>1, OutputTyped
    <3>3. QED BY <3>2, FS_EmptySet
  <2>3. FiniteCoins(owned')
    BY <1>5, <2>2, CoinsTyped DEF Broadcast
  <2>4. QED BY <1>5, <2>3 DEF Broadcast
<1>6. ASSUME Rejected PROVE PlanTypeOK'
  BY <1>6 DEF Rejected
<1>7. ASSUME Record PROVE PlanTypeOK'
  <2>1. FiniteCoins(rows')
    BY <1>7, RecordedTyped, CoinsTyped DEF Record
  <2>2. QED BY <1>7, <2>1 DEF Record
<1>8. ASSUME Sync PROVE PlanTypeOK'
  BY <1>8 DEF Sync
<1>9. CASE UNCHANGED planVars
  BY <1>9 DEF planVars
<1>10. QED BY <1>1, <1>2, <1>3, <1>4, <1>5, <1>6, <1>7, <1>8, <1>9 DEF PlanNext

-----------------------------------------------------------------------------
(* What is tracked.                                                         *)

LEMMA TrackedUnion ==
    ASSUME NEW A, NEW B, NEW T
    PROVE  Tracked((A \ T) \cup B) = (Tracked(A) \ T) \cup Tracked(B)
BY DEF Tracked

\* The heart of it: what will be recorded of a transaction is what it makes, but for
\* operations whose change is not tracked.
LEMMA MadeIsRecorded ==
    ASSUME PlansInv, Broadcast
    PROVE  Tracked(Recorded') =
           Tracked(IF change > 0 THEN {Output(sent + 1, plan.n, change)} ELSE {})
<1> DEFINE made(v, x) == Output(sent + 1, v, x)
<1>1. /\ sent' = sent + 1 /\ change' = change /\ plan' = plan
      /\ taken' = taken /\ total' = total
  BY DEF Broadcast, offer, built
<1>2. \A v, x : made(v, x) = Output(sent, v, x)' /\ made(v, x).by = plan.kind
  BY <1>1 DEF Output
<1>3. PlanTypeOK /\ change \in Nat /\ plan.n \in Nat /\ plan.kind \in Kinds
  BY PlanTyped DEF PlansInv, PlanTypeOK
<1>4. CASE plan.kind \in {"token", "action"}
  <2>1. CASE plan.kind = "token"
    BY <1>1, <1>2, <2>1 DEF Recorded, Tracked
  <2>2. CASE plan.kind = "action"
    <3>1. Recorded' \subseteq {made(plan.n, ActionChange')}
      BY <1>1, <2>2 DEF Recorded, Output
    <3>2. QED BY <1>2, <2>2, <3>1 DEF Tracked
  <2>3. QED BY <1>4, <2>1, <2>2
<1>5. CASE plan.kind = "send"
  <2>1. change > 0 => NumOutputs' - 1 = plan.n
    BY <1>1, <1>3 DEF NumOutputs
  <2>2. Recorded' = IF change > 0 THEN {made(plan.n, change)} ELSE {}
    BY <1>1, <1>5, <2>1 DEF Recorded, Output
  <2>3. QED BY <2>2
<1>6. CASE plan.kind = "consolidate"
  <2>1. change > 0 /\ plan.n = 0
    BY <1>3, <1>6, PlanTyped DEF PlansInv, OutputNotEmpty, Broadcast
  <2>2. Recorded' = {made(0, change)}
    BY <1>1, <1>6 DEF Recorded, Output
  <2>3. QED BY <2>1, <2>2
<1>7. CASE plan.kind \in {"lock", "ordinal"}
  <2>1. Recorded' = IF change > 0 THEN {made(plan.n, change)} ELSE {}
    BY <1>1, <1>7 DEF Recorded, Output
  <2>2. QED BY <2>1
<1>8. QED BY <1>3, <1>4, <1>5, <1>6, <1>7 DEF Kinds

LEMMA PlansStep == PlansInv /\ [PlanNext]_planVars => PlansInv'
<1> SUFFICES ASSUME PlansInv, [PlanNext]_planVars PROVE PlansInv'
  OBVIOUS
<1> DEFINE OthersKept == InStep' /\ RecordMatches' /\ OutputNotEmpty'
<1>0. PlanTypeOK /\ PlanTypeOK'
  BY TypesKept DEF PlansInv
<1> USE DEF InStep, RecordMatches, OutputNotEmpty, offer, built
<1>1. ASSUME NEW p \in Plan, Ask(p) PROVE OthersKept
  BY <1>1 DEF Ask, PlansInv
<1>2. ASSUME NEW c \in left, Take(c) PROVE OthersKept
  BY <1>2 DEF Take, PlansInv
<1>3. ASSUME Refuse PROVE OthersKept
  BY <1>3 DEF Refuse, Selected, PlansInv
<1>4. ASSUME Build PROVE OthersKept
  <2>1. plan.kind = "consolidate" => Rest > Fee
    BY <1>4 DEF Build, Pays
  <2>2. Rest > Fee => Rest - Fee > 0
    BY <1>0, RestTyped, FeeTyped
  <2>3. OutputNotEmpty'
    BY <1>4, <2>1, <2>2 DEF Build, Change
  <2>4. InStep' /\ RecordMatches'
    BY <1>4 DEF Build, Selected, PlansInv
  <2>5. QED BY <2>3, <2>4
<1>5. ASSUME Broadcast PROVE OthersKept
  <2> DEFINE made == IF change > 0 THEN {Output(sent + 1, plan.n, change)} ELSE {}
  <2>1. Tracked(rows) = Tracked(owned)
    BY <1>5 DEF Broadcast, PlansInv
  <2>2. /\ Tracked(Recorded') = Tracked(made)
        /\ rows' = rows /\ taken' = taken
    BY <1>5, MadeIsRecorded DEF Broadcast
  <2>3. Tracked(owned') = (Tracked(owned) \ taken) \cup Tracked(made)
    BY <1>5, TrackedUnion DEF Broadcast
  <2>4. RecordMatches'
    <3>1. \A B : Tracked((rows \ taken) \cup B) = (Tracked(rows) \ taken) \cup Tracked(B)
      BY TrackedUnion
    <3>2. Tracked(((rows \ taken) \cup Recorded)') = Tracked(owned')
      BY <2>1, <2>2, <2>3, <3>1
    <3>3. QED BY <3>2
  <2>5. InStep' /\ OutputNotEmpty'
    BY <1>5 DEF Broadcast, PlansInv
  <2>6. QED BY <2>4, <2>5
<1>6. ASSUME Rejected PROVE OthersKept
  BY <1>6 DEF Rejected, PlansInv
<1>7. ASSUME Record PROVE OthersKept
  BY <1>7 DEF Record, PlansInv
<1>8. ASSUME Sync PROVE OthersKept
  BY <1>8 DEF Sync, PlansInv
<1>9. ASSUME UNCHANGED planVars PROVE OthersKept
  <2>1. Recorded' = Recorded
    BY <1>9 DEF planVars, Recorded, Output, NumOutputs, ActionChange, Estimate, Taken
  <2>2. QED BY <1>9, <2>1 DEF planVars, PlansInv
<1>10. OthersKept
  BY <1>1, <1>2, <1>3, <1>4, <1>5, <1>6, <1>7, <1>8, <1>9 DEF PlanNext
<1>11. QED BY <1>0, <1>10 DEF PlansInv

(* Whatever is asked and whatever coins the wallet has, without a sync the  *)
(* table holds the outputs the wallet owns, with their places and amounts   *)
(* (recordTransactionResult): the change of tokens and of applications      *)
(* aside.                                                                   *)
THEOREM PlansRowsAreOwned == PlanSpec => []RowsAreOwned
<1>1. PlansInv => RowsAreOwned
  BY DEF PlansInv, InStep, RowsAreOwned
<1>2. QED BY PlansInit, PlansStep, <1>1, PTL DEF PlanSpec

-----------------------------------------------------------------------------
(* The fee.                                                                 *)

\* The size of the transaction without its change.
SizeLess == TxSize(plan.own + Taken, plan.bytes)

\* The size a builder asks a fee for is that of the transaction, and that of the change
\* with it when more than 100 is left.
LEMMA FeeCoversSize ==
    ASSUME PlanTypeOK
    PROVE  \E n \in Nat : /\ Fee = feeFromBytes(n, Rate)
                          /\ n >= SizeLess
                          /\ Rest > 100 => n >= SizeLess + OutputSize
<1>1. /\ Taken \in Nat /\ plan.own \in Nat /\ plan.bytes \in Nat /\ plan.n \in Nat
      /\ Rest \in Int
  BY RestTyped, PlanTyped
<1>2. /\ plan.kind = "send" => plan.bytes = plan.n * 34
      /\ plan.kind = "consolidate" => plan.bytes = 0
      /\ plan.kind = "ordinal" => plan.bytes = 34
      /\ plan.kind \in {"send", "consolidate", "lock"} => plan.own = 0
  BY PlanAssumption DEF PlanTypeOK
<1> DEFINE size(o) == TxSize(plan.own + Taken, o)
<1>3. \A x, y \in Nat : size(x) \in Nat /\ (size(x) <= size(y) <=> x <= y)
                       /\ size(x + 34) = size(x) + 34
  BY <1>1 DEF TxSize, TxOverhead, InputSize
<1>4. \E o \in Nat : /\ Fee = feeFromBytes(size(o), Rate)
                     /\ o >= plan.bytes /\ (Rest > 100 => o >= plan.bytes + 34)
  <2>1. CASE plan.kind = "send"
    <3>1. CASE CountsChange
      <4>1. (plan.n + 1) * 34 = plan.bytes + 34
        BY <1>1, <1>2, <2>1
      <4>2. Fee = feeFromBytes(size(plan.bytes + 34), Rate)
        BY <1>1, <1>2, <2>1, <3>1, <4>1 DEF Fee, calculateTxFee, OutputSize
      <4>3. QED BY <1>1, <4>2
    <3>2. CASE ~CountsChange
      <4>1. Fee = feeFromBytes(size(plan.bytes), Rate)
        BY <1>1, <1>2, <2>1, <3>2 DEF Fee, calculateTxFee, OutputSize
      <4>2. QED BY <1>1, <3>2, <4>1 DEF CountsChange
    <3>3. QED BY <3>1, <3>2
  <2>2. CASE plan.kind \in {"consolidate", "ordinal", "lock"}
    <3>1. Fee = feeFromBytes(size(plan.bytes + 34), Rate)
      BY <1>1, <1>2, <2>2 DEF Fee, calculateTxFee, OutputSize
    <3>2. QED BY <1>1, <3>1
  <2>3. CASE plan.kind \notin {"send", "consolidate", "ordinal", "lock"}
    <3>1. Fee = feeFromBytes(size(plan.bytes + ScriptedChange), Rate)
      BY <2>3 DEF Fee
    <3>2. ScriptedChange \in Nat /\ (Rest > 100 => ScriptedChange >= 34)
      BY DEF ScriptedChange, CountsChange, OutputSize
    <3>3. QED BY <1>1, <3>1, <3>2
  <2>4. QED BY <2>1, <2>2, <2>3
<1>5. PICK o \in Nat : /\ Fee = feeFromBytes(size(o), Rate)
                       /\ o >= plan.bytes /\ (Rest > 100 => o >= plan.bytes + 34)
  BY <1>4
<1>6. size(o) \in Nat /\ size(o) >= SizeLess /\ (Rest > 100 => size(o) >= SizeLess + 34)
  BY <1>1, <1>3, <1>5 DEF SizeLess
<1>7. QED BY <1>5, <1>6 DEF OutputSize

LEMMA BuildPaysForSize == PlansInv /\ Build => FeePaysForSize'
<1> SUFFICES ASSUME PlansInv, Build PROVE FeePaysForSize'
  OBVIOUS
<1>1. PlanTypeOK
  BY DEF PlansInv
<1>2. /\ fee' = Fee /\ change' = Rest - Fee
      /\ Rest' = Rest /\ Taken' = Taken /\ Rate' = Rate /\ plan' = plan
  BY DEF Build, Change, Rest, Taken, Rate, offer
<1>3. PICK n \in Nat : /\ Fee = feeFromBytes(n, Rate) /\ n >= SizeLess
                       /\ Rest > 100 => n >= SizeLess + OutputSize
  BY <1>1, FeeCoversSize
<1>4. /\ Taken \in Nat /\ plan.own \in Nat /\ plan.bytes \in Nat
      /\ Rest \in Int /\ Fee \in Nat
  BY <1>1, RestTyped, PlanTyped, FeeTyped
<1>5. /\ SizeLess \in Nat /\ SizeLess + OutputSize \in Nat
      /\ BuiltSize' = SizeLess + (IF change' > 0 THEN OutputSize ELSE 0)
  BY <1>2, <1>4 DEF BuiltSize, SizeLess, TxSize, TxOverhead, InputSize, OutputSize
<1>6. \A m \in Nat : m <= n => Fee >= feeFromBytes(m, Rate)
  <2>1. TAKE m \in Nat
  <2>2. HAVE m <= n
  <2>3. Rate \in (Nat \ {0}) \X (Nat \ {0})
    BY <1>1, RestTyped
  <2>4. feeFromBytes(m, Rate) \in Nat /\ feeFromBytes(m, Rate) <= Fee
    BY <1>3, <2>2, <2>3, FeeMonotone
  <2>5. QED BY <1>4, <2>4
<1>7. /\ FeeFor(BuiltSize)' = feeFromBytes(BuiltSize', Rate)
      /\ FeeFor(BuiltSize - OutputSize)' = feeFromBytes(BuiltSize' - OutputSize, Rate)
  BY <1>2 DEF FeeFor
<1>8. CASE change' > 0 /\ Rest <= 100
  <2>1. BuiltSize' - OutputSize = SizeLess
    BY <1>5, <1>8 DEF OutputSize
  <2>2. fee' >= FeeFor(BuiltSize - OutputSize)'
    BY <1>2, <1>3, <1>5, <1>6, <1>7, <2>1
  <2>3. QED BY <1>2, <1>8, <2>2 DEF FeePaysForSize
<1>9. CASE ~(change' > 0) \/ Rest > 100
  <2>1. BuiltSize' \in Nat /\ BuiltSize' <= n
    <3>1. CASE ~(change' > 0)
      BY <1>3, <1>5, <3>1
    <3>2. CASE change' > 0 /\ Rest > 100
      BY <1>3, <1>5, <3>2
    <3>3. QED BY <1>9, <3>1, <3>2
  <2>2. fee' >= FeeFor(BuiltSize)'
    BY <1>2, <1>6, <1>7, <2>1
  <2>3. QED BY <2>2 DEF FeePaysForSize
<1>10. QED BY <1>4, <1>8, <1>9

(* Whatever is asked, no transaction that is broadcast pays less than the   *)
(* rate for its size, the uncounted change of a rest of 100 or less aside   *)
(* (calculate_change_and_fee and the builders).                             *)
THEOREM PlansFeePays == PlanSpec => []FeePaysForSize
<1> DEFINE Inv == PlansInv /\ FeePaysForSize
<1>1. PlanInit => Inv
  BY PlansInit DEF PlanInit, FeePaysForSize
<1>2. Inv /\ [PlanNext]_planVars => Inv'
  <2> SUFFICES ASSUME Inv, [PlanNext]_planVars PROVE FeePaysForSize'
    BY PlansStep
  <2> USE DEF offer, built
  <2>1. CASE UNCHANGED <<plan, taken, total, fee, change>> /\ phase \in {"built", "sent"}
    BY <2>1 DEF FeePaysForSize, FeeFor, BuiltSize, Rest, Taken, Rate
  <2>2. CASE phase' \notin {"built", "sent"}
    BY <2>2 DEF FeePaysForSize
  <2>3. CASE Build
    BY <2>3, BuildPaysForSize
  <2>4. QED
    BY <2>1, <2>2, <2>3
       DEF PlanNext, planVars, Ask, Take, Refuse, Broadcast, Rejected, Record, Sync, Selected
<1>3. QED BY <1>1, <1>2, PTL DEF PlanSpec

-----------------------------------------------------------------------------
(* The activity.  What a set of coins is worth is the number of their       *)
(* satoshis, so that disjoint sets add up.  The invariant (TotalCounts)     *)
(* says that the total is what the taken coins are worth, that what is      *)
(* built leaves no satoshi over, and that the output that is recorded is    *)
(* none of the rows: it is of a transaction that was not sent before.       *)

TotalCounts == total = Balance(taken) /\ left \cap taken = {}
NothingOver == phase \in {"built", "sent"} => change = Rest - fee
SentBefore ==
    /\ phase \in {"taking", "built"} => sent < MaxTx
    /\ phase = "sent" => sent \in 1..MaxTx
    /\ \A c \in rows \cup owned : c.tx \in 1..MaxTx => c.tx <= sent
    /\ phase = "sent" => \A c \in rows : c.tx # sent

WorthInv == TotalCounts /\ NothingOver /\ SentBefore

LEMMA CoinWorth ==
    ASSUME NEW c \in Coin
    PROVE  IsFiniteSet({c} \X (1..c.sats)) /\ Balance({c}) = c.sats
<1>1. c.sats \in Nat
  BY DEF Coin
<1>2. IsFiniteSet({c}) /\ Cardinality({c}) = 1
  BY FS_Singleton
<1>3. IsFiniteSet(1..c.sats) /\ Cardinality(1..c.sats) = c.sats
  <2>1. PICK n \in Nat : n = c.sats
    BY <1>1
  <2>2. IsFiniteSet(1..n) /\ Cardinality(1..n) = IF 1 > n THEN 0 ELSE n - 1 + 1
    BY FS_Interval
  <2>3. Cardinality(1..n) = n
    BY <2>2
  <2>4. QED BY <2>1, <2>2, <2>3
<1>4. /\ IsFiniteSet({c} \X (1..c.sats))
      /\ Cardinality({c} \X (1..c.sats)) = Cardinality({c}) * Cardinality(1..c.sats)
  BY <1>2, <1>3, FS_Product
<1>5. Satoshis({c}) = {c} \X (1..c.sats)
  BY DEF Satoshis
<1>6. 1 * c.sats = c.sats
  BY <1>1
<1>7. QED BY <1>2, <1>3, <1>4, <1>5, <1>6 DEF Balance

LEMMA SatoshisFinite ==
    ASSUME NEW S, FiniteCoins(S)
    PROVE  IsFiniteSet(Satoshis(S)) /\ Balance(S) \in Nat
<1> DEFINE f == [c \in S |-> {c} \X (1..c.sats)]
           T == {{c} \X (1..c.sats) : c \in S}
<1>1. f \in Surjection(S, T)
  BY DEF Surjection
<1>2. IsFiniteSet(T)
  <2> HIDE DEF f, T
  <2>1. QED BY <1>1, FS_Surjection DEF FiniteCoins
<1>3. \A X \in T : IsFiniteSet(X)
  BY CoinWorth DEF FiniteCoins
<1>4. IsFiniteSet(UNION T)
  <2> HIDE DEF T
  <2>1. QED BY <1>2, <1>3, FS_UNION
<1>5. IsFiniteSet(Satoshis(S))
  BY <1>4 DEF Satoshis
<1>6. QED BY <1>5, FS_CardinalityType DEF Balance

(* Disjoint sets of coins add up. *)
LEMMA WorthAdds ==
    ASSUME NEW S, NEW T, FiniteCoins(S), FiniteCoins(T), S \cap T = {}
    PROVE  Balance(S \cup T) = Balance(S) + Balance(T)
<1>1. Satoshis(S \cup T) = Satoshis(S) \cup Satoshis(T)
  BY DEF Satoshis
<1>2. Satoshis(S) \cap Satoshis(T) = {}
  BY DEF Satoshis
<1>3. IsFiniteSet(Satoshis(S)) /\ IsFiniteSet(Satoshis(T))
  BY SatoshisFinite
<1>4. Cardinality(Satoshis(S) \cup Satoshis(T)) =
         Cardinality(Satoshis(S)) + Cardinality(Satoshis(T)) - Cardinality(Satoshis(S) \cap Satoshis(T))
  BY <1>3, FS_Union
<1>5. Cardinality({}) = 0
  BY FS_EmptySet
<1>6. Cardinality(Satoshis(S)) \in Nat /\ Cardinality(Satoshis(T)) \in Nat
  BY <1>3, FS_CardinalityType
<1>7. Cardinality(Satoshis(S) \cup Satoshis(T)) =
         Cardinality(Satoshis(S)) + Cardinality(Satoshis(T)) - 0
  BY <1>2, <1>4, <1>5
<1>8. Cardinality(Satoshis(S) \cup Satoshis(T)) =
         Cardinality(Satoshis(S)) + Cardinality(Satoshis(T))
  BY <1>6, <1>7
<1>9. QED BY <1>1, <1>8 DEF Balance

LEMMA NothingWorth == FiniteCoins({}) /\ Balance({}) = 0
<1>1. Satoshis({}) = {}
  BY DEF Satoshis
<1>2. QED BY <1>1, FS_EmptySet DEF Balance, FiniteCoins

LEMMA WorthInit == PlanInit => WorthInv
<1> SUFFICES ASSUME PlanInit PROVE WorthInv
  OBVIOUS
<1>1. TotalCounts /\ NothingOver
  BY NothingWorth DEF PlanInit, TotalCounts, NothingOver
<1>2. SentBefore
  BY CoinsAssumption DEF PlanInit, SentBefore
<1>3. QED BY <1>1, <1>2 DEF WorthInv

LEMMA WorthStep == PlanTypeOK /\ WorthInv /\ [PlanNext]_planVars => WorthInv'
<1> SUFFICES ASSUME PlanTypeOK, WorthInv, [PlanNext]_planVars PROVE WorthInv'
  OBVIOUS
<1> USE DEF WorthInv, offer, built
<1>0. sent \in Nat /\ MaxTx \in Nat
  BY PlanBounds DEF PlanTypeOK
<1>1. ASSUME NEW p \in Plan, Ask(p) PROVE WorthInv'
  <2>1. taken' = {} /\ total' = 0 /\ phase' = "taking" /\ sent < MaxTx /\ phase = "idle"
        /\ UNCHANGED <<rows, owned, sent>>
    BY <1>1 DEF Ask
  <2>2. TotalCounts'
    BY <2>1, NothingWorth DEF TotalCounts
  <2>3. NothingOver' /\ SentBefore'
    BY <2>1 DEF NothingOver, SentBefore
  <2>4. QED BY <2>2, <2>3
<1>2. ASSUME NEW c \in left, Take(c) PROVE WorthInv'
  <2>1. taken' = taken \cup {c} /\ left' = left \ {c} /\ total' = total + c.sats /\ phase = "taking"
        /\ UNCHANGED <<rows, owned, phase, sent>>
    BY <1>2 DEF Take
  <2>2. FiniteCoins(taken) /\ c \in Coin /\ FiniteCoins({c}) /\ taken \cap {c} = {}
    BY FS_Singleton DEF PlanTypeOK, FiniteCoins, TotalCounts
  <2>3. Balance(taken \cup {c}) = Balance(taken) + c.sats
    BY <2>2, WorthAdds, CoinWorth
  <2>4. TotalCounts'
    BY <2>1, <2>3 DEF TotalCounts
  <2>5. NothingOver' /\ SentBefore'
    BY <2>1 DEF NothingOver, SentBefore
  <2>6. QED BY <2>4, <2>5
<1>3. ASSUME Refuse \/ Rejected PROVE WorthInv'
  <2>1. phase' = "idle" /\ phase # "sent" /\ UNCHANGED <<rows, owned, plan, left, taken, total, sent>>
    BY <1>3 DEF Refuse, Rejected, Selected
  <2>2. QED BY <2>1 DEF TotalCounts, NothingOver, SentBefore
<1>4. ASSUME Build PROVE WorthInv'
  <2>1. /\ phase' = "built" /\ phase = "taking" /\ fee' = Fee /\ change' = Rest - Fee
        /\ UNCHANGED <<rows, owned, plan, left, taken, total, sent>>
    BY <1>4 DEF Build, Selected, Change
  <2>2. Rest' = Rest
    BY <2>1 DEF Rest
  <2>3. QED BY <2>1, <2>2 DEF TotalCounts, NothingOver, SentBefore
<1>5. ASSUME Broadcast PROVE WorthInv'
  <2>1. /\ phase = "built" /\ phase' = "sent" /\ sent' = sent + 1
        /\ UNCHANGED <<rows, plan, left, taken, total, fee, change>>
        /\ \A c \in owned' : c \in owned \/ c = Output(sent + 1, plan.n, change)
    BY <1>5 DEF Broadcast
  <2>2. TotalCounts' /\ NothingOver'
    BY <2>1 DEF TotalCounts, NothingOver, Rest
  <2>3. Output(sent + 1, plan.n, change).tx = sent + 1
    BY DEF Output
  <2>4. sent + 1 \in 1..MaxTx
    BY <1>0, <2>1 DEF SentBefore
  <2>5. \A c \in rows \cup owned : c.tx \in 1..MaxTx => c.tx <= sent + 1 /\ c.tx # sent + 1
    BY <1>0 DEF SentBefore
  <2>6. SentBefore'
    BY <2>1, <2>3, <2>4, <2>5 DEF SentBefore
  <2>7. QED BY <2>2, <2>6
<1>6. ASSUME Record PROVE WorthInv'
  <2>1. /\ phase = "sent" /\ phase' = "idle" /\ rows' = (rows \ taken) \cup Recorded
        /\ UNCHANGED <<owned, left, taken, total, sent>>
    BY <1>6 DEF Record
  <2>2. \A c \in Recorded : c.tx = sent
    BY DEF Recorded, Output
  <2>3. \A c \in rows' \cup owned : c.tx \in 1..MaxTx => c.tx <= sent
    BY <1>0, <2>1, <2>2 DEF SentBefore
  <2>4. QED BY <2>1, <2>3 DEF TotalCounts, NothingOver, SentBefore
<1>7. ASSUME Sync PROVE WorthInv'
  BY <1>7 DEF Sync, TotalCounts, NothingOver, SentBefore
<1>8. CASE UNCHANGED planVars
  BY <1>8 DEF planVars, TotalCounts, NothingOver, SentBefore, Rest
<1>9. QED BY <1>1, <1>2, <1>3, <1>4, <1>5, <1>6, <1>7, <1>8 DEF PlanNext

\* What the record of a transaction adds to the rows is worth its change.
LEMMA RecordedWorth ==
    ASSUME PlanTypeOK, plan.kind \in {"send", "lock", "ordinal"}
    PROVE  Balance(Recorded) = change
<1>1. change \in Nat /\ plan.n \in Nat /\ sent \in Nat /\ plan.kind \in Kinds
  BY PlanTyped DEF PlanTypeOK
<1>2. change > 0 => NumOutputs - 1 = plan.n
  BY <1>1 DEF NumOutputs
<1>3. Recorded = IF change > 0 THEN {Output(sent, plan.n, change)} ELSE {}
  BY <1>2 DEF Recorded
<1>4. Output(sent, plan.n, change) \in Coin /\ Output(sent, plan.n, change).sats = change
  BY <1>1 DEF Output, Coin
<1>5. CASE change > 0
  BY <1>3, <1>4, <1>5, CoinWorth
<1>6. CASE ~(change > 0)
  BY <1>1, <1>3, <1>6, NothingWorth
<1>7. QED BY <1>5, <1>6

LEMMA RecordTellsBalance ==
    ASSUME PlanTypeOK, WorthInv, Record, taken \subseteq rows,
           plan.kind \in {"send", "lock", "ordinal"}
    PROVE  amount' = Balance(rows') - Balance(rows)
<1>1. /\ total \in Nat /\ fee \in Nat /\ change \in Nat /\ plan.amount \in Nat /\ plan.own \in Nat
      /\ FiniteCoins(rows) /\ FiniteCoins(taken) /\ FiniteCoins(Recorded)
  BY PlanTyped, RecordedTyped DEF PlanTypeOK, FiniteCoins
<1>2. phase = "sent" /\ rows' = (rows \ taken) \cup Recorded /\ amount' = AmountRecorded
  BY DEF Record
<1>3. FiniteCoins(rows \ taken)
  BY <1>1, FS_Difference DEF FiniteCoins
<1>4. Balance(rows) = Balance(rows \ taken) + total
  <2>1. rows = (rows \ taken) \cup taken /\ (rows \ taken) \cap taken = {}
    OBVIOUS
  <2>2. Balance((rows \ taken) \cup taken) = Balance(rows \ taken) + Balance(taken)
    BY <1>1, <1>3, <2>1, WorthAdds
  <2>3. QED BY <2>1, <2>2 DEF WorthInv, TotalCounts
<1>5. Balance(rows') = Balance(rows \ taken) + change
  <2>1. \A c \in Recorded : c.tx = sent
    BY DEF Recorded, Output
  <2>2. (rows \ taken) \cap Recorded = {}
    BY <1>2, <2>1 DEF WorthInv, SentBefore
  <2>3. Balance((rows \ taken) \cup Recorded) = Balance(rows \ taken) + Balance(Recorded)
    BY <1>1, <1>3, <2>2, WorthAdds
  <2>4. QED BY <1>2, <2>3, RecordedWorth
<1>6. change = total + plan.own - plan.amount - fee
  <2>1. change = Rest - fee
    BY <1>2 DEF WorthInv, NothingOver
  <2>2. QED BY <1>1, <2>1 DEF Rest
<1>7. Balance(rows \ taken) \in Nat
  BY <1>3, SatoshisFinite
<1>8. amount' = change - total
  <2>1. /\ plan.kind = "ordinal" => plan.own = plan.amount
        /\ plan.kind \in {"send", "lock"} => plan.own = 0
    BY PlanAssumption DEF PlanTypeOK
  <2>2. CASE plan.kind = "ordinal"
    <3>1. AmountRecorded = -fee
      BY <2>2 DEF AmountRecorded
    <3>2. QED BY <1>1, <1>2, <1>6, <2>1, <2>2, <3>1
  <2>3. CASE plan.kind \in {"send", "lock"}
    <3>1. AmountRecorded = -(plan.amount + fee)
      BY <2>3 DEF AmountRecorded
    <3>2. QED BY <1>1, <1>2, <1>6, <2>1, <2>3, <3>1
  <2>4. QED BY <2>2, <2>3
<1>9. QED BY <1>1, <1>4, <1>5, <1>7, <1>8

(* Whatever is asked and whatever coins the wallet has, the amount recorded *)
(* of a send, of a lock or of the transfer of an ordinal is by how much the *)
(* balance changes (recordSentTransaction).                                 *)
THEOREM PlansActivityTells == PlanSpec => ActivityTellsBalance
<1>1. PlanTypeOK /\ WorthInv /\ [PlanNext]_planVars =>
         [phase = "sent" /\ phase' = "idle" /\ taken \subseteq rows
             /\ plan.kind \notin {"token", "action", "consolidate"}
          => amount' = Balance(rows') - Balance(rows)]_planVars
  <2> SUFFICES ASSUME PlanTypeOK, WorthInv, PlanNext, phase = "sent", phase' = "idle",
                      taken \subseteq rows, plan.kind \notin {"token", "action", "consolidate"}
               PROVE  amount' = Balance(rows') - Balance(rows)
    OBVIOUS
  <2>1. plan.kind \in {"send", "lock", "ordinal"}
    BY PlanTyped DEF Kinds
  <2>2. Record
    BY DEF PlanNext, Ask, Take, Refuse, Selected, Build, Broadcast, Rejected, Sync
  <2>3. QED BY <2>1, <2>2, RecordTellsBalance
<1>2. PlanInit => PlanTypeOK /\ WorthInv
  BY PlansInit, WorthInit DEF PlansInv
<1>3. QED BY <1>1, <1>2, TypesKept, WorthStep, PTL DEF PlanSpec, ActivityTellsBalance
=============================================================================
