-------------------------- MODULE Brc100Requests ---------------------------
(***************************************************************************)
(* The life of a BRC-100 request: the HTTP bridge parks the call on a      *)
(* one-shot channel and emits an event; the listener in the web view       *)
(* answers or refuses it, or holds it for approval; the user, or the trust *)
(* given to its origin, approves it; the answer goes back by a command to  *)
(* the channel, which may have been given up by then.                      *)
(*                                                                         *)
(* Every request needs a wallet: the bridge forwards no other type.        *)
(***************************************************************************)
EXTENDS Naturals, FiniteSets

CONSTANTS
    Request,
    Trusted,       \* requests of origins the user trusts
    NoRequest,
    Account,
    NoWallet,      \* the wallet is locked
    MaxPending,    \* MAX_PENDING_REQUESTS
    MaxSwitches    \* bound on changes of the wallet

ASSUME RequestAssumption == NoRequest \notin Request /\ Trusted \subseteq Request
ASSUME AccountAssumption == NoWallet \notin Account
ASSUME BoundAssumption == MaxPending \in Nat /\ MaxSwitches \in Nat

VARIABLES
    told,       \* what the application was told
    channel,    \* pending_responses of the bridge
    events,     \* events emitted, not yet heard
    held,       \* RequestManager.pending
    owner,      \* expectedIdentityPubKey of each request
    modal,      \* the request the user is asked about
    approval,   \* the calls of approveRequest for each request
    refusal,    \* the calls of rejectRequest
    replies,    \* respond_to_brc100 commands on their way
    runs,       \* how often each request was executed
    wallet,     \* the wallet of the user interface
    keys,       \* the account whose keys the native store holds
    switches,   \* how often one of the two changed
    overtaken   \* history: requests whose approval the keys did not wait for

bridgeVars == <<told, channel, events>>
manageVars == <<held, owner, modal>>
workVars == <<approval, refusal, runs, overtaken>>
walletVars == <<wallet, keys, switches>>
vars == <<bridgeVars, manageVars, workVars, replies, walletVars>>

\* The handler of requests may be called twice for one request.
Call == 1..2
Step == {"none", "recording", "running", "succeeded", "errored", "done"}
Word == {"ok", "error", "refused", "expired"}

\* One invariant for the types of all variables.
TypeOK ==
    /\ told \in [Request -> {"none", "waiting", "failed", "timeout"} \cup Word]
    /\ channel \subseteq Request /\ events \subseteq Request /\ held \subseteq Request
    /\ owner \in [Request -> Account \cup {NoWallet}]
    /\ modal \in Request \cup {NoRequest}
    /\ approval \in [Request -> [Call -> Step]]
    /\ refusal \in [Request -> {"none", "recording", "done"}]
    /\ replies \subseteq Request \X Word
    /\ runs \in [Request -> 0..2]
    /\ wallet \in Account \cup {NoWallet} /\ keys \in Account \cup {NoWallet}
    /\ switches \in 0..MaxSwitches
    /\ overtaken \subseteq Request

Init ==
    /\ told = [r \in Request |-> "none"]
    /\ channel = {} /\ events = {} /\ held = {} /\ replies = {}
    /\ owner = [r \in Request |-> NoWallet]
    /\ modal = NoRequest
    /\ approval = [r \in Request |-> [i \in Call |-> "none"]]
    /\ refusal = [r \in Request |-> "none"]
    /\ runs = [r \in Request |-> 0]
    /\ wallet \in Account /\ keys = wallet
    /\ switches = 0
    /\ overtaken = {}

(***************************************************************************)
(* The bridge (http_server.rs).                                            *)
(***************************************************************************)
\* The channel is parked before the event is emitted.
Forward(r) ==
    /\ told[r] = "none"
    /\ told' = [told EXCEPT ![r] = "waiting"]
    /\ channel' = channel \cup {r}
    /\ events' = events \cup {r}
    /\ UNCHANGED <<manageVars, workVars, replies, walletVars>>

\* When the event cannot be emitted the channel stays in the map.
EmitFails(r) ==
    /\ told[r] = "none"
    /\ told' = [told EXCEPT ![r] = "failed"]
    /\ channel' = channel \cup {r}
    /\ UNCHANGED <<events, manageVars, workVars, replies, walletVars>>

\* MUTANT of BridgeTimeout: the channel of a call that was given up stays.
TimeoutKeepsChannel(r) ==
    /\ told[r] = "waiting"
    /\ told' = [told EXCEPT ![r] = "timeout"]
    /\ UNCHANGED <<channel, events, manageVars, workVars, replies, walletVars>>

\* Thirty seconds passed. The request stays with the wallet.
BridgeTimeout(r) ==
    /\ told[r] = "waiting"
    /\ told' = [told EXCEPT ![r] = "timeout"]
    /\ channel' = channel \ {r}
    /\ UNCHANGED <<events, manageVars, workVars, replies, walletVars>>

\* respond_to_brc100: an answer to a channel that is gone is dropped.
Deliver(r, w) ==
    /\ <<r, w>> \in replies
    /\ replies' = replies \ {<<r, w>>}
    /\ told' = IF r \in channel THEN [told EXCEPT ![r] = w] ELSE told
    /\ channel' = channel \ {r}
    /\ UNCHANGED <<events, manageVars, workVars, walletVars>>

(***************************************************************************)
(* Approval.                                                               *)
(***************************************************************************)
Reply(r, w) == replies' = replies \cup {<<r, w>>}

\* MUTANT of MayApprove: the identity the request was queued for is not compared.
MayApproveAny(r) == wallet # NoWallet

\* The wallet is there and is the one that was active when r was queued.
MayApprove(r) == wallet # NoWallet /\ (owner[r] = NoWallet \/ owner[r] = wallet)

\* The calls are at the await of recordActionRequest. A switch stores its keys before
\* it shows its wallet: an approval in between is overtaken already.
BeginCalls(r, calls) ==
    /\ approval' = [approval EXCEPT ![r] =
                      [i \in Call |-> IF i \in calls THEN "recording" ELSE @[i]]]
    /\ overtaken' = IF keys = wallet THEN overtaken ELSE overtaken \cup {r}

\* approveRequest up to its first await; the request stays held meanwhile.
StartApproval(r, calls) ==
    IF MayApprove(r)
      THEN BeginCalls(r, calls) /\ UNCHANGED <<held, replies>>
      ELSE /\ Reply(r, "error") /\ held' = held \ {r}
           /\ UNCHANGED <<approval, overtaken>>

Room == Cardinality(held) < MaxPending

\* The listener hears the event. It refuses, answers at once (keys, lists), or
\* holds the request. One that is held is announced twice, by
\* the manager and by the listener: a trusted one is approved twice, another
\* replaces whatever the user was asked about.
Listen(r) ==
    /\ r \in events
    /\ events' = events \ {r}
    /\ \/ /\ wallet = NoWallet /\ Reply(r, "error")
          /\ UNCHANGED <<manageVars, workVars>>
       \/ /\ wallet # NoWallet
          /\ \/ Reply(r, "ok") /\ runs' = [runs EXCEPT ![r] = 1]
             \/ Reply(r, "error") /\ UNCHANGED runs
          /\ UNCHANGED <<manageVars, approval, overtaken, refusal>>
       \/ /\ wallet # NoWallet /\ ~Room
          /\ Reply(r, "error")
          /\ UNCHANGED <<manageVars, workVars>>
       \/ /\ wallet # NoWallet /\ Room
          /\ held' = held \cup {r}
          /\ owner' = [owner EXCEPT ![r] = wallet]
          /\ IF r \in Trusted
               THEN BeginCalls(r, Call) /\ UNCHANGED modal
               ELSE modal' = r /\ UNCHANGED <<approval, overtaken>>
          /\ UNCHANGED <<refusal, runs, replies>>
    /\ UNCHANGED <<told, channel, walletVars>>

\* MUTANT of Approve: the question stays on the screen.
ApproveStaysAsked(r) ==
    /\ modal = r /\ UNCHANGED modal
    /\ IF r \in held THEN StartApproval(r, {IF approval[r][1] = "none" THEN 1 ELSE 2})
                     ELSE UNCHANGED <<held, replies, approval, overtaken>>
    /\ UNCHANGED <<bridgeVars, owner, refusal, runs, walletVars>>

\* handleApprove: a request that is not held any more is silently dropped.
Approve(r) ==
    /\ modal = r /\ modal' = NoRequest
    /\ IF r \in held THEN StartApproval(r, {1})
                     ELSE UNCHANGED <<held, replies, approval, overtaken>>
    /\ UNCHANGED <<bridgeVars, owner, refusal, runs, walletVars>>

\* handleReject, up to its first await.
Reject(r) ==
    /\ modal = r /\ modal' = NoRequest
    /\ refusal' = IF r \in held THEN [refusal EXCEPT ![r] = "recording"] ELSE refusal
    /\ UNCHANGED <<bridgeVars, held, owner, approval, overtaken, runs, replies, walletVars>>

RejectRecorded(r) ==
    /\ refusal[r] = "recording"
    /\ refusal' = [refusal EXCEPT ![r] = "done"]
    /\ Reply(r, "refused") /\ held' = held \ {r}
    /\ UNCHANGED <<bridgeVars, owner, modal, approval, overtaken, runs, walletVars>>

SetCall(r, i, s) == approval' = [approval EXCEPT ![r][i] = s]

\* recordActionRequest came back; its failure is ignored.
ApprovalRecorded(r, i) ==
    /\ approval[r][i] = "recording"
    /\ SetCall(r, i, "running")
    /\ UNCHANGED <<bridgeVars, manageVars, overtaken, refusal, runs, replies, walletVars>>

\* executeApprovedRequest: it does what was asked with the keys that the native store
\* holds by then, or ends in an error.
Execute(r, i) ==
    /\ approval[r][i] = "running"
    /\ \/ keys # NoWallet /\ runs' = [runs EXCEPT ![r] = @ + 1] /\ SetCall(r, i, "succeeded")
       \/ UNCHANGED runs /\ SetCall(r, i, "errored")
    /\ UNCHANGED <<bridgeVars, manageVars, overtaken, refusal, replies, walletVars>>

\* updateActionResult came back: answer, and only now let the request go.
Settle(r, i) ==
    /\ approval[r][i] \in {"succeeded", "errored"}
    /\ Reply(r, IF approval[r][i] = "succeeded" THEN "ok" ELSE "error")
    /\ SetCall(r, i, "done")
    /\ held' = held \ {r}
    /\ UNCHANGED <<bridgeVars, owner, modal, overtaken, refusal, runs, walletVars>>

\* The cleanup interval: after five minutes, when the bridge has long given up.
Expire(r) ==
    /\ r \in held /\ told[r] # "waiting"
    /\ Reply(r, "expired") /\ held' = held \ {r}
    /\ UNCHANGED <<bridgeVars, owner, modal, workVars, walletVars>>

\* The user locks the wallet, unlocks it, or switches to another account. A switch
\* stores the keys and then shows the wallet; a lock or an unlock has the other order.
ChangeWallet(w) ==
    /\ switches < MaxSwitches /\ w # wallet
    /\ wallet' = w /\ switches' = switches + 1
    /\ UNCHANGED <<bridgeVars, manageVars, workVars, replies, keys>>

\* Calls that are approved and not executed.
Approved(r) == \E i \in Call : approval[r][i] \in {"recording", "running"}

ChangeKeys(w) ==
    /\ switches < MaxSwitches /\ w # keys
    /\ keys' = w /\ switches' = switches + 1
    /\ overtaken' = overtaken \cup {r \in Request : Approved(r)}
    /\ UNCHANGED <<bridgeVars, manageVars, approval, refusal, runs, replies, wallet>>

Respond(r) == \E w \in Word : Deliver(r, w)
Work(r) == RejectRecorded(r) \/ \E i \in Call : ApprovalRecorded(r, i) \/ Execute(r, i) \/ Settle(r, i)

Next ==
    \/ \E r \in Request :
         \/ Forward(r) \/ EmitFails(r) \/ BridgeTimeout(r) \/ Listen(r) \/ Respond(r)
         \/ Approve(r) \/ Reject(r) \/ Work(r) \/ Expire(r)
    \/ \E w \in Account \cup {NoWallet} : ChangeWallet(w) \/ ChangeKeys(w)

Spec == Init /\ [][Next]_vars

(***************************************************************************)
(* Properties.                                                             *)
(***************************************************************************)
\* What the user refused is never executed, and what the user was asked about is
\* executed once at most, though it stays held while it runs, may expire or time
\* out meanwhile, and other requests replace it. An application is told of a success
\* only when the operation was executed (approveRequest, rejectRequest).
UserDecides ==
    /\ \A r \in Request : told[r] = "refused" \/ refusal[r] = "done" => runs[r] = 0
    /\ \A r \in Request \ Trusted : runs[r] <= 1
    /\ \A r \in Request : told[r] = "ok" => runs[r] > 0

\* Calls of r are executed by the step.
Runs(r) == \E i \in Call : approval[r][i] = "running" /\ approval'[r][i] = "succeeded"

\* What was queued for one account is executed with the keys of that account, however
\* the wallet was locked, opened or switched before the approval. An approval that the
\* keys did not wait for is excused: they were changed, or about to be shown, between
\* the check of the identity and the execution (approveRequest, executeApprovedRequest).
RunsForItsOwner == [][\A r \in Request : Runs(r) => keys = owner[r] \/ r \in overtaken]_vars

\* A call gets one answer: whatever comes after a timeout or an answer is dropped.
AnsweredOnce ==
    [][\A r \in Request : told[r] \notin {"none", "waiting"} => told'[r] = told[r]]_vars

\* "Bind approval to the wallet identity that was active when the request was queued":
\* without the excuse, no request is executed with the keys of another account.
NeverForAnother == [][\A r \in Request : Runs(r) => keys = owner[r]]_vars

\* What is told of a request that was not asked for twice: it is executed once.
EachRunsOnce == \A r \in Request : runs[r] <= 1

\* An application that is told its request timed out can count on its not running.
TimedOutNeverRuns ==
    [][\A r \in Request : told[r] = "timeout" => runs'[r] = runs[r]]_vars
=============================================================================
