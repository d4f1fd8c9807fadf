---------------------------- MODULE PaymentInbox ----------------------------
(***************************************************************************)
(* Payments announced through the message box (services/messageBox.ts and  *)
(* hooks/usePaymentListener.ts).  A message holds what is needed to derive *)
(* the key of a payment.  A check lists the box of the active identity,    *)
(* remembers the payments that are new, acknowledges the messages, which   *)
(* deletes them from the server, and only then saves what it remembers.    *)
(*                                                                         *)
(* Checks overlap: the first one of a listener, its timer, the button of   *)
(* the settings, and those of a listener that was stopped, which go on.    *)
(* Memory and storage are one for all accounts.                            *)
(***************************************************************************)
EXTENDS Naturals, SequencesExt

CONSTANTS
    Account,
    NoAccount,
    Payment,
    NoPayment,      \* what a message that is not about a payment pays
    Message,
    To,             \* [Message -> Account]: whose box it is sent to
    Pays,           \* [Message -> Payment \cup {NoPayment}]: its txid and vout
    Check,          \* bound: checks under way
    NoCheck,
    MaxKept,        \* MAX_NOTIFICATIONS
    MaxFailures,    \* AUTH_FAILURE_MAX_SUPPRESS
    MaxChanges      \* bound: changes of the keys, and restarts

ASSUME NamesAssumption ==
    NoAccount \notin Account /\ NoPayment \notin Payment /\ NoCheck \notin Check
ASSUME MessageAssumption ==
    IsFiniteSet(Message) /\ To \in [Message -> Account] /\ Pays \in [Message -> Payment \cup {NoPayment}]
ASSUME BoundAssumption == MaxKept \in Nat \ {0} /\ MaxFailures \in Nat \ {0} /\ MaxChanges \in Nat

VARIABLES
    box,        \* the messages on the server
    sent,       \* those ever sent
    known,      \* paymentNotifications, oldest first
    stored,     \* what localStorage holds of them, <<>> for nothing saved
    wallet,     \* the identity the listener was started for
    keys,       \* the account whose keys native memory holds
    failures,   \* _authFailureCount
    cooled,     \* five minutes have passed since _lastAuthFailureTime
    ticking,    \* the check of the listener's timer that sets "checking"
    stage,      \* [Check -> how far it is]
    identity,   \* [Check -> identityPubKey it was started with]
    listing,    \* [Check -> the messages it was given]
    fresh,      \* [Check -> newNotifications]
    announced,  \* [Payment -> times a check returned it as new, up to 2]
    forgotten,  \* payments that left memory: cut, replaced by a reload, or a restart
    changes

serverVars == <<box, sent>>
storeVars == <<known, stored, forgotten>>
walletVars == <<wallet, keys, changes>>
authVars == <<failures, cooled>>
checkVars == <<stage, identity, listing, fresh>>
vars == <<serverVars, storeVars, walletVars, authVars, ticking, checkVars, announced>>

TypeOK ==
    /\ box \subseteq sent /\ sent \subseteq Message
    /\ known \in Seq(Payment) /\ stored \in Seq(Payment)
    /\ IsInjective(known) /\ IsInjective(stored) /\ Len(known) <= MaxKept
    /\ wallet \in Account \cup {NoAccount} /\ keys \in Account \cup {NoAccount}
    /\ failures \in Nat /\ cooled \in BOOLEAN
    /\ ticking \in Check \cup {NoCheck}
    /\ stage \in [Check -> {"idle", "listing", "listed", "acknowledging", "saving"}]
    /\ identity \in [Check -> Account \cup {NoAccount}]
    /\ listing \in [Check -> SUBSET Message] /\ fresh \in [Check -> SUBSET Payment]
    /\ announced \in [Payment -> 0..2] /\ forgotten \subseteq Payment
    /\ changes \in 0..MaxChanges

Init ==
    /\ box = {} /\ sent = {}
    /\ known = <<>> /\ stored = <<>> /\ forgotten = {}
    /\ wallet = NoAccount /\ keys = NoAccount /\ changes = 0
    /\ failures = 0 /\ cooled = TRUE
    /\ ticking = NoCheck /\ stage = [c \in Check |-> "idle"]
    /\ identity = [c \in Check |-> NoAccount]
    /\ listing = [c \in Check |-> {}] /\ fresh = [c \in Check |-> {}]
    /\ announced = [p \in Payment |-> 0]

PaidBy(M) == {Pays[m] : m \in M} \ {NoPayment}

\* Another wallet sends a message; it may tell of a payment twice.
Send(m) ==
    /\ m \notin sent
    /\ sent' = sent \cup {m} /\ box' = box \cup {m}
    /\ UNCHANGED <<storeVars, walletVars, authVars, ticking, checkVars, announced>>

-----------------------------------------------------------------------------
(* Checks begin.                                                            *)

\* The first statements of listPaymentMessagesImpl, up to its first await.
Suppressed(n) == n >= MaxFailures /\ ~cooled
AfterGuard(n) == IF n >= MaxFailures THEN 0 ELSE n

Starts(c, a) ==
    /\ stage[c] = "idle"
    /\ stage' = [stage EXCEPT ![c] = "listing"]
    /\ identity' = [identity EXCEPT ![c] = a]
    /\ UNCHANGED <<listing, fresh>>

\* The timer of the listener, unless its previous check still runs (S-143).
Tick(c) ==
    /\ wallet # NoAccount /\ ticking = NoCheck
    /\ ~Suppressed(failures) /\ failures' = AfterGuard(failures)
    /\ Starts(c, wallet) /\ ticking' = c
    /\ UNCHANGED <<serverVars, storeVars, walletVars, cooled, announced>>

\* The button of the settings: guarded by nothing.
CheckMessageBox(c) ==
    /\ wallet # NoAccount
    /\ ~Suppressed(failures) /\ failures' = AfterGuard(failures)
    /\ Starts(c, wallet)
    /\ UNCHANGED <<serverVars, storeVars, walletVars, cooled, ticking, announced>>

-----------------------------------------------------------------------------
(* What a check goes through.                                               *)

Leaves(c) ==
    /\ stage' = [stage EXCEPT ![c] = "idle"]
    /\ identity' = [identity EXCEPT ![c] = NoAccount]
    /\ listing' = [listing EXCEPT ![c] = {}] /\ fresh' = [fresh EXCEPT ![c] = {}]
    /\ ticking' = IF ticking = c THEN NoCheck ELSE ticking

\* The request is signed with the keys of that moment, and the box is the one of
\* the identity it names.
Authentic(c) == keys = identity[c]

Listed(c) ==
    /\ stage[c] = "listing" /\ Authentic(c)
    /\ listing' = [listing EXCEPT ![c] = {m \in box : To[m] = identity[c]}]
    /\ stage' = [stage EXCEPT ![c] = "listed"]
    /\ failures' = 0
    /\ UNCHANGED <<serverVars, storeVars, walletVars, cooled, ticking, identity, fresh, announced>>

\* 401: a signature by other keys, or a server that refuses for a time. The check
\* ends with no messages.
Unauthorized(c) ==
    /\ stage[c] = "listing" /\ keys # NoAccount
    /\ failures' = failures + 1 /\ cooled' = FALSE
    /\ Leaves(c)
    /\ UNCHANGED <<serverVars, storeVars, walletVars, announced>>

\* No keys to sign with, no answer, or an error of the server.
ListFails(c) ==
    /\ stage[c] = "listing"
    /\ Leaves(c)
    /\ UNCHANGED <<serverVars, storeVars, walletVars, authVars, announced>>

\* The oldest are dropped.
Capped(s) == SubSeq(s, IF Len(s) > MaxKept THEN Len(s) - MaxKept + 1 ELSE 1, Len(s))

\* MUTANT of NotKnown: what this check was given is all new to it.
NotKnownToCheck(c) == PaidBy(listing[c])

NotKnown(c) == PaidBy(listing[c]) \ ToSet(known)

\* The loop of checkForPaymentsImpl, in the order the server listed the messages.
Process(c) ==
    /\ stage[c] = "listed"
    /\ \E new \in SetToSeqs(NotKnown(c)) : known' = Capped(known \o new)
    /\ forgotten' = forgotten \cup ((ToSet(known) \cup NotKnown(c)) \ ToSet(known'))
    /\ IF PaidBy(listing[c]) = {}
         THEN Leaves(c)
         ELSE /\ stage' = [stage EXCEPT ![c] = "acknowledging"]
              /\ fresh' = [fresh EXCEPT ![c] = NotKnown(c)]
              /\ UNCHANGED <<identity, listing, ticking>>
    /\ UNCHANGED <<serverVars, stored, walletVars, authVars, announced>>

\* MUTANT of Processed: only messages of new payments are acknowledged.
ProcessedNew(c) == {m \in listing[c] : Pays[m] \in fresh[c]}

\* processedIds: of payments known before as well, as their acknowledgement failed.
Processed(c) == {m \in listing[c] : Pays[m] # NoPayment}

\* The server deletes the messages. Whether the answer arrives makes no difference.
Acknowledge(c) ==
    /\ stage[c] = "acknowledging" /\ Authentic(c)
    /\ box' = box \ Processed(c)
    /\ stage' = [stage EXCEPT ![c] = "saving"]
    /\ UNCHANGED <<sent, storeVars, walletVars, authVars, ticking, identity, listing, fresh, announced>>

\* MUTANT of AcknowledgeFails: the check ends there, and saves nothing.
AcknowledgeFailsEarly(c) ==
    /\ stage[c] = "acknowledging"
    /\ Leaves(c)
    /\ UNCHANGED <<serverVars, storeVars, walletVars, authVars, announced>>

\* The request is refused or does not arrive: its result is not looked at.
AcknowledgeFails(c) ==
    /\ stage[c] = "acknowledging"
    /\ stage' = [stage EXCEPT ![c] = "saving"]
    /\ UNCHANGED <<serverVars, storeVars, walletVars, authVars, ticking, identity, listing, fresh,
                   announced>>

\* saveNotifications writes what memory holds now; the new payments are announced.
Save(c) ==
    /\ stage[c] = "saving"
    /\ stored' = known
    /\ announced' = [p \in Payment |->
                       IF p \in fresh[c] /\ announced[p] < 2 THEN announced[p] + 1 ELSE announced[p]]
    /\ Leaves(c)
    /\ UNCHANGED <<serverVars, known, forgotten, walletVars, authVars>>

-----------------------------------------------------------------------------
(* The wallet around them.                                                  *)

\* A switch, an unlock or a lock puts other keys in native memory, or none. The bound
\* leaves one change for a wallet to be opened again.
ChangeKeys(a) ==
    /\ IF a = NoAccount THEN changes + 1 < MaxChanges ELSE changes < MaxChanges
    /\ a # keys
    /\ keys' = a /\ changes' = changes + 1
    /\ UNCHANGED <<serverVars, storeVars, wallet, authVars, ticking, checkVars, announced>>

\* loadNotifications: what was saved, if anything was, replaces what memory holds.
Reloaded == IF stored = <<>> THEN known ELSE stored

\* The effect of usePaymentListener runs for the new wallet: the timer stops, the
\* checks under way go on, and a first check begins.
Listen(c) ==
    /\ keys \notin {wallet, NoAccount} /\ wallet' = keys
    /\ failures' = 0
    /\ known' = Reloaded /\ forgotten' = forgotten \cup (ToSet(known) \ ToSet(known'))
    /\ Starts(c, keys) /\ ticking' = NoCheck
    /\ UNCHANGED <<serverVars, stored, keys, changes, cooled, announced>>

\* Its cleanup, when the wallet is locked.
StopListening ==
    /\ keys = NoAccount /\ wallet # NoAccount
    /\ wallet' = NoAccount /\ ticking' = NoCheck
    /\ UNCHANGED <<serverVars, storeVars, keys, changes, authVars, checkVars, announced>>

\* Five minutes pass.
Cool ==
    /\ ~cooled /\ cooled' = TRUE
    /\ UNCHANGED <<serverVars, storeVars, walletVars, failures, ticking, checkVars, announced>>

\* The application ends and starts: no wallet, and memory is what was saved.
Restart ==
    /\ changes + 1 < MaxChanges /\ changes' = changes + 1
    /\ wallet' = NoAccount /\ keys' = NoAccount
    /\ known' = <<>> /\ forgotten' = forgotten \cup (ToSet(known) \ ToSet(stored))
    /\ failures' = 0 /\ cooled' = TRUE
    /\ ticking' = NoCheck /\ stage' = [c \in Check |-> "idle"]
    /\ identity' = [c \in Check |-> NoAccount]
    /\ listing' = [c \in Check |-> {}] /\ fresh' = [c \in Check |-> {}]
    /\ UNCHANGED <<serverVars, stored, announced>>

Next ==
    \/ \E m \in Message : Send(m)
    \/ \E c \in Check :
         \/ Tick(c) \/ CheckMessageBox(c) \/ Listen(c)
         \/ Listed(c) \/ Unauthorized(c) \/ ListFails(c) \/ Process(c)
         \/ Acknowledge(c) \/ AcknowledgeFails(c) \/ Save(c)
    \/ \E a \in Account \cup {NoAccount} : ChangeKeys(a)
    \/ StopListening \/ Cool \/ Restart

Spec == Init /\ [][Next]_vars

-----------------------------------------------------------------------------
(* A request is answered or fails, and what awaits it goes on; the timer    *)
(* fires again and again; requests of a wallet whose keys are in memory do  *)
(* not fail for ever.                                                       *)
Lists(c) == Listed(c) \/ Unauthorized(c) \/ ListFails(c)
Acknowledges(c) == Acknowledge(c) \/ AcknowledgeFails(c)

Fairness ==
    /\ WF_vars(Cool) /\ WF_vars(StopListening)
    /\ SF_vars(\E c \in Check : Listen(c)) /\ SF_vars(\E c \in Check : Tick(c))
    /\ SF_vars(\E c \in Check : Listed(c)) /\ SF_vars(\E c \in Check : Acknowledge(c))
    /\ \A c \in Check : WF_vars(Lists(c) \/ Process(c) \/ Acknowledges(c) \/ Save(c))

FairSpec == Spec /\ Fairness

-----------------------------------------------------------------------------
(* Properties.                                                              *)

UnderWay(p) == \E c \in Check : stage[c] \in {"acknowledging", "saving"} /\ p \in PaidBy(listing[c])

\* "Without this message, we can't derive the private key" (messageBox.ts:8). A
\* message that is gone from the server is one of a payment that is remembered or
\* stored, or was forgotten by the limit, a reload or a restart; and what memory
\* holds and storage does not, a check under way is about to save, so only in that
\* window can a reload or a restart forget a payment (checkForPaymentsImpl).
DeletedIsKept ==
    /\ PaidBy(sent \ box) \subseteq ToSet(known) \cup ToSet(stored) \cup forgotten
    /\ \A m \in sent \ box : Pays[m] # NoPayment
    /\ \A p \in ToSet(known) \ ToSet(stored) : UnderWay(p)

\* However checks overlap, and however often the server repeats itself, a payment is
\* announced as new once, unless it was forgotten ("should not return duplicate
\* notifications", messageBox.test.ts:527).
AnnouncedOnce == \A p \in Payment \ forgotten : announced[p] <= 1

\* While the wallet of its recipient is open, a message about a payment does not stay
\* on the server for ever: after lost requests, refused signatures and the pause that
\* follows them (AUTH_FAILURE_RESET_MS), it is processed and acknowledged.
EveryMessageTaken == []<>(\A m \in box : To[m] = wallet => Pays[m] = NoPayment)

\* No payment of a deleted message is lost.
NoPaymentLost == PaidBy(sent \ box) \subseteq ToSet(known) \cup ToSet(stored)
=============================================================================
