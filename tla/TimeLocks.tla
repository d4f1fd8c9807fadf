----------------------------- MODULE TimeLocks -----------------------------
(***************************************************************************)
(* Time-locked outputs: the locks table, the list the user sees, the       *)
(* detection that reads both from the chain, the history phase of a sync,  *)
(* and the unlocks, which the user and BRC-100 applications start at any   *)
(* moment.                                                                 *)
(*                                                                         *)
(* The chain is what the miners know of the output of a lock: absent,      *)
(* fresh (accepted, but the indexer does not serve it yet), known, spent.  *)
(* A refresh (fetchData) shows the rows it read at once and starts a       *)
(* detection pass with them; at its end it starts another without any.     *)
(* Nobody awaits a pass, so passes of several refreshes run side by side.  *)
(* An action is the code between two awaits of a network request or of a   *)
(* database statement.                                                     *)
(***************************************************************************)
EXTENDS Naturals, FiniteSets

CONSTANTS
    Lock,          \* outputs of time-lock transactions
    User,          \* unlocks the user starts (one at a time each)
    App,           \* unlocks BRC-100 requests start
    Others,        \* whether the wallet has further locks, always detected
    NoLock,        \* no output
    Lag,           \* whether the indexer may be behind the miners
    MaxInflight,   \* MAX_INFLIGHT_UNLOCKS
    Pass,          \* bound: detection passes that may be under way together
    MaxFetches,    \* bound: refreshes that may be under way together
    Mixes          \* bound: which passes, unlocks and syncs run side by side

Attempt == User \cup App
Transaction == Lock \X {"lock", "unlock"}

ASSUME NoLockAssumption == NoLock \notin Lock
ASSUME AttemptAssumption == User \cap App = {}
ASSUME LagAssumption == Lag \in BOOLEAN /\ Others \in BOOLEAN
ASSUME MixAssumption == Mixes \subseteq SUBSET (Pass \cup Attempt \cup {"syncs"})
ASSUME InflightAssumption == MaxInflight \in Nat /\ MaxFetches \in Nat

VARIABLES
    mix,        \* the mix of this behaviour; it never changes
    chain,      \* what the network knows of each output
    row,        \* its row in locks: none, open (unlocked_at NULL) or closed
    mature,     \* locks whose height has passed
    shown,      \* the locks in React state
    known,      \* knownUnlockedLocksRef
    fetches,    \* refreshes between their two passes
    pass,       \* stage of each detection pass
    pre,        \* preloaded rows each pass was given
    skip,       \* known-unlocked set each pass was given
    found,      \* what each pass detected
    todo,       \* locks each pass has still to ask about, or to persist
    doubt,      \* the lock whose 404 a pass was answered and has not acted on
    voided,     \* the rows each pass voided
    txs,        \* the transactions table
    news,       \* transactions the history phase has still to look at
    met,        \* where the history phase is with the one it looks at
    stage,      \* where each unlock is
    goal,       \* the output it unlocks
    inflight,   \* inflightUnlocks: outputs an application unlocks now
    answer      \* what the caller of the last unlock was told

chainVars == <<mix, chain, mature>>
listVars == <<shown, known>>
passVars == <<pass, pre, skip, found, todo, doubt, voided>>
fetchVars == <<fetches, passVars>>
historyVars == <<news, met>>
tryVars == <<stage, goal, inflight, answer>>
vars == <<chainVars, row, listVars, fetchVars, txs, historyVars, tryVars>>

Idle == [at |-> "idle"]
Meeting == [at : {"check", "mark", "record"}, tx : Transaction]
Stage == {"idle", "lookup", "broadcast", "probe", "record", "mark", "refresh", "waiting"}
Answer == {"none", "unlocked", "error", "completed", "failed"}

\* One invariant for the types of all variables.
TypeOK ==
    /\ mix \in Mixes
    /\ chain \in [Lock -> {"absent", "fresh", "known", "spent"}]
    /\ row \in [Lock -> {"none", "open", "closed"}]
    /\ mature \subseteq Lock /\ shown \subseteq Lock /\ known \subseteq Lock
    /\ fetches \in 0..MaxFetches
    /\ pass \in [Pass -> {"idle", "detect", "void", "persist"}]
    /\ pre \in [Pass -> SUBSET Lock] /\ skip \in [Pass -> SUBSET Lock]
    /\ found \in [Pass -> SUBSET Lock] /\ todo \in [Pass -> SUBSET Lock]
    /\ doubt \in [Pass -> Lock \cup {NoLock}] /\ voided \in [Pass -> SUBSET Lock]
    /\ txs \subseteq Transaction /\ news \subseteq Transaction
    /\ met \in Meeting \cup {Idle}
    /\ stage \in [Attempt -> Stage]
    /\ goal \in [Attempt -> Lock \cup {NoLock}]
    /\ inflight \subseteq Lock
    /\ answer \in [Attempt -> Answer]

Init ==
    /\ mix \in Mixes
    /\ chain \in [Lock -> {"absent", "known"}]
    /\ row = [l \in Lock |-> "none"]
    /\ mature = {} /\ shown = {} /\ known = {}
    /\ fetches = 0
    /\ pass = [p \in Pass |-> "idle"]
    /\ pre = [p \in Pass |-> {}] /\ skip = [p \in Pass |-> {}] /\ found = [p \in Pass |-> {}]
    /\ todo = [p \in Pass |-> {}] /\ voided = [p \in Pass |-> {}]
    /\ doubt = [p \in Pass |-> NoLock]
    /\ txs = {} /\ news = {} /\ met = Idle
    /\ stage = [u \in Attempt |-> "idle"]
    /\ goal = [u \in Attempt |-> NoLock]
    /\ inflight = {}
    /\ answer = [u \in Attempt |-> "none"]

OpenRows == {l \in Lock : row[l] = "open"}

(***************************************************************************)
(* The rows.                                                               *)
(***************************************************************************)
\* markLockUnlockedByTxid: only a row that is open changes.
MarkUnlocked(L) == [l \in Lock |-> IF l \in L /\ row[l] = "open" THEN "closed" ELSE row[l]]

\* MUTANT of AddIfMissing: a row that exists is opened again.
AddReopens(L) == [l \in Lock |-> IF l \in L THEN "open" ELSE row[l]]

\* addLockIfNotExists: a row that exists, closed ones included, stays as it is (the
\* index on utxo_id refuses the second of two rows that are added together).
AddIfMissing(L) == [l \in Lock |-> IF l \in L /\ row[l] = "none" THEN "open" ELSE row[l]]

(***************************************************************************)
(* The world: creation, height, indexing.                                  *)
(***************************************************************************)
\* The lock is recorded and shown; recordSentTransaction may fail in silence.
CreateLock(l) ==
    /\ chain[l] = "absent" /\ row[l] = "none"
    /\ chain' = [chain EXCEPT ![l] = IF Lag THEN "fresh" ELSE "known"]
    /\ row' = [row EXCEPT ![l] = "open"]
    /\ shown' = shown \cup {l}
    /\ txs' \in {txs, txs \cup {<<l, "lock">>}}
    /\ UNCHANGED <<mix, mature, known, fetchVars, historyVars, tryVars>>

\* A broadcast that failed but was taken for a success leaves a row alone.
CreatePhantom(l) ==
    /\ chain[l] = "absent" /\ row[l] = "none"
    /\ row' = [row EXCEPT ![l] = "open"]
    /\ shown' = shown \cup {l}
    /\ txs' \in {txs, txs \cup {<<l, "lock">>}}
    /\ UNCHANGED <<chainVars, known, fetchVars, historyVars, tryVars>>

Mature(l) ==
    /\ l \notin mature
    /\ mature' = mature \cup {l}
    /\ UNCHANGED <<mix, chain, row, listVars, fetchVars, txs, historyVars, tryVars>>

Index(l) ==
    /\ chain[l] = "fresh"
    /\ chain' = [chain EXCEPT ![l] = "known"]
    /\ UNCHANGED <<mix, mature, row, listVars, fetchVars, txs, historyVars, tryVars>>

(***************************************************************************)
(* The history phase of a sync (syncTransactionHistory).                   *)
(***************************************************************************)
\* The transactions of time locks that the indexer may list.
OnChain == {t \in Transaction : \/ chain[t[1]] = "spent"
                                \/ chain[t[1]] = "known" /\ t[2] = "lock"}

\* The history is read (it may lack the newest) and what the table has is left out,
\* unless getKnownTxids failed.
HistoryBegins ==
    /\ "syncs" \in mix /\ met = Idle /\ news = {}
    /\ \E listed \in SUBSET OnChain : news' \in {listed, listed \ txs}
    /\ UNCHANGED <<chainVars, row, listVars, fetchVars, txs, met, tryVars>>

\* The next transaction is looked at.
Takes(t, where) ==
    /\ met = Idle /\ t \in news
    /\ news' = news \ {t}
    /\ met' = [at |-> where, tx |-> t]

At(where) == met # Idle /\ met.at = where
HistoryGoes(where) == met' = [met EXCEPT !.at = where]

\* Its details say that it made a lock, which is added to the table.
HistoryMeetsLock(t) ==
    /\ t[2] = "lock" /\ Takes(t, "check")
    /\ row' = AddIfMissing({t[1]})
    /\ UNCHANGED <<chainVars, listVars, fetchVars, txs, tryVars>>

\* Its details say that it unlocked one.
HistoryMeetsUnlock(t) ==
    /\ t[2] = "unlock" /\ Takes(t, "mark")
    /\ UNCHANGED <<chainVars, row, listVars, fetchVars, txs, tryVars>>

\* Its details cannot be read, or the lock cannot be added: it is recorded as it is.
HistoryMisses(t) ==
    /\ Takes(t, "record")
    /\ UNCHANGED <<chainVars, row, listVars, fetchVars, txs, tryVars>>

\* Its output may be spent already: a best effort.
HistoryChecks ==
    /\ At("check")
    /\ HistoryGoes("record") \/ (chain[met.tx[1]] = "spent" /\ HistoryGoes("mark"))
    /\ UNCHANGED <<chainVars, row, listVars, fetchVars, txs, news, tryVars>>

\* The row of a lock that was unlocked is marked: a best effort too.
HistoryMarks ==
    /\ At("mark")
    /\ row' \in {row, MarkUnlocked({met.tx[1]})}
    /\ HistoryGoes("record")
    /\ UNCHANGED <<chainVars, listVars, fetchVars, txs, news, tryVars>>

\* addTransaction: from now on every sync skips the transaction.
HistoryRecords ==
    /\ At("record")
    /\ txs' \in {txs, txs \cup {met.tx}}
    /\ met' = Idle
    /\ UNCHANGED <<chainVars, row, listVars, fetchVars, news, tryVars>>

History == \/ \E t \in news : HistoryMeetsLock(t) \/ HistoryMeetsUnlock(t) \/ HistoryMisses(t)
           \/ HistoryBegins \/ HistoryChecks \/ HistoryMarks \/ HistoryRecords

(***************************************************************************)
(* A refresh and its detection passes.                                     *)
(***************************************************************************)
StartPass(p, rows) ==
    /\ p \in mix /\ pass[p] = "idle"
    /\ pass' = [pass EXCEPT ![p] = "detect"]
    /\ pre' = [pre EXCEPT ![p] = rows]
    /\ skip' = [skip EXCEPT ![p] = known]
    /\ UNCHANGED <<found, todo, doubt, voided>>

EndPass(p) ==
    /\ pass' = [pass EXCEPT ![p] = "idle"]
    /\ pre' = [pre EXCEPT ![p] = {}]
    /\ skip' = [skip EXCEPT ![p] = {}]
    /\ found' = [found EXCEPT ![p] = {}]
    /\ todo' = [todo EXCEPT ![p] = {}]
    /\ voided' = [voided EXCEPT ![p] = {}]
    /\ UNCHANGED doubt

\* fetchData reads the rows and, when there are any, shows them and detects.
FetchBegin ==
    /\ fetches < MaxFetches
    /\ fetches' = fetches + 1
    /\ \/ UNCHANGED <<shown, passVars>>            \* no rows, or they cannot be read
       \/ /\ OpenRows # {} /\ shown' = OpenRows
          /\ \E p \in Pass : StartPass(p, OpenRows)
    /\ UNCHANGED <<chainVars, row, known, txs, historyVars, tryVars>>

\* At its end, after the slow calls, it detects again, without any rows...
FetchDetects ==
    /\ fetches > 0
    /\ fetches' = fetches - 1
    /\ \E p \in Pass : StartPass(p, {})
    /\ UNCHANGED <<chainVars, row, listVars, txs, historyVars, tryVars>>

\* ...unless the outputs could not be fetched.
FetchFails ==
    /\ fetches > 0
    /\ fetches' = fetches - 1
    /\ UNCHANGED <<chainVars, row, listVars, passVars, txs, historyVars, tryVars>>

\* detectLockedUtxos finds outputs of the history that neither the set it was
\* given nor the table calls unlocked and that are not known to be spent.
Detectable(p) == {l \in Lock : chain[l] = "known" /\ row[l] # "closed" /\ l \notin skip[p]}
Doubtful(p) == {l \in Lock : chain[l] = "spent" /\ row[l] # "closed" /\ l \notin skip[p]}

\* A failed check of an output counts it as unspent. An empty list, and any
\* other error gives one, makes the list the rows the pass was given.
DetectNothing(p) ==
    /\ pass[p] = "detect"
    /\ EndPass(p) /\ shown' = pre[p]
    /\ UNCHANGED <<chainVars, row, known, fetches, txs, historyVars, tryVars>>

\* The list may lack outputs: the history lags, details cannot be fetched.
DetectSome(p) ==
    /\ pass[p] = "detect"
    /\ \E E \in SUBSET (Detectable(p) \cup Doubtful(p)) :
         /\ E # {} \/ Others
         /\ found' = [found EXCEPT ![p] = E]
         /\ todo' = [todo EXCEPT ![p] = pre[p] \ E]
    /\ pass' = [pass EXCEPT ![p] = "void"]
    /\ skip' = [skip EXCEPT ![p] = {}]
    /\ UNCHANGED <<chainVars, row, listVars, fetches, pre, doubt, voided, txs, historyVars, tryVars>>

\* MUTANT of AskVoid: every answer that is not the transaction counts as a 404.
AskVoidAnyError(p, l) ==
    /\ pass[p] = "void" /\ doubt[p] = NoLock /\ l \in todo[p]
    /\ todo' = [todo EXCEPT ![p] = @ \ {l}]
    /\ doubt' \in {doubt, [doubt EXCEPT ![p] = l]}
    /\ UNCHANGED <<chainVars, row, listVars, fetches, pass, pre, skip, found, voided, txs,
                   historyVars, tryVars>>

\* voidPhantomLocks asks for the transaction of a row it was given and did not
\* detect: the indexer has it, or the answer is an error, or a 404.
AskVoid(p, l) ==
    /\ pass[p] = "void" /\ doubt[p] = NoLock /\ l \in todo[p]
    /\ todo' = [todo EXCEPT ![p] = @ \ {l}]
    /\ \/ UNCHANGED doubt
       \/ chain[l] \in {"absent", "fresh"} /\ doubt' = [doubt EXCEPT ![p] = l]
    /\ UNCHANGED <<chainVars, row, listVars, fetches, pass, pre, skip, found, voided, txs,
                   historyVars, tryVars>>

\* After a 404 the row is marked unlocked, whatever happened since; the lock stays
\* with the others when the mark fails.
MarkVoid(p) ==
    /\ doubt[p] # NoLock
    /\ \/ /\ row' = MarkUnlocked({doubt[p]})
          /\ voided' = [voided EXCEPT ![p] = @ \cup {doubt[p]}]
       \/ UNCHANGED <<row, voided>>
    /\ doubt' = [doubt EXCEPT ![p] = NoLock]
    /\ UNCHANGED <<chainVars, listVars, fetches, pass, pre, skip, found, todo, txs,
                   historyVars, tryVars>>

\* mergeWithPreloaded: what was detected and the rows that were not voided.
Merged(p) == found[p] \cup (pre[p] \ voided[p])

Merge(p) ==
    /\ pass[p] = "void" /\ todo[p] = {} /\ doubt[p] = NoLock
    /\ pass' = [pass EXCEPT ![p] = "persist"]
    /\ todo' = [todo EXCEPT ![p] = Merged(p)]
    /\ UNCHANGED <<chainVars, row, listVars, fetches, pre, skip, found, doubt, voided, txs,
                   historyVars, tryVars>>

\* persistLocks, one lock after the other, as well as it can.
PersistOne(p, l) ==
    /\ pass[p] = "persist" /\ l \in todo[p]
    /\ row' \in {row, AddIfMissing({l})}
    /\ todo' = [todo EXCEPT ![p] = @ \ {l}]
    /\ UNCHANGED <<chainVars, listVars, fetches, pass, pre, skip, found, doubt, voided, txs,
                   historyVars, tryVars>>

\* fetchData shows what was merged before the locks were persisted.
ShowMerged(p) ==
    /\ pass[p] = "persist" /\ todo[p] = {}
    /\ shown' = Merged(p)
    /\ EndPass(p)
    /\ UNCHANGED <<chainVars, row, known, fetches, txs, historyVars, tryVars>>

PassStep(p) ==
    \/ DetectNothing(p) \/ DetectSome(p) \/ MarkVoid(p) \/ Merge(p) \/ ShowMerged(p)
    \/ \E l \in Lock : AskVoid(p, l) \/ PersistOne(p, l)

(***************************************************************************)
(* Unlocks.                                                                *)
(***************************************************************************)
Goto(u, s) == stage' = [stage EXCEPT ![u] = s]

UserUnlock(u, l) ==
    /\ u \in User \cap mix /\ stage[u] = "idle" /\ l \in shown \cap mature
    /\ Goto(u, "broadcast") /\ goal' = [goal EXCEPT ![u] = l]
    /\ answer' = [answer EXCEPT ![u] = "none"]
    /\ UNCHANGED <<chainVars, row, listVars, fetchVars, txs, historyVars, inflight>>

\* MUTANT of AppUnlock: it does not look into the map.
AppUnlockUnguarded(a, l) ==
    /\ a \in App \cap mix /\ stage[a] = "idle"
    /\ goal' = [goal EXCEPT ![a] = l]
    /\ Goto(a, "lookup") /\ answer' = [answer EXCEPT ![a] = "none"]
    /\ inflight' = inflight \cup {l}
    /\ UNCHANGED <<chainVars, row, listVars, fetchVars, txs, historyVars>>

\* A second request for an output waits for the first; a full map refuses.
AppUnlock(a, l) ==
    /\ a \in App \cap mix /\ stage[a] = "idle"
    /\ goal' = [goal EXCEPT ![a] = l]
    /\ \/ /\ l \in inflight
          /\ Goto(a, "waiting") /\ answer' = [answer EXCEPT ![a] = "none"]
          /\ UNCHANGED inflight
       \/ /\ l \notin inflight /\ Cardinality(inflight) >= MaxInflight
          /\ answer' = [answer EXCEPT ![a] = "error"]
          /\ UNCHANGED <<stage, inflight>>
       \/ /\ l \notin inflight /\ Cardinality(inflight) < MaxInflight
          /\ Goto(a, "lookup") /\ answer' = [answer EXCEPT ![a] = "none"]
          /\ inflight' = inflight \cup {l}
    /\ UNCHANGED <<chainVars, row, listVars, fetchVars, txs, historyVars>>

\* MUTANT of EndAppUnlock: the entry is removed and its promise never settles.
EndForgetsWaiting(a, ans, threw) ==
    /\ inflight' = inflight \ {goal[a]}
    /\ Goto(a, "idle")
    /\ answer' = [answer EXCEPT ![a] = ans]
    /\ UNCHANGED goal

\* The operation of an application ends: it leaves the map and those who waited
\* are told that it completed unless it threw, whatever its answer was.
EndAppUnlock(a, ans, threw) ==
    LET waiting == {b \in App : stage[b] = "waiting" /\ goal[b] = goal[a]} IN
    /\ inflight' = inflight \ {goal[a]}
    /\ stage' = [u \in Attempt |-> IF u = a \/ u \in waiting THEN "idle" ELSE stage[u]]
    /\ answer' = [u \in Attempt |-> IF u = a THEN ans
                                    ELSE IF u \in waiting
                                         THEN IF threw THEN "failed" ELSE "completed"
                                         ELSE answer[u]]
    /\ UNCHANGED goal

Lookup(a) ==
    /\ stage[a] = "lookup"
    /\ \/ /\ row[goal[a]] = "open" /\ goal[a] \in mature
          /\ Goto(a, "broadcast") /\ UNCHANGED <<goal, inflight, answer>>
       \/ /\ ~(row[goal[a]] = "open" /\ goal[a] \in mature)
          /\ EndAppUnlock(a, "error", FALSE)
       \/ EndAppUnlock(a, "error", TRUE)           \* the height cannot be read
    /\ UNCHANGED <<chainVars, row, listVars, fetchVars, txs, historyVars>>

\* The transaction is the same for every attempt: the network takes it once and
\* later calls it known. An answer may be lost, a broadcast refused.
BroadcastUnlock(u) ==
    /\ stage[u] = "broadcast"
    /\ \/ /\ chain[goal[u]] # "absent"
          /\ chain' = [chain EXCEPT ![goal[u]] = "spent"]
          /\ Goto(u, "record") \/ Goto(u, "probe")
       \/ UNCHANGED chain /\ Goto(u, "probe")
    /\ UNCHANGED <<mix, mature, row, listVars, fetchVars, txs, historyVars, goal, inflight, answer>>

UnlockSucceeds(u) ==
    /\ UNCHANGED <<goal, inflight>>
    /\ IF u \in User
         THEN /\ known' = known \cup {goal[u]}
              /\ answer' = [answer EXCEPT ![u] = "unlocked"] /\ Goto(u, "refresh")
         ELSE UNCHANGED <<known, answer>> /\ Goto(u, "mark")

UnlockFails(u) ==
    /\ UNCHANGED known
    /\ IF u \in User
         THEN answer' = [answer EXCEPT ![u] = "error"] /\ Goto(u, "idle") /\ UNCHANGED <<goal, inflight>>
         ELSE EndAppUnlock(u, "error", FALSE)

\* MUTANT of Probe: an error of the check is taken for a spent output.
ProbeTrusts(u) ==
    /\ stage[u] = "probe"
    /\ row' \in {row, MarkUnlocked({goal[u]})}
    /\ UnlockSucceeds(u)
    /\ UNCHANGED <<chainVars, shown, fetchVars, txs, historyVars>>

\* After a failed broadcast: is the output spent? A mark that fails is ignored.
Probe(u) ==
    /\ stage[u] = "probe"
    /\ \/ /\ chain[goal[u]] = "spent"
          /\ row' \in {row, MarkUnlocked({goal[u]})}
          /\ UnlockSucceeds(u)
       \/ UNCHANGED row /\ UnlockFails(u)
    /\ UNCHANGED <<chainVars, shown, fetchVars, txs, historyVars>>

\* The transaction and the mark of the row, whose failures are only logged. A database
\* transaction holds the two, but recordSentTransaction does not throw when it fails,
\* and inside the transaction of another flow nothing is rolled back.
RecordUnlock(u) ==
    /\ stage[u] = "record"
    /\ row' \in {row, MarkUnlocked({goal[u]})}
    /\ txs' \in {txs, txs \cup {<<goal[u], "unlock">>}}
    /\ UnlockSucceeds(u)
    /\ UNCHANGED <<chainVars, shown, fetchVars, historyVars>>

\* handlers.ts marks the row it looked up again, by its id, and may throw.
MarkByApp(a) ==
    /\ stage[a] = "mark"
    /\ \/ row' = MarkUnlocked({goal[a]}) /\ EndAppUnlock(a, "unlocked", FALSE)
       \/ UNCHANGED row /\ EndAppUnlock(a, "error", TRUE)
    /\ UNCHANGED <<chainVars, listVars, fetchVars, txs, historyVars>>

\* handleUnlock awaits a refresh (not its passes), then drops the lock.
RefreshedByUser(u) ==
    /\ stage[u] = "refresh"
    /\ shown' = shown \ {goal[u]}
    /\ Goto(u, "idle")
    /\ UNCHANGED <<chainVars, row, known, fetchVars, txs, historyVars, goal, inflight, answer>>

Env == \E l \in Lock : CreateLock(l) \/ CreatePhantom(l) \/ Mature(l) \/ Index(l)
Refresh == FetchBegin \/ FetchDetects \/ FetchFails \/ \E p \in Pass : PassStep(p)
Request == \E l \in Lock, u \in Attempt : UserUnlock(u, l) \/ AppUnlock(u, l)
Unlocking(u) == \/ Lookup(u) \/ BroadcastUnlock(u) \/ Probe(u) \/ RecordUnlock(u)
                \/ MarkByApp(u) \/ RefreshedByUser(u)

Next ==
    \/ Env
    \/ History
    \/ Refresh
    \/ Request
    \/ \E u \in Attempt : Unlocking(u)

Spec == Init /\ [][Next]_vars

\* Refreshes and syncs come back for ever, promises settle, and the fetches at the end
\* of a refresh do not fail for ever. Nothing makes the user or an application ask.
Fairness ==
    /\ WF_vars(FetchBegin) /\ SF_vars(FetchDetects) /\ WF_vars(FetchDetects \/ FetchFails)
    /\ \A p \in Pass : WF_vars(PassStep(p))
    /\ WF_vars(History)
    /\ \A u \in Attempt : WF_vars(Unlocking(u))

FairSpec == Spec /\ Fairness

(***************************************************************************)
(* Properties.                                                             *)
(***************************************************************************)
\* Once the indexer serves a lock as unspent and no pass holds an older 404 about it, its
\* row is safe until the output is spent: no pass with old rows, no unlock that failed
\* and no history strikes it from the table, in which no detection would put it back
\* (addLockIfNotExists, detectLockedUtxos).
Safe(l) == chain[l] = "known" /\ row[l] # "closed" /\ \A p \in Pass : doubt[p] # l
LiveLocksStayListed ==
    [][\A l \in Lock : Safe(l) => Safe(l)' \/ chain'[l] = "spent"]_vars

\* A caller is told that an output was unlocked only when it is spent, however
\* many unlocks, refused broadcasts and lost answers came before.
UnlockedMeansSpent ==
    \A u \in Attempt : answer[u] = "unlocked" => chain[goal[u]] = "spent"

\* Of the applications that unlock an output, one at a time is past the map.
Unlocks(a) == stage[a] \in {"lookup", "broadcast", "probe", "record", "mark"}
OneUnlockAtATime ==
    \A a, b \in App : Unlocks(a) /\ Unlocks(b) /\ goal[a] = goal[b] => a = b

\* An application that asked is answered, those that wait included.
EveryAppAnswered == \A a \in App : stage[a] # "idle" ~> stage[a] = "idle"

\* A lock whose row is closed leaves the list for good, whatever passes were still under
\* way with rows read, or outputs detected, before.
ClosedLocksLeave == \A l \in Lock : row[l] = "closed" ~> [](l \notin shown)

(***************************************************************************)
(* What the repository says and the code does not do.                      *)
(***************************************************************************)
\* historySync.ts, of the marks it misses: "Best-effort - detectLockedUtxos will also
\* check later": a lock that was spent leaves the list in the end.
SpentLocksLeave == \A l \in Lock : chain[l] = "spent" ~> [](l \notin shown)

\* voidPhantomLocks closes rows of transactions that do not "exist on-chain": never one
\* of an output that is served by then.
ServedLocksStayListed ==
    [][\A l \in Lock : row'[l] = "closed" /\ row[l] # "closed" => chain[l] # "known"]_vars

\* What handlers.ts says to a second caller is true: the unlock it waited for
\* was completed.
CompletedMeansSpent ==
    \A u \in Attempt : answer[u] = "completed" => chain[goal[u]] = "spent"

\* lockReconciliation.ts keeps rows that were not detected "in state so they
\* don't flash away": a pass does not take an open lock off the list.
PassesKeepOpenLocks ==
    [][\A p \in Pass : DetectNothing(p) \/ ShowMerged(p) =>
          \A l \in shown : row'[l] = "open" => l \in shown']_vars

\* voidPhantomLocks: a lock that the indexer does not serve yet "could be a
\* pending/unconfirmed tx not yet in WoC", so it keeps its row.
FreshLocksStayListed ==
    [][\A l \in Lock : row'[l] = "closed" /\ row[l] # "closed" => chain[l] # "fresh"]_vars
=============================================================================
