-------------------------- MODULE TimeLocksProofs ---------------------------
(***************************************************************************)
(* Safety of the unlocks of TimeLocks, for any locks, users, applications  *)
(* and size of the map of unlocks in flight.                               *)
(*                                                                         *)
(* An unlock that got past the broadcast works on an output that is spent, *)
(* and a spent output stays so: that is why nothing it marks or tells is   *)
(* wrong. An application that unlocks has its output in the map, and takes *)
(* it out only when it ends: that is why there is one at a time.           *)
(***************************************************************************)
EXTENDS TimeLocks, FiniteSetTheorems, TLAPS

\* An unlock under way, or one that was answered, has an output.
GoalIsLock == \A u \in Attempt : stage[u] # "idle" \/ answer[u] # "none" => goal[u] \in Lock

\* The stages of an application's unlock are not those of a user's.
UserStages == \A u \in User : stage[u] \notin {"lookup", "mark", "waiting"}
AppStages == \A a \in App : stage[a] # "refresh"

\* Behind the broadcast the output is spent.
RecordedIsSpent ==
    \A u \in Attempt : stage[u] \in {"record", "mark"} => chain[goal[u]] = "spent"

\* The map holds the outputs of the applications that unlock.
MapHoldsGoals == \A a \in App : Unlocks(a) => goal[a] \in inflight

UnlockCore ==
    /\ GoalIsLock
    /\ UserStages /\ AppStages
    /\ RecordedIsSpent
    /\ UnlockedMeansSpent
    /\ MapHoldsGoals
    /\ OneUnlockAtATime

UnlockInv == TypeOK /\ UnlockCore

LEMMA InitInv == Init => UnlockInv
<1> SUFFICES ASSUME Init PROVE UnlockInv
  OBVIOUS
<1>1. TypeOK
  BY InflightAssumption DEF Init, TypeOK, Attempt, Stage, Answer
<1>2. GoalIsLock /\ UserStages /\ AppStages /\ RecordedIsSpent /\ UnlockedMeansSpent
  BY DEF Init, GoalIsLock, UserStages, AppStages, RecordedIsSpent, UnlockedMeansSpent, Attempt
<1>3. MapHoldsGoals /\ OneUnlockAtATime
  BY DEF Init, MapHoldsGoals, OneUnlockAtATime, Unlocks, Attempt
<1>4. QED
  BY <1>1, <1>2, <1>3 DEF UnlockInv, UnlockCore

-----------------------------------------------------------------------------
(* How a step may disturb the unlocks.                                      *)

\* A spent output stays spent.
SpentStays == \A l \in Lock : chain[l] = "spent" => chain'[l] = "spent"

\* What the invariant says of the unlocks is not disturbed by a step that leaves
\* their variables as they are.
LEMMA AsideKeeps ==
    ASSUME UnlockInv, SpentStays, UNCHANGED tryVars
    PROVE  UnlockCore'
<1> USE DEF UnlockInv, UnlockCore, tryVars
<1>1. GoalIsLock' /\ UserStages' /\ AppStages'
  BY DEF GoalIsLock, UserStages, AppStages
<1>2. RecordedIsSpent'
  <2> SUFFICES ASSUME NEW u \in Attempt, stage[u] \in {"record", "mark"}
               PROVE  chain'[goal[u]] = "spent"
    BY DEF RecordedIsSpent
  <2>1. goal[u] \in Lock /\ chain[goal[u]] = "spent"
    BY DEF GoalIsLock, RecordedIsSpent
  <2>2. QED
    BY <2>1 DEF SpentStays
<1>3. UnlockedMeansSpent'
  <2> SUFFICES ASSUME NEW u \in Attempt, answer[u] = "unlocked"
               PROVE  chain'[goal[u]] = "spent"
    BY DEF UnlockedMeansSpent
  <2>1. goal[u] \in Lock /\ chain[goal[u]] = "spent"
    BY DEF GoalIsLock, UnlockedMeansSpent
  <2>2. QED
    BY <2>1 DEF SpentStays
<1>4. MapHoldsGoals' /\ OneUnlockAtATime'
  BY DEF MapHoldsGoals, OneUnlockAtATime, Unlocks
<1>5. QED
  BY <1>1, <1>2, <1>3, <1>4

\* A step that moves one unlock on.
LEMMA MoveKeeps ==
    ASSUME UnlockInv, SpentStays,
           NEW u \in Attempt, NEW s \in Stage, NEW w \in Answer,
           stage[u] # "idle",
           Goto(u, s),
           answer' = [answer EXCEPT ![u] = w],
           UNCHANGED <<goal, inflight>>,
           u \in User => s \notin {"lookup", "mark", "waiting"},
           u \in App => Unlocks(u) /\ s # "refresh",
           s \in {"record", "mark"} => chain'[goal[u]] = "spent",
           w = "unlocked" => chain'[goal[u]] = "spent"
    PROVE  UnlockCore'
<1> USE DEF UnlockInv, UnlockCore, Goto
<1>0. /\ stage' \in [Attempt -> Stage] /\ answer' \in [Attempt -> Answer]
      /\ \A v \in Attempt : v # u => stage'[v] = stage[v] /\ answer'[v] = answer[v]
      /\ stage'[u] = s /\ answer'[u] = w
  BY DEF TypeOK
<1>1. GoalIsLock'
  BY <1>0 DEF GoalIsLock
<1>2. UserStages' /\ AppStages'
  BY <1>0 DEF UserStages, AppStages, Attempt
<1>3. RecordedIsSpent'
  <2> SUFFICES ASSUME NEW v \in Attempt, stage'[v] \in {"record", "mark"}
               PROVE  chain'[goal[v]] = "spent"
    BY DEF RecordedIsSpent
  <2>1. CASE v = u
    BY <2>1, <1>0
  <2>2. CASE v # u
    <3>1. goal[v] \in Lock /\ chain[goal[v]] = "spent"
      BY <2>2, <1>0 DEF GoalIsLock, RecordedIsSpent
    <3>2. QED
      BY <3>1 DEF SpentStays
  <2>3. QED
    BY <2>1, <2>2
<1>4. UnlockedMeansSpent'
  <2> SUFFICES ASSUME NEW v \in Attempt, answer'[v] = "unlocked"
               PROVE  chain'[goal[v]] = "spent"
    BY DEF UnlockedMeansSpent
  <2>1. CASE v = u
    BY <2>1, <1>0
  <2>2. CASE v # u
    <3>1. goal[v] \in Lock /\ chain[goal[v]] = "spent"
      BY <2>2, <1>0 DEF GoalIsLock, UnlockedMeansSpent
    <3>2. QED
      BY <3>1 DEF SpentStays
  <2>3. QED
    BY <2>1, <2>2
<1>5. \A a \in App : Unlocks(a)' => Unlocks(a)
  BY <1>0 DEF Unlocks, Attempt
<1>6. MapHoldsGoals' /\ OneUnlockAtATime'
  BY <1>5 DEF MapHoldsGoals, OneUnlockAtATime
<1>7. QED
  BY <1>1, <1>2, <1>3, <1>4, <1>6

\* A step that ends the unlock of an application, and answers those who waited.
LEMMA EndKeeps ==
    ASSUME UnlockInv,
           NEW a \in App, NEW ans \in {"unlocked", "error"}, NEW threw \in BOOLEAN,
           Unlocks(a),
           EndAppUnlock(a, ans, threw),
           ans = "unlocked" => chain[goal[a]] = "spent",
           UNCHANGED chain
    PROVE  /\ UnlockCore'
           /\ stage' \in [Attempt -> Stage] /\ answer' \in [Attempt -> Answer]
           /\ inflight' \subseteq Lock /\ UNCHANGED goal
<1> USE DEF UnlockInv, UnlockCore
<1> DEFINE waiting == {b \in App : stage[b] = "waiting" /\ goal[b] = goal[a]}
<1>0. /\ stage' = [u \in Attempt |-> IF u = a \/ u \in waiting THEN "idle" ELSE stage[u]]
      /\ answer' = [u \in Attempt |-> IF u = a THEN ans
                                      ELSE IF u \in waiting
                                           THEN IF threw THEN "failed" ELSE "completed"
                                           ELSE answer[u]]
      /\ inflight' = inflight \ {goal[a]} /\ goal' = goal
  BY DEF EndAppUnlock
<1>a. a \in Attempt /\ waiting \subseteq Attempt
  BY DEF Attempt
<1> HIDE DEF waiting
<1>1. stage' \in [Attempt -> Stage] /\ answer' \in [Attempt -> Answer] /\ inflight' \subseteq Lock
  BY <1>0 DEF TypeOK, Stage, Answer
<1>b. \A u \in Attempt : stage'[u] = "idle" \/ stage'[u] = stage[u]
  BY <1>0
<1>c. \A u \in Attempt : u # a => answer'[u] \in {answer[u], "failed", "completed"}
  BY <1>0
<1>d. stage'[a] = "idle" /\ answer'[a] = ans
  BY <1>0, <1>a
<1>2. GoalIsLock'
  <2> SUFFICES ASSUME NEW u \in Attempt, stage'[u] # "idle" \/ answer'[u] # "none"
               PROVE  goal[u] \in Lock
    BY <1>0 DEF GoalIsLock
  <2>1. CASE u = a \/ u \in waiting
    <3>1. stage[u] # "idle"
      BY <2>1 DEF waiting, Unlocks
    <3>2. QED
      BY <3>1 DEF GoalIsLock
  <2>2. CASE ~(u = a \/ u \in waiting)
    <3>1. stage'[u] = stage[u] /\ answer'[u] = answer[u]
      BY <2>2, <1>0
    <3>2. QED
      BY <3>1 DEF GoalIsLock
  <2>3. QED
    BY <2>1, <2>2
<1>3. UserStages' /\ AppStages'
  BY <1>b DEF UserStages, AppStages, Attempt
<1>4. RecordedIsSpent'
  BY <1>0, <1>b DEF RecordedIsSpent
<1>5. UnlockedMeansSpent'
  <2> SUFFICES ASSUME NEW u \in Attempt, answer'[u] = "unlocked"
               PROVE  chain[goal[u]] = "spent"
    BY <1>0 DEF UnlockedMeansSpent
  <2>1. CASE u = a
    BY <2>1, <1>d
  <2>2. CASE u # a
    BY <2>2, <1>c DEF UnlockedMeansSpent
  <2>3. QED
    BY <2>1, <2>2
<1>6. MapHoldsGoals'
  <2> SUFFICES ASSUME NEW b \in App, Unlocks(b)'
               PROVE  goal[b] \in inflight'
    BY <1>0 DEF MapHoldsGoals
  <2>1. Unlocks(b) /\ b # a
    BY <1>b, <1>d DEF Unlocks, Attempt
  <2>2. goal[b] \in inflight /\ goal[b] # goal[a]
    BY <2>1 DEF MapHoldsGoals, OneUnlockAtATime
  <2>3. QED
    BY <2>2, <1>0
<1>7. OneUnlockAtATime'
  <2>1. \A b \in App : Unlocks(b)' => Unlocks(b)
    BY <1>b DEF Unlocks, Attempt
  <2>2. QED
    BY <2>1, <1>0 DEF OneUnlockAtATime
<1>8. QED
  BY <1>0, <1>1, <1>2, <1>3, <1>4, <1>5, <1>6, <1>7

-----------------------------------------------------------------------------
(* The rows.                                                                *)

RowStates == {"none", "open", "closed"}

\* Marking and adding rows leave rows.
LEMMA RowTypes ==
    ASSUME TypeOK, NEW L
    PROVE  /\ MarkUnlocked(L) \in [Lock -> RowStates]
           /\ AddIfMissing(L) \in [Lock -> RowStates]
BY DEF TypeOK, MarkUnlocked, AddIfMissing, RowStates

\* A row is closed by marking it, and by nothing else.
LEMMA MarkClosesOnly ==
    ASSUME TypeOK, NEW L, NEW l \in Lock, MarkUnlocked(L)[l] = "closed", row[l] # "closed"
    PROVE  l \in L
BY DEF MarkUnlocked

-----------------------------------------------------------------------------
(* The steps of the world, the history and the refreshes.                   *)

LEMMA EnvStep ==
    ASSUME UnlockInv, NEW l \in Lock,
           CreateLock(l) \/ CreatePhantom(l) \/ Mature(l) \/ Index(l)
    PROVE  UnlockInv'
<1> USE DEF UnlockInv, chainVars, listVars, fetchVars, tryVars
<1>1. CASE CreateLock(l)
  <2>1. TypeOK'
    BY <1>1 DEF TypeOK, CreateLock, historyVars, passVars, Transaction
  <2>2. SpentStays
    BY <1>1 DEF TypeOK, CreateLock, SpentStays
  <2>3. QED
    BY <2>1, <2>2, <1>1, AsideKeeps DEF CreateLock
<1>2. CASE CreatePhantom(l)
  <2>1. TypeOK'
    BY <1>2 DEF TypeOK, CreatePhantom, historyVars, passVars, Transaction
  <2>2. QED
    BY <2>1, <1>2, AsideKeeps DEF CreatePhantom, SpentStays
<1>3. CASE Mature(l)
  <2>1. TypeOK'
    BY <1>3 DEF TypeOK, Mature, historyVars, passVars
  <2>2. QED
    BY <2>1, <1>3, AsideKeeps DEF Mature, SpentStays
<1>4. CASE Index(l)
  <2>1. TypeOK'
    BY <1>4 DEF TypeOK, Index, historyVars, passVars
  <2>2. SpentStays
    BY <1>4 DEF TypeOK, Index, SpentStays
  <2>3. QED
    BY <2>1, <2>2, <1>4, AsideKeeps DEF Index
<1>5. QED
  BY <1>1, <1>2, <1>3, <1>4

\* Every step of the history leaves the chain and the unlocks alone.
LEMMA HistoryAside ==
    ASSUME UnlockInv, History
    PROVE  UNCHANGED <<chainVars, listVars, fetchVars, tryVars>>
BY DEF History, HistoryMeetsLock, HistoryMeetsUnlock, HistoryMisses, HistoryBegins,
       HistoryChecks, HistoryMarks, HistoryRecords

LEMMA HistoryTypes ==
    ASSUME UnlockInv, History
    PROVE  /\ row' \in [Lock -> RowStates]
           /\ txs' \subseteq Transaction /\ news' \subseteq Transaction
           /\ met' \in Meeting \cup {Idle}
<1>1. /\ row \in [Lock -> RowStates]
      /\ txs \subseteq Transaction /\ news \subseteq Transaction
      /\ met \in Meeting \cup {Idle} /\ TypeOK
  BY DEF UnlockInv, TypeOK, RowStates
<1>2. ASSUME NEW t \in news, NEW w \in {"check", "mark", "record"}, Takes(t, w)
      PROVE  news' \subseteq Transaction /\ met' \in Meeting
  <2>1. t \in Transaction
    BY <1>1
  <2>2. QED
    BY <1>1, <1>2, <2>1 DEF Takes, Meeting
<1>3. ASSUME NEW w \in {"check", "mark", "record"}, met # Idle, HistoryGoes(w)
      PROVE  met' \in Meeting
  BY <1>1, <1>3 DEF HistoryGoes, Meeting
<1>4. ASSUME NEW t \in news,
             HistoryMeetsLock(t) \/ HistoryMeetsUnlock(t) \/ HistoryMisses(t)
      PROVE  /\ row' \in [Lock -> RowStates] /\ txs' = txs
             /\ \E w \in {"check", "mark", "record"} : Takes(t, w)
  BY <1>1, <1>4, RowTypes DEF HistoryMeetsLock, HistoryMeetsUnlock, HistoryMisses
<1>5. CASE HistoryBegins
  BY <1>1, <1>5 DEF HistoryBegins, OnChain
<1>6. CASE HistoryChecks
  BY <1>1, <1>3, <1>6 DEF HistoryChecks, At
<1>7. CASE HistoryMarks
  BY <1>1, <1>3, <1>7, RowTypes DEF HistoryMarks, At
<1>8. CASE HistoryRecords
  <2>1. met \in Meeting
    BY <1>1, <1>8 DEF HistoryRecords, At
  <2>2. met.tx \in Transaction
    BY <2>1 DEF Meeting
  <2>3. QED
    BY <1>1, <1>8, <2>2 DEF HistoryRecords
<1>9. QED
  BY <1>1, <1>2, <1>4, <1>5, <1>6, <1>7, <1>8 DEF History

LEMMA HistoryStep ==
    ASSUME UnlockInv, History
    PROVE  UnlockInv'
<1>1. UNCHANGED <<chainVars, listVars, fetchVars, tryVars>>
  BY HistoryAside
<1>2. TypeOK'
  BY <1>1, HistoryTypes
     DEF UnlockInv, TypeOK, RowStates, chainVars, listVars, fetchVars, passVars, tryVars
<1>3. QED
  BY <1>1, <1>2, AsideKeeps DEF UnlockInv, SpentStays, chainVars

\* Every step of a refresh leaves the chain, the transactions, the history and the
\* unlocks alone.
LEMMA RefreshAside ==
    ASSUME UnlockInv, Refresh
    PROVE  UNCHANGED <<chainVars, txs, historyVars, tryVars>>
BY DEF Refresh, FetchBegin, FetchDetects, FetchFails, PassStep, DetectNothing, DetectSome,
       MarkVoid, Merge, ShowMerged, AskVoid, PersistOne

\* The types of what a refresh changes.
RefreshTypes ==
    /\ row \in [Lock -> RowStates] /\ shown \subseteq Lock /\ known \subseteq Lock
    /\ fetches \in 0..MaxFetches
    /\ pass \in [Pass -> {"idle", "detect", "void", "persist"}]
    /\ pre \in [Pass -> SUBSET Lock] /\ skip \in [Pass -> SUBSET Lock]
    /\ found \in [Pass -> SUBSET Lock] /\ todo \in [Pass -> SUBSET Lock]
    /\ doubt \in [Pass -> Lock \cup {NoLock}] /\ voided \in [Pass -> SUBSET Lock]

LEMMA RefreshKeepsTypes ==
    ASSUME RefreshTypes, TypeOK, Refresh
    PROVE  RefreshTypes'
<1> USE DEF RefreshTypes
<1>0. OpenRows \subseteq Lock
  BY DEF OpenRows
<1>1. ASSUME NEW p \in Pass, NEW R \in SUBSET Lock, StartPass(p, R)
      PROVE  /\ pass' \in [Pass -> {"idle", "detect", "void", "persist"}]
             /\ pre' \in [Pass -> SUBSET Lock] /\ skip' \in [Pass -> SUBSET Lock]
             /\ UNCHANGED <<found, todo, doubt, voided>>
  BY <1>1 DEF StartPass
<1>2. ASSUME NEW p \in Pass, EndPass(p)
      PROVE  /\ pass' \in [Pass -> {"idle", "detect", "void", "persist"}]
             /\ pre' \in [Pass -> SUBSET Lock] /\ skip' \in [Pass -> SUBSET Lock]
             /\ found' \in [Pass -> SUBSET Lock] /\ todo' \in [Pass -> SUBSET Lock]
             /\ doubt' = doubt /\ voided' \in [Pass -> SUBSET Lock]
  BY <1>2 DEF EndPass
<1>3. CASE FetchBegin
  <2>1. fetches' \in 0..MaxFetches /\ row' = row /\ known' = known
    BY <1>3, InflightAssumption DEF FetchBegin
  <2>2. CASE UNCHANGED <<shown, passVars>>
    BY <2>1, <2>2 DEF passVars
  <2>3. CASE shown' = OpenRows /\ \E p \in Pass : StartPass(p, OpenRows)
    BY <1>0, <1>1, <2>1, <2>3
  <2>4. QED
    BY <1>3, <2>2, <2>3 DEF FetchBegin
<1>4. CASE FetchDetects
  <2>1. fetches' \in 0..MaxFetches /\ row' = row /\ UNCHANGED listVars
    BY <1>4, InflightAssumption DEF FetchDetects
  <2>2. PICK p \in Pass : StartPass(p, {})
    BY <1>4 DEF FetchDetects
  <2>3. {} \in SUBSET Lock
    OBVIOUS
  <2>4. QED
    BY <1>1, <2>1, <2>2, <2>3 DEF listVars
<1>5. CASE FetchFails
  <2>1. fetches' \in 0..MaxFetches /\ row' = row /\ UNCHANGED <<listVars, passVars>>
    BY <1>5, InflightAssumption DEF FetchFails
  <2>2. QED
    BY <2>1 DEF listVars, passVars
<1>6. ASSUME NEW p \in Pass, DetectNothing(p) PROVE RefreshTypes'
  BY <1>2, <1>6 DEF DetectNothing
<1>7. ASSUME NEW p \in Pass, DetectSome(p) PROVE RefreshTypes'
  <2>1. PICK E \in SUBSET (Detectable(p) \cup Doubtful(p)) :
           /\ found' = [found EXCEPT ![p] = E]
           /\ todo' = [todo EXCEPT ![p] = pre[p] \ E]
    BY <1>7 DEF DetectSome
  <2>2. E \subseteq Lock
    BY DEF Detectable, Doubtful
  <2>3. QED
    BY <1>7, <2>1, <2>2 DEF DetectSome, listVars
<1>8. ASSUME NEW p \in Pass, MarkVoid(p) PROVE RefreshTypes'
  <2>1. doubt[p] \in Lock
    BY <1>8 DEF MarkVoid
  <2>2. row' \in [Lock -> RowStates] /\ voided' \in [Pass -> SUBSET Lock]
    BY <1>8, <2>1, RowTypes DEF MarkVoid
  <2>3. QED
    BY <1>8, <2>2 DEF MarkVoid, listVars
<1>9. ASSUME NEW p \in Pass, Merge(p) PROVE RefreshTypes'
  BY <1>9 DEF Merge, Merged, listVars
<1>10. ASSUME NEW p \in Pass, ShowMerged(p) PROVE RefreshTypes'
  BY <1>2, <1>10 DEF ShowMerged, Merged
<1>11. ASSUME NEW p \in Pass, NEW l \in Lock, AskVoid(p, l) PROVE RefreshTypes'
  BY <1>11 DEF AskVoid, listVars
<1>12. ASSUME NEW p \in Pass, NEW l \in Lock, PersistOne(p, l) PROVE RefreshTypes'
  BY <1>12, RowTypes DEF PersistOne, listVars
<1>13. QED
  BY <1>3, <1>4, <1>5, <1>6, <1>7, <1>8, <1>9, <1>10, <1>11, <1>12 DEF Refresh, PassStep

LEMMA RefreshStep ==
    ASSUME UnlockInv, Refresh
    PROVE  UnlockInv'
<1>1. UNCHANGED <<chainVars, txs, historyVars, tryVars>>
  BY RefreshAside
<1>2. RefreshTypes'
  BY RefreshKeepsTypes DEF UnlockInv, TypeOK, RefreshTypes, RowStates
<1>3. TypeOK'
  BY <1>1, <1>2 DEF UnlockInv, TypeOK, RefreshTypes, RowStates, chainVars, historyVars, tryVars
<1>4. QED
  BY <1>1, <1>3, AsideKeeps DEF UnlockInv, SpentStays, chainVars

-----------------------------------------------------------------------------
(* The steps of the unlocks.                                                *)

LEMMA UserUnlockStep ==
    ASSUME UnlockInv, NEW u \in Attempt, NEW l \in Lock, UserUnlock(u, l)
    PROVE  UnlockInv'
<1> USE DEF UnlockInv, UnlockCore, UserUnlock, Goto, chainVars, listVars, fetchVars, passVars, historyVars
<1>1. TypeOK'
  BY DEF TypeOK, Attempt, Stage, Answer
<1>2. /\ \A v \in Attempt : v # u => /\ stage'[v] = stage[v] /\ answer'[v] = answer[v]
                                     /\ goal'[v] = goal[v]
      /\ stage'[u] = "broadcast" /\ answer'[u] = "none" /\ goal'[u] = l
      /\ u \in User /\ u \notin App
  BY AttemptAssumption DEF TypeOK
<1>3. GoalIsLock' /\ UserStages' /\ AppStages'
  BY <1>2 DEF GoalIsLock, UserStages, AppStages, Attempt
<1>4. RecordedIsSpent' /\ UnlockedMeansSpent'
  BY <1>2 DEF RecordedIsSpent, UnlockedMeansSpent
<1>5. \A a \in App : (Unlocks(a)' <=> Unlocks(a)) /\ goal'[a] = goal[a]
  BY <1>2 DEF Unlocks, Attempt
<1>6. MapHoldsGoals' /\ OneUnlockAtATime'
  BY <1>5 DEF MapHoldsGoals, OneUnlockAtATime
<1>7. QED
  BY <1>1, <1>3, <1>4, <1>6

LEMMA AppUnlockStep ==
    ASSUME UnlockInv, NEW a \in Attempt, NEW l \in Lock, AppUnlock(a, l)
    PROVE  UnlockInv'
<1> USE DEF UnlockInv, UnlockCore, chainVars, listVars, fetchVars, passVars, historyVars
<1>1. TypeOK'
  BY DEF AppUnlock, Goto, TypeOK, Attempt, Stage, Answer
<1>2. /\ \A v \in Attempt : v # a => /\ stage'[v] = stage[v] /\ answer'[v] = answer[v]
                                     /\ goal'[v] = goal[v]
      /\ answer'[a] \in {"none", "error"} /\ goal'[a] = l
      /\ stage'[a] \in {"idle", "waiting", "lookup"}
      /\ stage'[a] = "lookup" => l \notin inflight /\ l \in inflight'
      /\ inflight \subseteq inflight'
      /\ a \in App /\ a \notin User
      /\ chain' = chain
  BY AttemptAssumption DEF AppUnlock, Goto, TypeOK
<1>3. GoalIsLock' /\ UserStages' /\ AppStages'
  BY <1>2 DEF GoalIsLock, UserStages, AppStages, Attempt
<1>4. RecordedIsSpent' /\ UnlockedMeansSpent'
  BY <1>2 DEF RecordedIsSpent, UnlockedMeansSpent
<1>5. \A b \in App : b # a => (Unlocks(b)' <=> Unlocks(b)) /\ goal'[b] = goal[b]
  BY <1>2 DEF Unlocks, Attempt
<1>6. Unlocks(a)' => l \notin inflight /\ l \in inflight'
  BY <1>2 DEF Unlocks
<1>7. MapHoldsGoals'
  BY <1>2, <1>5, <1>6 DEF MapHoldsGoals
<1>8. OneUnlockAtATime'
  <2> SUFFICES ASSUME NEW b \in App, NEW c \in App, Unlocks(b)', Unlocks(c)',
                      goal'[b] = goal'[c], b # c
               PROVE  FALSE
    BY DEF OneUnlockAtATime
  <2>1. CASE b # a /\ c # a
    BY <2>1, <1>5 DEF OneUnlockAtATime
  <2>2. CASE b = a
    BY <2>2, <1>2, <1>5, <1>6 DEF MapHoldsGoals
  <2>3. CASE c = a
    BY <2>3, <1>2, <1>5, <1>6 DEF MapHoldsGoals
  <2>4. QED
    BY <2>1, <2>2, <2>3
<1>9. QED
  BY <1>1, <1>3, <1>4, <1>7, <1>8

LEMMA LookupStep ==
    ASSUME UnlockInv, NEW a \in Attempt, Lookup(a)
    PROVE  UnlockInv'
<1> USE DEF UnlockInv, chainVars, listVars, fetchVars, passVars, historyVars
<1>0. stage[a] = "lookup" /\ a \in App /\ a \notin User /\ Unlocks(a) /\ SpentStays /\ chain' = chain
  BY AttemptAssumption DEF Lookup, UnlockCore, UserStages, Attempt, Unlocks, SpentStays
<1>1. CASE Goto(a, "broadcast") /\ UNCHANGED <<goal, inflight, answer>>
  <2>1. TypeOK'
    BY <1>1 DEF Lookup, Goto, TypeOK, Stage
  <2>2. answer' = [answer EXCEPT ![a] = answer[a]] /\ answer[a] \in Answer /\ "broadcast" \in Stage
    BY <1>1 DEF TypeOK, Stage
  <2>3. answer[a] = "unlocked" => chain'[goal[a]] = "spent"
    BY <1>0 DEF UnlockCore, UnlockedMeansSpent
  <2>4. UnlockCore'
    BY <1>0, <1>1, <2>2, <2>3, MoveKeeps
  <2>5. QED
    BY <2>1, <2>4
<1>2. ASSUME NEW threw \in BOOLEAN, EndAppUnlock(a, "error", threw)
      PROVE  UnlockInv'
  <2>1. /\ UnlockCore'
        /\ stage' \in [Attempt -> Stage] /\ answer' \in [Attempt -> Answer]
        /\ inflight' \subseteq Lock /\ UNCHANGED goal
    BY <1>0, <1>2, EndKeeps
  <2>2. TypeOK'
    BY <2>1 DEF Lookup, TypeOK
  <2>3. QED
    BY <2>1, <2>2
<1>3. QED
  BY <1>1, <1>2 DEF Lookup

LEMMA BroadcastStep ==
    ASSUME UnlockInv, NEW u \in Attempt, BroadcastUnlock(u)
    PROVE  UnlockInv'
<1> USE DEF UnlockInv, chainVars, listVars, fetchVars, passVars, historyVars
<1>0. /\ stage[u] = "broadcast" /\ goal[u] \in Lock
      /\ u \in App => Unlocks(u)
  BY DEF BroadcastUnlock, UnlockCore, GoalIsLock, Unlocks
<1>1. PICK s \in {"record", "probe"} : Goto(u, s) /\ (s = "record" => chain'[goal[u]] = "spent")
  BY <1>0 DEF BroadcastUnlock, TypeOK
<1>2. SpentStays
  BY <1>0 DEF BroadcastUnlock, TypeOK, SpentStays
<1>3. TypeOK'
  BY <1>0, <1>1 DEF BroadcastUnlock, Goto, TypeOK, Stage
<1>4. answer' = [answer EXCEPT ![u] = answer[u]] /\ answer[u] \in Answer /\ s \in Stage
  BY DEF BroadcastUnlock, TypeOK, Stage
<1>5. answer[u] = "unlocked" => chain'[goal[u]] = "spent"
  BY <1>0, <1>2 DEF UnlockCore, UnlockedMeansSpent, SpentStays
<1>6. UNCHANGED <<goal, inflight>>
  BY DEF BroadcastUnlock
<1>7. UnlockCore'
  BY <1>0, <1>1, <1>2, <1>4, <1>5, <1>6, MoveKeeps
<1>8. QED
  BY <1>3, <1>7

\* The end of an unlock that worked, for the user, or its passing to the mark.
LEMMA SuccessKeeps ==
    ASSUME UnlockInv, NEW u \in Attempt, stage[u] \in {"probe", "record"},
           UnlockSucceeds(u), chain[goal[u]] = "spent", UNCHANGED chain
    PROVE  /\ UnlockCore' /\ UNCHANGED <<goal, inflight>>
           /\ stage' \in [Attempt -> Stage] /\ answer' \in [Attempt -> Answer]
           /\ known' \subseteq Lock
<1> USE DEF UnlockInv
<1>0. stage[u] # "idle" /\ goal[u] \in Lock /\ (u \in App => Unlocks(u)) /\ SpentStays
  BY DEF UnlockCore, GoalIsLock, Unlocks, SpentStays
<1>1. CASE u \in User
  <2>1. /\ UNCHANGED <<goal, inflight>> /\ known' = known \cup {goal[u]}
        /\ answer' = [answer EXCEPT ![u] = "unlocked"] /\ Goto(u, "refresh")
    BY <1>1 DEF UnlockSucceeds
  <2>2. u \notin App /\ "refresh" \in Stage /\ "unlocked" \in Answer
    BY <1>1, AttemptAssumption DEF Stage, Answer
  <2>3. UnlockCore'
    BY <1>0, <2>1, <2>2, MoveKeeps
  <2>4. QED
    BY <1>0, <2>1, <2>2, <2>3 DEF Goto, TypeOK
<1>2. CASE u \notin User
  <2>1. UNCHANGED <<goal, inflight, known, answer>> /\ Goto(u, "mark")
    BY <1>2 DEF UnlockSucceeds
  <2>2. answer' = [answer EXCEPT ![u] = answer[u]] /\ answer[u] \in Answer /\ "mark" \in Stage
    BY <2>1 DEF TypeOK, Stage
  <2>3. UnlockCore'
    BY <1>0, <1>2, <2>1, <2>2, MoveKeeps
  <2>4. QED
    BY <2>1, <2>2, <2>3 DEF Goto, TypeOK
<1>3. QED
  BY <1>1, <1>2

LEMMA ProbeStep ==
    ASSUME UnlockInv, NEW u \in Attempt, Probe(u)
    PROVE  UnlockInv'
<1> USE DEF UnlockInv, chainVars, listVars, fetchVars, passVars, historyVars
<1>0. stage[u] = "probe" /\ goal[u] \in Lock /\ (u \in App => Unlocks(u)) /\ SpentStays
  BY DEF Probe, UnlockCore, GoalIsLock, Unlocks, SpentStays
<1>1. CASE chain[goal[u]] = "spent" /\ row' \in {row, MarkUnlocked({goal[u]})} /\ UnlockSucceeds(u)
  <2>1. /\ UnlockCore' /\ UNCHANGED <<goal, inflight>>
        /\ stage' \in [Attempt -> Stage] /\ answer' \in [Attempt -> Answer]
        /\ known' \subseteq Lock
    BY <1>0, <1>1, SuccessKeeps DEF Probe
  <2>2. row' \in [Lock -> RowStates]
    BY <1>1, RowTypes DEF TypeOK, RowStates
  <2>3. TypeOK'
    BY <2>1, <2>2 DEF Probe, TypeOK, RowStates
  <2>4. QED
    BY <2>1, <2>3
<1>2. CASE UNCHANGED row /\ UnlockFails(u) /\ u \in User
  <2>1. answer' = [answer EXCEPT ![u] = "error"] /\ Goto(u, "idle") /\ UNCHANGED <<goal, inflight, known>>
    BY <1>2 DEF UnlockFails
  <2>2. u \notin App /\ "idle" \in Stage /\ "error" \in Answer
    BY <1>2, AttemptAssumption DEF Stage, Answer
  <2>3. UnlockCore'
    BY <1>0, <2>1, <2>2, MoveKeeps
  <2>4. TypeOK'
    BY <1>2, <2>1, <2>2 DEF Probe, Goto, TypeOK
  <2>5. QED
    BY <2>3, <2>4
<1>3. CASE UNCHANGED row /\ UnlockFails(u) /\ u \notin User
  <2>1. EndAppUnlock(u, "error", FALSE) /\ UNCHANGED known /\ u \in App /\ chain' = chain
    BY <1>3 DEF UnlockFails, Attempt, Probe
  <2>2. /\ UnlockCore'
        /\ stage' \in [Attempt -> Stage] /\ answer' \in [Attempt -> Answer]
        /\ inflight' \subseteq Lock /\ UNCHANGED goal
    BY <1>0, <2>1, EndKeeps
  <2>3. TypeOK'
    BY <1>3, <2>1, <2>2 DEF Probe, TypeOK
  <2>4. QED
    BY <2>2, <2>3
<1>4. QED
  BY <1>1, <1>2, <1>3 DEF Probe

LEMMA RecordStep ==
    ASSUME UnlockInv, NEW u \in Attempt, RecordUnlock(u)
    PROVE  UnlockInv'
<1> USE DEF UnlockInv, chainVars, listVars, fetchVars, passVars, historyVars
<1>0. chain[goal[u]] = "spent"
  BY DEF RecordUnlock, UnlockCore, RecordedIsSpent
<1>1. /\ UnlockCore' /\ UNCHANGED <<goal, inflight>>
      /\ stage' \in [Attempt -> Stage] /\ answer' \in [Attempt -> Answer]
      /\ known' \subseteq Lock
  BY <1>0, SuccessKeeps DEF RecordUnlock
<1>2. row' \in [Lock -> RowStates]
  BY RowTypes DEF RecordUnlock, TypeOK, RowStates
<1>3. TypeOK'
  <2>1. <<goal[u], "unlock">> \in Transaction
    BY DEF RecordUnlock, UnlockCore, GoalIsLock, Transaction
  <2>2. txs' \subseteq Transaction
    BY <2>1 DEF RecordUnlock, TypeOK
  <2>3. QED
    BY <1>1, <1>2, <2>2 DEF RecordUnlock, TypeOK, RowStates
<1>4. QED
  BY <1>1, <1>3

LEMMA MarkStep ==
    ASSUME UnlockInv, NEW a \in Attempt, MarkByApp(a)
    PROVE  UnlockInv'
<1> USE DEF UnlockInv, chainVars, listVars, fetchVars, passVars, historyVars
<1>0. a \in App /\ Unlocks(a) /\ chain[goal[a]] = "spent" /\ chain' = chain
  BY DEF MarkByApp, UnlockCore, RecordedIsSpent, UserStages, Attempt, Unlocks
<1>1. PICK ans \in {"unlocked", "error"}, threw \in BOOLEAN : EndAppUnlock(a, ans, threw)
  BY DEF MarkByApp
<1>2. /\ UnlockCore'
      /\ stage' \in [Attempt -> Stage] /\ answer' \in [Attempt -> Answer]
      /\ inflight' \subseteq Lock /\ UNCHANGED goal
  BY <1>0, <1>1, EndKeeps
<1>3. row' \in [Lock -> RowStates]
  <2>1. row' = row \/ row' = MarkUnlocked({goal[a]})
    BY DEF MarkByApp
  <2>2. MarkUnlocked({goal[a]}) \in [Lock -> RowStates] /\ row \in [Lock -> RowStates]
    BY RowTypes DEF TypeOK, RowStates
  <2>3. QED
    BY <2>1, <2>2
<1>4. TypeOK'
  BY <1>2, <1>3 DEF MarkByApp, TypeOK, RowStates
<1>5. QED
  BY <1>2, <1>4

LEMMA RefreshedStep ==
    ASSUME UnlockInv, NEW u \in Attempt, RefreshedByUser(u)
    PROVE  UnlockInv'
<1> USE DEF UnlockInv, chainVars, listVars, fetchVars, passVars, historyVars
<1>0. stage[u] = "refresh" /\ Goto(u, "idle") /\ UNCHANGED <<chain, goal, inflight, answer>>
  BY DEF RefreshedByUser
<1>1. u \notin App
  BY <1>0 DEF UnlockCore, AppStages
<1>2. answer' = [answer EXCEPT ![u] = answer[u]] /\ answer[u] \in Answer /\ "idle" \in Stage
  BY <1>0 DEF TypeOK, Stage
<1>3. answer[u] = "unlocked" => chain'[goal[u]] = "spent"
  BY <1>0 DEF UnlockCore, UnlockedMeansSpent
<1>4. SpentStays
  BY <1>0 DEF SpentStays
<1>5. UnlockCore'
  BY <1>0, <1>1, <1>2, <1>3, <1>4, MoveKeeps
<1>6. TypeOK'
  BY <1>2 DEF RefreshedByUser, Goto, TypeOK
<1>7. QED
  BY <1>5, <1>6

LEMMA StepInv == UnlockInv /\ [Next]_vars => UnlockInv'
<1> SUFFICES ASSUME UnlockInv, [Next]_vars PROVE UnlockInv'
  OBVIOUS
<1>1. CASE Env
  BY <1>1, EnvStep DEF Env
<1>2. CASE History
  BY <1>2, HistoryStep
<1>3. CASE Refresh
  BY <1>3, RefreshStep
<1>4. CASE Request
  BY <1>4, UserUnlockStep, AppUnlockStep DEF Request
<1>5. ASSUME NEW u \in Attempt, Unlocking(u) PROVE UnlockInv'
  BY <1>5, LookupStep, BroadcastStep, ProbeStep, RecordStep, MarkStep, RefreshedStep DEF Unlocking
<1>6. CASE UNCHANGED vars
  <2>1. TypeOK'
    BY <1>6 DEF UnlockInv, TypeOK, vars, chainVars, listVars, fetchVars, passVars, historyVars, tryVars
  <2>2. UnlockCore'
    BY <1>6, AsideKeeps DEF vars, chainVars, SpentStays
  <2>3. QED
    BY <2>1, <2>2 DEF UnlockInv
<1>7. QED
  BY <1>1, <1>2, <1>3, <1>4, <1>5, <1>6 DEF Next

THEOREM UnlockInvariant == Spec => []UnlockInv
BY InitInv, StepInv, PTL DEF Spec

-----------------------------------------------------------------------------
(* The theorems.                                                            *)

\* The table, the list, the passes and the unlocks stay well typed.
THEOREM TimeLocksTypeOK == Spec => []TypeOK
<1>1. UnlockInv => TypeOK
  BY DEF UnlockInv
<1>2. QED
  BY <1>1, UnlockInvariant, PTL

\* No caller of lockUnlocking.ts or handlers.ts is told of an unlock that did not
\* happen, for any number of users, applications and outputs.
THEOREM ToldUnlockedIsSpent == Spec => []UnlockedMeansSpent
<1>1. UnlockInv => UnlockedMeansSpent
  BY DEF UnlockInv, UnlockCore
<1>2. QED
  BY <1>1, UnlockInvariant, PTL

\* inflightUnlocks lets one application at a time unlock an output.
THEOREM OneApplicationUnlocks == Spec => []OneUnlockAtATime
<1>1. UnlockInv => OneUnlockAtATime
  BY DEF UnlockInv, UnlockCore
<1>2. QED
  BY <1>1, UnlockInvariant, PTL

-----------------------------------------------------------------------------
(* Live locks.                                                              *)

\* The history marks only rows of outputs that are spent: what it lists as an unlock
\* spent its output, and so did what its check found.
NewsIsTrue ==
    /\ \A t \in news : t[2] = "unlock" => chain[t[1]] = "spent"
    /\ At("mark") => chain[met.tx[1]] = "spent"

LEMMA NewsStep == UnlockInv /\ UnlockInv' /\ NewsIsTrue /\ [Next]_vars => NewsIsTrue'
<1> SUFFICES ASSUME UnlockInv, UnlockInv', NewsIsTrue, [Next]_vars PROVE NewsIsTrue'
  OBVIOUS
<1>0. \A t \in news : t[1] \in Lock
  BY DEF UnlockInv, TypeOK, Transaction
<1>a. At("mark") => met.tx[1] \in Lock
  BY DEF UnlockInv, TypeOK, At, Meeting, Transaction
<1>1. ASSUME UNCHANGED historyVars, SpentStays PROVE NewsIsTrue'
  BY <1>0, <1>a, <1>1 DEF NewsIsTrue, historyVars, SpentStays, At
<1>2. CASE Env
  <2>1. UNCHANGED historyVars
    BY <1>2 DEF Env, CreateLock, CreatePhantom, Mature, Index
  <2>2. SpentStays
    BY <1>2 DEF Env, CreateLock, CreatePhantom, Mature, Index, SpentStays, UnlockInv, TypeOK,
                chainVars
  <2>3. QED
    BY <1>1, <2>1, <2>2
<1>3. CASE History
  <2>0. chain' = chain /\ met \in Meeting \cup {Idle} /\ Idle.at = "idle"
    BY <1>3, HistoryAside DEF chainVars, UnlockInv, TypeOK, Idle
  <2>1. ASSUME NEW t \in news,
               HistoryMeetsLock(t) \/ HistoryMeetsUnlock(t) \/ HistoryMisses(t)
        PROVE  NewsIsTrue'
    <3>1. /\ news' = news \ {t} /\ met'.tx = t
          /\ met'.at = "mark" => t[2] = "unlock"
      BY <2>1 DEF HistoryMeetsLock, HistoryMeetsUnlock, HistoryMisses, Takes
    <3>2. QED
      BY <2>0, <3>1 DEF NewsIsTrue, At
  <2>2. CASE HistoryBegins
    BY <2>0, <2>2 DEF HistoryBegins, OnChain, NewsIsTrue, At
  <2>3. CASE HistoryChecks
    <3>1. /\ met \in Meeting /\ news' = news
          /\ HistoryGoes("record") \/ (chain[met.tx[1]] = "spent" /\ HistoryGoes("mark"))
      BY <2>0, <2>3 DEF HistoryChecks, At
    <3>2. /\ met'.tx = met.tx
          /\ met'.at = "record" \/ chain[met.tx[1]] = "spent"
      BY <3>1 DEF HistoryGoes, Meeting
    <3>3. QED
      BY <2>0, <3>1, <3>2 DEF NewsIsTrue, At
  <2>4. CASE HistoryMarks
    <3>1. met'.at = "record" /\ news' = news
      BY <2>0, <2>4 DEF HistoryMarks, HistoryGoes, At, Meeting
    <3>2. QED
      BY <2>0, <3>1 DEF NewsIsTrue, At
  <2>5. CASE HistoryRecords
    BY <2>0, <2>5 DEF HistoryRecords, NewsIsTrue, At
  <2>6. QED
    BY <1>3, <2>1, <2>2, <2>3, <2>4, <2>5 DEF History
<1>4. CASE Refresh
  BY <1>1, <1>4, RefreshAside DEF chainVars, SpentStays
<1>5. CASE Request
  BY <1>1, <1>5 DEF Request, UserUnlock, AppUnlock, chainVars, SpentStays
<1>6. ASSUME NEW u \in Attempt, Unlocking(u) PROVE NewsIsTrue'
  <2>1. UNCHANGED historyVars
    BY <1>6 DEF Unlocking, Lookup, BroadcastUnlock, Probe, RecordUnlock, MarkByApp,
                RefreshedByUser
  <2>2. SpentStays
    BY <1>6 DEF Unlocking, Lookup, BroadcastUnlock, Probe, RecordUnlock, MarkByApp,
                RefreshedByUser, chainVars, SpentStays, UnlockInv, TypeOK
  <2>3. QED
    BY <1>1, <2>1, <2>2
<1>7. CASE UNCHANGED vars
  BY <1>1, <1>7 DEF vars, chainVars, SpentStays
<1>8. QED
  BY <1>2, <1>3, <1>4, <1>5, <1>6, <1>7 DEF Next

\* A step closes a row because the output is spent, or because a pass was answered 404.
LEMMA ClosedForAReason ==
    ASSUME UnlockInv, NewsIsTrue, [Next]_vars,
           NEW l \in Lock, row'[l] = "closed", row[l] # "closed"
    PROVE  chain[l] = "spent" \/ \E p \in Pass : doubt[p] = l
<1> USE DEF UnlockInv, UnlockCore
<1>1. row' # row
  OBVIOUS
<1>2. ~Env
  BY DEF TypeOK, Env, CreateLock, CreatePhantom, Mature, Index
<1>3. CASE History
  <2>1. ASSUME NEW t \in news,
               HistoryMeetsLock(t) \/ HistoryMeetsUnlock(t) \/ HistoryMisses(t)
        PROVE  FALSE
    BY <1>1, <2>1 DEF HistoryMeetsLock, HistoryMeetsUnlock, HistoryMisses, AddIfMissing
  <2>2. HistoryMarks
    BY <1>1, <1>3, <2>1 DEF History, HistoryBegins, HistoryChecks, HistoryRecords
  <2>3. row' = MarkUnlocked({met.tx[1]}) /\ chain[met.tx[1]] = "spent"
    BY <1>1, <2>2 DEF HistoryMarks, NewsIsTrue
  <2>4. l = met.tx[1]
    BY <2>3, MarkClosesOnly
  <2>5. QED
    BY <2>3, <2>4
<1>4. CASE Refresh
  <2>1. ~FetchBegin /\ ~FetchDetects /\ ~FetchFails
    BY <1>1 DEF FetchBegin, FetchDetects, FetchFails
  <2>2. PICK p \in Pass : PassStep(p)
    BY <1>4, <2>1 DEF Refresh
  <2>3. ~DetectNothing(p) /\ ~DetectSome(p) /\ ~Merge(p) /\ ~ShowMerged(p)
    BY <1>1 DEF DetectNothing, DetectSome, Merge, ShowMerged
  <2>4. \A k \in Lock : ~AskVoid(p, k) /\ ~PersistOne(p, k)
    BY <1>1 DEF AskVoid, PersistOne, AddIfMissing
  <2>5. row' = MarkUnlocked({doubt[p]})
    BY <1>1, <2>2, <2>3, <2>4 DEF PassStep, MarkVoid
  <2>6. l = doubt[p]
    BY <2>5, MarkClosesOnly
  <2>7. QED
    BY <2>6
<1>5. ~Request
  BY <1>1 DEF Request, UserUnlock, AppUnlock
<1>6. ASSUME NEW u \in Attempt, Unlocking(u) PROVE chain[l] = "spent"
  <2>1. ~Lookup(u) /\ ~BroadcastUnlock(u) /\ ~RefreshedByUser(u)
    BY <1>1 DEF Lookup, BroadcastUnlock, RefreshedByUser
  <2>2. Probe(u) \/ RecordUnlock(u) \/ MarkByApp(u)
    BY <1>6, <2>1 DEF Unlocking
  <2>3. row' = MarkUnlocked({goal[u]}) /\ chain[goal[u]] = "spent"
    BY <2>2, <1>1 DEF Probe, RecordUnlock, MarkByApp, RecordedIsSpent
  <2>4. l = goal[u]
    BY <2>3, MarkClosesOnly
  <2>5. QED
    BY <2>3, <2>4
<1>7. ~UNCHANGED vars
  BY <1>1 DEF vars
<1>8. QED
  BY <1>2, <1>3, <1>4, <1>5, <1>6, <1>7 DEF Next

\* The indexer that serves an output goes on until it is spent.
LEMMA ServedStays ==
    ASSUME UnlockInv, [Next]_vars, NEW l \in Lock, chain[l] = "known"
    PROVE  chain'[l] \in {"known", "spent"}
<1> USE DEF UnlockInv, TypeOK
<1>1. CASE Env
  BY <1>1 DEF Env, CreateLock, CreatePhantom, Mature, Index, chainVars
<1>2. CASE History
  BY <1>2, HistoryAside DEF chainVars
<1>3. CASE Refresh
  BY <1>3, RefreshAside DEF chainVars
<1>4. CASE Request
  BY <1>4 DEF Request, UserUnlock, AppUnlock, chainVars
<1>5. ASSUME NEW u \in Attempt, Unlocking(u) PROVE chain'[l] \in {"known", "spent"}
  BY <1>5 DEF Unlocking, Lookup, BroadcastUnlock, Probe, RecordUnlock, MarkByApp,
              RefreshedByUser, chainVars
<1>6. CASE UNCHANGED vars
  BY <1>6 DEF vars, chainVars
<1>7. QED
  BY <1>1, <1>2, <1>3, <1>4, <1>5, <1>6 DEF Next

\* A 404 for an output is answered only while the indexer does not serve it.
LEMMA DoubtIsAnswered ==
    ASSUME UnlockInv, [Next]_vars, NEW l \in Lock, chain[l] = "known",
           NEW p \in Pass, doubt[p] # l
    PROVE  doubt'[p] # l
<1> USE DEF UnlockInv
<1>0. l # NoLock /\ doubt \in [Pass -> Lock \cup {NoLock}]
  BY NoLockAssumption DEF TypeOK
<1>1. ASSUME UNCHANGED doubt PROVE doubt'[p] # l
  BY <1>1
<1>2. CASE Env
  BY <1>2 DEF Env, CreateLock, CreatePhantom, Mature, Index, fetchVars, passVars
<1>3. CASE History
  BY <1>3, HistoryAside DEF fetchVars, passVars
<1>4. CASE Refresh
  <2>1. CASE FetchBegin \/ FetchDetects \/ FetchFails
    BY <2>1 DEF FetchBegin, FetchDetects, FetchFails, StartPass, passVars
  <2>2. ASSUME NEW q \in Pass, PassStep(q) PROVE doubt'[p] # l
    <3>1. CASE DetectNothing(q) \/ DetectSome(q) \/ Merge(q) \/ ShowMerged(q)
      BY <3>1 DEF DetectNothing, DetectSome, Merge, ShowMerged, EndPass
    <3>2. CASE MarkVoid(q)
      BY <1>0, <3>2 DEF MarkVoid
    <3>3. ASSUME NEW k \in Lock, AskVoid(q, k) PROVE doubt'[p] # l
      <4>1. CASE UNCHANGED doubt
        BY <4>1
      <4>2. CASE chain[k] \in {"absent", "fresh"} /\ doubt' = [doubt EXCEPT ![q] = k]
        BY <1>0, <4>2
      <4>3. QED
        BY <3>3, <4>1, <4>2 DEF AskVoid
    <3>4. ASSUME NEW k \in Lock, PersistOne(q, k) PROVE doubt'[p] # l
      BY <3>4 DEF PersistOne
    <3>5. QED
      BY <2>2, <3>1, <3>2, <3>3, <3>4 DEF PassStep
  <2>3. QED
    BY <1>4, <2>1, <2>2 DEF Refresh
<1>5. CASE Request
  BY <1>5 DEF Request, UserUnlock, AppUnlock, fetchVars, passVars
<1>6. ASSUME NEW u \in Attempt, Unlocking(u) PROVE doubt'[p] # l
  BY <1>6 DEF Unlocking, Lookup, BroadcastUnlock, Probe, RecordUnlock, MarkByApp,
              RefreshedByUser, fetchVars, passVars
<1>7. CASE UNCHANGED vars
  BY <1>7 DEF vars, fetchVars, passVars
<1>8. QED
  BY <1>2, <1>3, <1>4, <1>5, <1>6, <1>7 DEF Next

LEMMA StepKeepsSafe ==
    ASSUME UnlockInv, UnlockInv', NewsIsTrue, [Next]_vars, NEW l \in Lock, Safe(l)
    PROVE  Safe(l)' \/ chain'[l] = "spent"
<1>1. chain'[l] \in {"known", "spent"}
  BY ServedStays DEF Safe
<1>2. \A p \in Pass : doubt'[p] # l
  BY DoubtIsAnswered DEF Safe
<1>3. row'[l] # "closed"
  BY ClosedForAReason DEF Safe
<1>4. QED
  BY <1>1, <1>2, <1>3 DEF Safe

\* A lock that the indexer serves as unspent, and about which no pass holds an older 404
\* (lockReconciliation.ts), keeps its row until its output is spent, whatever passes,
\* histories and unlocks go on, with whatever rows they were given.
THEOREM TimeLocksKeepLive == Spec => LiveLocksStayListed
<1>1. Init => NewsIsTrue
  BY DEF Init, NewsIsTrue, At
<1>2. UnlockInv /\ UnlockInv' /\ NewsIsTrue /\ [Next]_vars => NewsIsTrue'
  BY NewsStep
<1>3. UnlockInv /\ UnlockInv' /\ NewsIsTrue /\ [Next]_vars =>
        [\A l \in Lock : Safe(l) => Safe(l)' \/ chain'[l] = "spent"]_vars
  BY StepKeepsSafe
<1>4. QED
  BY <1>1, <1>2, <1>3, UnlockInvariant, PTL DEF Spec, LiveLocksStayListed

-----------------------------------------------------------------------------
(* The map of unlocks in flight.                                            *)
(*                                                                          *)
(* An entry stays exactly as long as the operation that made it, so nobody  *)
(* waits on a promise without an operation that will settle it, and no      *)
(* entry is left behind to refuse what is asked later.                      *)

\* Every output of the map is being unlocked by an application.
MapIsServed == \A l \in inflight : \E b \in App : Unlocks(b) /\ goal[b] = l

\* Who waits has its output in the map.
WaitersInMap == \A a \in App : stage[a] = "waiting" => goal[a] \in inflight

\* The map stays within MAX_INFLIGHT_UNLOCKS.
MapIsBounded == IsFiniteSet(inflight) /\ Cardinality(inflight) <= MaxInflight

MapInv == MapIsServed /\ WaitersInMap /\ MapIsBounded

\* What a step does to the map: nothing, a request, or the end of an operation.
MapAside ==
    /\ UNCHANGED inflight
    /\ \A a \in App : /\ goal'[a] = goal[a]
                      /\ Unlocks(a)' <=> Unlocks(a)
                      /\ stage'[a] = "waiting" <=> stage[a] = "waiting"

\* An unlock that moves between two stages, neither of them a stage of waiting.
LEMMA GotoIsAside ==
    ASSUME UnlockInv, NEW u \in Attempt, NEW s, Goto(u, s), UNCHANGED <<goal, inflight>>,
           u \in App => Unlocks(u) /\ s \in {"lookup", "broadcast", "probe", "record", "mark"}
    PROVE  MapAside
<1>1. stage' = [stage EXCEPT ![u] = s] /\ DOMAIN stage = Attempt
  BY DEF Goto, UnlockInv, TypeOK
<1>2. \A a \in App : a \in Attempt
  BY DEF Attempt
<1>3. QED BY <1>1, <1>2 DEF MapAside, Unlocks

LEMMA SuccessIsAside ==
    ASSUME UnlockInv, NEW u \in Attempt, stage[u] \in {"probe", "record"}, UnlockSucceeds(u)
    PROVE  MapAside
<1>1. UNCHANGED <<goal, inflight>> /\ (u \in App => Unlocks(u) /\ u \notin User)
  BY AttemptAssumption DEF UnlockSucceeds, Unlocks
<1>2. PICK s : Goto(u, s) /\ (u \notin User => s = "mark")
  BY DEF UnlockSucceeds
<1>3. QED BY <1>1, <1>2, GotoIsAside

LEMMA MapSteps ==
    ASSUME UnlockInv, [Next]_vars
    PROVE  \/ MapAside
           \/ \E a \in App, l \in Lock : AppUnlock(a, l)
           \/ \E a \in App : \E ans, threw : Unlocks(a) /\ EndAppUnlock(a, ans, threw)
<1> DEFINE Ends == \E a \in App : \E ans, threw : Unlocks(a) /\ EndAppUnlock(a, ans, threw)
<1>0. ASSUME UNCHANGED tryVars PROVE MapAside
  BY <1>0 DEF tryVars, MapAside, Unlocks
<1>1. ASSUME NEW l \in Lock,
             CreateLock(l) \/ CreatePhantom(l) \/ Mature(l) \/ Index(l)
      PROVE  UNCHANGED tryVars
  BY <1>1 DEF CreateLock, CreatePhantom, Mature, Index
<1>b. CASE History
  BY <1>0, <1>b, HistoryAside
<1>2. CASE Refresh
  <2>1. UNCHANGED tryVars
    BY <1>2, RefreshAside
  <2>2. QED BY <2>1, <1>0
<1>3. ASSUME NEW l \in Lock, NEW u \in Attempt, UserUnlock(u, l) PROVE MapAside
  <2>1. u \notin App /\ UNCHANGED inflight
    BY <1>3, AttemptAssumption DEF UserUnlock
  <2>2. /\ stage' = [stage EXCEPT ![u] = "broadcast"] /\ goal' = [goal EXCEPT ![u] = l]
        /\ DOMAIN stage = Attempt /\ DOMAIN goal = Attempt
    BY <1>3 DEF UserUnlock, Goto, UnlockInv, TypeOK
  <2>3. \A a \in App : a \in Attempt /\ a # u
    BY <2>1 DEF Attempt
  <2>4. QED BY <2>1, <2>2, <2>3 DEF MapAside, Unlocks
<1>4. ASSUME NEW l \in Lock, NEW u \in Attempt, AppUnlock(u, l)
      PROVE  \E a \in App : AppUnlock(a, l)
  BY <1>4 DEF AppUnlock
<1>5. ASSUME NEW u \in Attempt, Lookup(u) PROVE MapAside \/ Ends
  <2>1. u \in App /\ Unlocks(u)
    BY <1>5 DEF Lookup, UnlockInv, UnlockCore, UserStages, Unlocks, Attempt
  <2>2. CASE Goto(u, "broadcast") /\ UNCHANGED <<goal, inflight>>
    BY <2>1, <2>2, GotoIsAside
  <2>3. QED BY <1>5, <2>1, <2>2 DEF Lookup
<1>6. ASSUME NEW u \in Attempt, BroadcastUnlock(u) PROVE MapAside
  <2>1. \E s \in {"record", "probe"} : Goto(u, s)
    BY <1>6 DEF BroadcastUnlock
  <2>2. UNCHANGED <<goal, inflight>> /\ Unlocks(u)
    BY <1>6 DEF BroadcastUnlock, Unlocks
  <2>3. QED BY <2>1, <2>2, GotoIsAside
<1>7. ASSUME NEW u \in Attempt, Probe(u) PROVE MapAside \/ Ends
  <2>1. stage[u] = "probe" /\ Unlocks(u)
    BY <1>7 DEF Probe, Unlocks
  <2>2. CASE UnlockSucceeds(u)
    BY <2>1, <2>2, SuccessIsAside
  <2>3. CASE UnlockFails(u)
    <3>1. CASE u \in User
      <4>1. Goto(u, "idle") /\ UNCHANGED <<goal, inflight>> /\ u \notin App
        BY <2>3, <3>1, AttemptAssumption DEF UnlockFails
      <4>2. QED BY <4>1, GotoIsAside
    <3>2. CASE u \notin User
      BY <2>1, <2>3, <3>2 DEF UnlockFails, Attempt
    <3>3. QED BY <3>1, <3>2
  <2>4. QED BY <1>7, <2>2, <2>3 DEF Probe
<1>8. ASSUME NEW u \in Attempt, RecordUnlock(u) PROVE MapAside
  BY <1>8, SuccessIsAside DEF RecordUnlock
<1>9. ASSUME NEW u \in Attempt, MarkByApp(u) PROVE Ends
  <2>1. u \in App /\ Unlocks(u)
    BY <1>9 DEF MarkByApp, UnlockInv, UnlockCore, UserStages, Unlocks, Attempt
  <2>2. QED BY <1>9, <2>1 DEF MarkByApp
<1>10. ASSUME NEW u \in Attempt, RefreshedByUser(u) PROVE MapAside
  <2>1. u \notin App /\ Goto(u, "idle") /\ UNCHANGED <<goal, inflight>>
    BY <1>10 DEF RefreshedByUser, UnlockInv, UnlockCore, AppStages
  <2>2. QED BY <2>1, GotoIsAside
<1>11. CASE UNCHANGED vars
  BY <1>0, <1>11 DEF vars
<1>12. QED
  BY <1>0, <1>b, <1>1, <1>2, <1>3, <1>4, <1>5, <1>6, <1>7, <1>8, <1>9, <1>10, <1>11
     DEF Next, Env, Request, Unlocking

LEMMA NextKeepsMap == UnlockInv /\ MapInv /\ [Next]_vars => MapInv'
<1> SUFFICES ASSUME UnlockInv, MapInv, [Next]_vars PROVE MapInv'
  OBVIOUS
<1>0. DOMAIN stage = Attempt /\ DOMAIN goal = Attempt /\ App \subseteq Attempt
  BY DEF UnlockInv, TypeOK, Attempt
<1>1. CASE MapAside
  BY <1>1 DEF MapAside, MapInv, MapIsServed, WaitersInMap, MapIsBounded
<1>2. ASSUME NEW a \in App, NEW l \in Lock, AppUnlock(a, l) PROVE MapInv'
  <2>1. /\ stage[a] = "idle" /\ goal' = [goal EXCEPT ![a] = l]
        /\ \/ l \in inflight /\ Goto(a, "waiting") /\ UNCHANGED inflight
           \/ UNCHANGED <<stage, inflight>>
           \/ /\ l \notin inflight /\ Cardinality(inflight) < MaxInflight
              /\ Goto(a, "lookup") /\ inflight' = inflight \cup {l}
    BY <1>2 DEF AppUnlock
  <2>2. \A b \in App : b # a => goal'[b] = goal[b] /\ stage'[b] = stage[b]
    BY <1>0, <2>1 DEF Goto
  <2>3. \A b \in App : Unlocks(b) => b # a /\ Unlocks(b)' /\ goal'[b] = goal[b]
    BY <2>1, <2>2 DEF Unlocks
  <2>4. goal'[a] = l
    BY <1>0, <2>1
  <2>5. \A k \in inflight : \E b \in App : Unlocks(b)' /\ goal'[b] = k
    BY <2>3 DEF MapInv, MapIsServed
  <2>6. CASE l \in inflight /\ Goto(a, "waiting") /\ UNCHANGED inflight
    BY <2>2, <2>4, <2>5, <2>6 DEF MapInv, MapIsServed, WaitersInMap, MapIsBounded
  <2>7. CASE UNCHANGED <<stage, inflight>>
    BY <2>1, <2>2, <2>5, <2>7 DEF MapInv, MapIsServed, WaitersInMap, MapIsBounded
  <2>8. CASE /\ l \notin inflight /\ Cardinality(inflight) < MaxInflight
             /\ Goto(a, "lookup") /\ inflight' = inflight \cup {l}
    <3>1. stage'[a] = "lookup" /\ Unlocks(a)'
      BY <1>0, <2>8 DEF Goto, Unlocks
    <3>2. MapIsServed' /\ WaitersInMap'
      BY <2>2, <2>4, <2>5, <2>8, <3>1 DEF MapInv, MapIsServed, WaitersInMap
    <3>3. /\ IsFiniteSet(inflight') /\ Cardinality(inflight') = Cardinality(inflight) + 1
          /\ Cardinality(inflight) \in Nat
      BY <2>8, FS_AddElement, FS_CardinalityType DEF MapInv, MapIsBounded
    <3>4. Cardinality(inflight') <= MaxInflight
      BY <2>8, <3>3, InflightAssumption
    <3>5. QED BY <3>2, <3>3, <3>4 DEF MapInv, MapIsBounded
  <2>9. QED BY <2>1, <2>6, <2>7, <2>8
<1>3. ASSUME NEW a \in App, NEW ans, NEW threw, Unlocks(a), EndAppUnlock(a, ans, threw)
      PROVE  MapInv'
  <2>1. /\ inflight' = inflight \ {goal[a]} /\ UNCHANGED goal
        /\ stage' = [u \in Attempt |->
               IF u = a \/ u \in {b \in App : stage[b] = "waiting" /\ goal[b] = goal[a]}
               THEN "idle" ELSE stage[u]]
    BY <1>3 DEF EndAppUnlock
  <2>2. /\ stage'[a] = "idle"
        /\ \A b \in App : b # a => stage'[b] = IF stage[b] = "waiting" /\ goal[b] = goal[a]
                                              THEN "idle" ELSE stage[b]
    BY <1>0, <2>1
  <2>3. MapIsServed'
    <3> SUFFICES ASSUME NEW k \in inflight, k # goal[a]
                 PROVE  \E b \in App : Unlocks(b)' /\ goal[b] = k
      BY <2>1 DEF MapIsServed
    <3>1. PICK b \in App : Unlocks(b) /\ goal[b] = k
      BY DEF MapInv, MapIsServed
    <3>2. b # a /\ stage'[b] = stage[b]
      BY <2>2, <3>1
    <3>3. QED BY <3>1, <3>2 DEF Unlocks
  <2>4. WaitersInMap'
    <3> SUFFICES ASSUME NEW b \in App, stage'[b] = "waiting" PROVE goal[b] \in inflight'
      BY <2>1 DEF WaitersInMap
    <3>1. stage[b] = "waiting" /\ goal[b] # goal[a]
      BY <2>2
    <3>2. QED BY <2>1, <3>1 DEF MapInv, WaitersInMap
  <2>5. MapIsBounded'
    <3>1. IsFiniteSet(inflight') /\ Cardinality(inflight') <= Cardinality(inflight)
      BY <2>1, FS_Subset DEF MapInv, MapIsBounded
    <3>2. Cardinality(inflight) \in Nat /\ Cardinality(inflight') \in Nat
      BY <3>1, FS_CardinalityType DEF MapInv, MapIsBounded
    <3>3. QED BY <3>1, <3>2, InflightAssumption DEF MapInv, MapIsBounded
  <2>6. QED BY <2>3, <2>4, <2>5 DEF MapInv
<1>4. QED BY <1>1, <1>2, <1>3, MapSteps

\* Who waits waits for an application that unlocks the same output and is not waiting
\* itself; an entry of the map has its operation; and the map keeps its limit.
WaitersAreServed ==
    /\ \A a \in App : stage[a] = "waiting" =>
          \E b \in App : b # a /\ Unlocks(b) /\ goal[b] = goal[a]
    /\ \A l \in inflight : \E b \in App : Unlocks(b) /\ goal[b] = l
    /\ Cardinality(inflight) <= MaxInflight

\* No request of an application is left on a promise that nobody settles, and no entry
\* of inflightUnlocks outlives its operation (handlers.ts), for any number of
\* applications and outputs: the part of EveryAppAnswered that is a state property.
THEOREM UnlockWaitersServed == Spec => []WaitersAreServed
<1>1. Init => MapInv
  BY FS_EmptySet, InflightAssumption
     DEF Init, MapInv, MapIsServed, WaitersInMap, MapIsBounded, Attempt
<1>2. MapInv => WaitersAreServed
  <2> SUFFICES ASSUME MapInv, NEW a \in App, stage[a] = "waiting"
               PROVE  \E b \in App : b # a /\ Unlocks(b) /\ goal[b] = goal[a]
    BY DEF MapInv, MapIsServed, MapIsBounded, WaitersAreServed
  <2>1. PICK b \in App : Unlocks(b) /\ goal[b] = goal[a]
    BY DEF MapInv, MapIsServed, WaitersInMap
  <2>2. QED BY <2>1 DEF Unlocks
<1>3. QED BY UnlockInvariant, NextKeepsMap, <1>1, <1>2, PTL DEF Spec
=============================================================================
