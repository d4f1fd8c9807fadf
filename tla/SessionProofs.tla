--------------------------- MODULE SessionProofs ---------------------------
(***************************************************************************)
(* What is open of the wallet, and for whom: proofs about three modules    *)
(* whose state does not meet.                                              *)
(*                                                                         *)
(*   WalletSession  the parts of an open wallet agree, and nothing of it   *)
(*                  is left behind the lock screen                         *)
(*   AccountSwitch  the copies of the active account agree at rest, and    *)
(*                  the last request of the user decides                   *)
(*   SessionTokens  a client keeps up with the token that rotates, and a   *)
(*                  nonce is accepted once                                 *)
(***************************************************************************)
EXTENDS WalletSession, AccountSwitch, SessionTokens, TLAPS

-----------------------------------------------------------------------------
(* The counter of failed unlocks.                                           *)

\* The base, doubled up to eight times: 256 seconds at most.
LEMMA BackoffBounded ==
    ASSUME NEW e \in 0..8
    PROVE  Backoff[e] \in 0..256
<1> DEFINE Doubled(f) == [x \in 0..8 |-> IF x = 0 THEN BASE_LOCKOUT ELSE 2 * f[x - 1]]
           table == [x \in 0..8 |-> <<1, 2, 4, 8, 16, 32, 64, 128, 256>>[x + 1]]
<1>1. table = Doubled(table)
  <2>1. ASSUME NEW x \in 0..8
        PROVE  table[x] = IF x = 0 THEN BASE_LOCKOUT ELSE 2 * table[x - 1]
    <3>1. x \in {0, 1, 2, 3, 4, 5, 6, 7, 8}
      OBVIOUS
    <3>2. QED BY <3>1 DEF BASE_LOCKOUT
  <2>2. QED BY <2>1
<1>2. Backoff = Doubled(Backoff)
  <2>1. \E f : f = Doubled(f)
    BY <1>1
  <2>2. QED BY <2>1 DEF Backoff
<1> HIDE DEF table
<1>3. \A x \in 0..8 : Backoff[x] = IF x = 0 THEN BASE_LOCKOUT ELSE 2 * Backoff[x - 1]
  BY <1>2, Zenon
<1>4. /\ Backoff[0] = 1 /\ Backoff[1] = 2 /\ Backoff[2] = 4 /\ Backoff[3] = 8
      /\ Backoff[4] = 16 /\ Backoff[5] = 32 /\ Backoff[6] = 64
      /\ Backoff[7] = 128 /\ Backoff[8] = 256
  BY <1>3 DEF BASE_LOCKOUT
<1>5. e \in {0, 1, 2, 3, 4, 5, 6, 7, 8}
  OBVIOUS
<1>6. QED BY <1>4, <1>5

\* However many attempts there were, a lockout lasts five minutes at most.
LEMMA DurationBounded ==
    ASSUME NEW n \in Nat, n >= MAX_ATTEMPTS
    PROVE  Duration(n) \in 0..MAX_LOCKOUT
<1> DEFINE e == n - MAX_ATTEMPTS
<1>1. e \in Nat
  BY DEF MAX_ATTEMPTS
<1>2. CASE e < 9
  <2>1. Backoff[e] \in 0..256
    BY <1>1, <1>2, BackoffBounded
  <2>2. Duration(n) = Backoff[e]
    BY <1>2 DEF Duration
  <2>3. QED BY <2>1, <2>2 DEF MAX_LOCKOUT
<1>3. CASE e \in 9..60
  BY <1>3 DEF Duration, MAX_LOCKOUT
<1>4. CASE e > 60
  BY <1>1, <1>4 DEF Duration, MAX_LOCKOUT
<1>5. QED BY <1>1, <1>2, <1>3, <1>4

LEMMA FailureTyped ==
    ASSUME LimiterTypeOK, NEW n \in 1..2, RecordFailed(n)
    PROVE  LimiterTypeOK'
<1>1. Counted \in Nat /\ (lockout > 0 => Counted >= MAX_ATTEMPTS)
  BY DEF LimiterTypeOK, Counted
<1>2. lockout' \in 0..MAX_LOCKOUT
  BY <1>1, DurationBounded DEF RecordFailed, LimiterTypeOK
<1>3. QED BY <1>1, <1>2 DEF RecordFailed, LimiterTypeOK, MAX_ATTEMPTS

LEMMA LimiterStepTyped ==
    ASSUME LimiterTypeOK, Check \/ RecordSuccess \/ LockoutEnds \/ Forgets
    PROVE  LimiterTypeOK'
<1>1. CASE Check
  BY <1>1 DEF LimiterTypeOK, Check, Counted
<1>2. CASE RecordSuccess
  <2>1. attempts' = 0 /\ lockout' = 0 /\ recent' \in BOOLEAN
    BY <1>2 DEF RecordSuccess
  <2>2. QED BY <2>1 DEF LimiterTypeOK, MAX_LOCKOUT
<1>3. CASE LockoutEnds \/ Forgets
  <2>1. attempts' = attempts /\ lockout' = 0 /\ recent' \in BOOLEAN
    BY <1>3 DEF LimiterTypeOK, LockoutEnds, Forgets
  <2>2. QED BY <2>1 DEF LimiterTypeOK, MAX_LOCKOUT
<1>4. QED BY <1>1, <1>2, <1>3

-----------------------------------------------------------------------------
(* What is open of the wallet.                                              *)

BooleansTyped ==
    /\ stored \in BOOLEAN /\ rows \in BOOLEAN /\ protected \in BOOLEAN
    /\ shown \in BOOLEAN /\ locked \in BOOLEAN /\ session \in BOOLEAN /\ native \in BOOLEAN
    /\ armed \in BOOLEAN /\ idle \in BOOLEAN /\ added \in BOOLEAN
    /\ late \in BOOLEAN /\ clearFailed \in BOOLEAN

LockersTyped == locking \in [Locker -> {"none", "clear", "flag"}]

StepsTyped ==
    /\ boot \in {"load", "keys", "done"}
    /\ making \in {"none", "save", "rows", "keys", "show"}
    /\ unlocking \in {"none", "check", "decrypt", "store"}
    /\ moving \in {"none", "derive", "store", "show"}
    /\ erasing \in {"none", "storage", "keys", "database", "flags"}

CountsTyped == wrong \in 0..MaxWrong /\ starts \in 0..MaxStarts

LEMMA TypeParts ==
    TypeOK <=> LimiterTypeOK /\ BooleansTyped /\ LockersTyped /\ StepsTyped /\ CountsTyped
BY DEF TypeOK, BooleansTyped, LockersTyped, StepsTyped, CountsTyped

LEMMA TypePartsNext ==
    TypeOK' <=> LimiterTypeOK' /\ BooleansTyped' /\ LockersTyped' /\ StepsTyped' /\ CountsTyped'
BY DEF TypeOK, BooleansTyped, LockersTyped, StepsTyped, CountsTyped

LEMMA LimiterNext ==
    ASSUME LimiterTypeOK, [Next]_sessionVars
    PROVE  LimiterTypeOK'
<1> USE DEF countVars
<1>0. ASSUME UNCHANGED limiterVars PROVE LimiterTypeOK'
  BY <1>0 DEF limiterVars, LimiterTypeOK
<1>1. CASE CheckUnlock \/ UnlockShows \/ WaitLockout \/ WaitForgets
  BY <1>0, <1>1, LimiterStepTyped DEF CheckUnlock, UnlockShows, WaitLockout, WaitForgets
<1>2. CASE UnlockFails
  BY <1>2, FailureTyped DEF UnlockFails
<1>3. CASE \/ BootLoads \/ BootStoresKeys \/ Restart
           \/ Make \/ MakeSaves \/ MakeRows \/ MakeStoresKeys \/ MakeShows
  BY <1>0, <1>3 DEF BootLoads, BootStoresKeys, Restart, Make, MakeSaves, MakeRows, MakeStoresKeys,
              MakeShows, BootUnchanged, MakeUnchanged
<1>4. ASSUME NEW k \in Locker,
             LockNow(k) \/ AutoLock(k) \/ HiddenLock(k) \/ ClearKeys(k) \/ LockFlags(k)
      PROVE  LimiterTypeOK'
  BY <1>0, <1>4 DEF LockNow, AutoLock, HiddenLock, BeginLock, ClearKeys, LockFlags, LockUnchanged
<1>5. CASE \/ BeginUnlock \/ UnlockStoresKeys \/ BeginMove \/ MoveDerives \/ MoveStoresKeys
           \/ MoveShows \/ AddPassword \/ SetMinutes \/ BeginErase \/ EraseStep
           \/ GoIdle \/ UserActs
  BY <1>0, <1>5 DEF BeginUnlock, UnlockStoresKeys, BeginMove, MoveDerives, MoveStoresKeys,
              MoveShows, AddPassword, SetMinutes, BeginErase, EraseStep, GoIdle, UserActs,
              MoveUnchanged, EraseUnchanged
<1>6. CASE UNCHANGED sessionVars
  BY <1>0, <1>6 DEF sessionVars
<1>7. QED BY <1>1, <1>2, <1>3, <1>4, <1>5, <1>6 DEF Next

LEMMA BooleansNext ==
    ASSUME BooleansTyped, [Next]_sessionVars
    PROVE  BooleansTyped'
<1> USE DEF BooleansTyped, openVars, timerVars, diskVars, stepVars, countVars, Rearm
<1>1. CASE BootLoads
  <2>1. UNCHANGED <<stored, protected, late, clearFailed>>
    BY <1>1 DEF BootLoads, BootUnchanged
  <2>2. rows' \in BOOLEAN /\ native' \in BOOLEAN
    BY <1>1 DEF BootLoads
  <2>3. shown' \in BOOLEAN /\ locked' \in BOOLEAN /\ session' \in BOOLEAN
    BY <1>1 DEF BootLoads
  <2>4. armed' \in BOOLEAN /\ idle' \in BOOLEAN /\ added' \in BOOLEAN
    BY <1>1 DEF BootLoads
  <2>5. QED BY <2>1, <2>2, <2>3, <2>4
<1>2. CASE BootStoresKeys
  BY <1>2 DEF BootStoresKeys
<1>3. CASE Restart
  BY <1>3 DEF Restart
<1>4. CASE Make
  BY <1>4 DEF Make, MakeUnchanged
<1>5. CASE MakeSaves
  BY <1>5 DEF MakeSaves, MakeUnchanged
<1>6. CASE MakeRows
  BY <1>6 DEF MakeRows, MakeUnchanged
<1>7. CASE MakeStoresKeys
  BY <1>7 DEF MakeStoresKeys, MakeUnchanged
<1>8. CASE MakeShows
  BY <1>8 DEF MakeShows, MakeUnchanged
<1>9. CASE BeginUnlock
  BY <1>9 DEF BeginUnlock, UnlockUnchanged
<1>10. CASE CheckUnlock
  BY <1>10 DEF CheckUnlock, UnlockUnchanged
<1>11. CASE UnlockFails
  BY <1>11 DEF UnlockFails, UnlockUnchanged
<1>12. CASE UnlockShows
  BY <1>12 DEF UnlockShows, UnlockUnchanged
<1>13. CASE UnlockStoresKeys
  BY <1>13 DEF UnlockStoresKeys, UnlockUnchanged
<1>14. CASE BeginMove
  BY <1>14 DEF BeginMove, MoveUnchanged
<1>15. CASE MoveDerives
  BY <1>15 DEF MoveDerives, MoveUnchanged
<1>16. CASE MoveStoresKeys
  BY <1>16 DEF MoveStoresKeys, MoveUnchanged
<1>17. CASE MoveShows
  BY <1>17 DEF MoveShows, MoveUnchanged
<1>18. CASE AddPassword
  BY <1>18 DEF AddPassword
<1>19. CASE SetMinutes
  BY <1>19 DEF SetMinutes
<1>20. CASE BeginErase
  BY <1>20 DEF BeginErase, EraseUnchanged
<1>21. CASE EraseStep
  <2>1. UNCHANGED <<shown, locked, session, timerVars>> /\ late' \in BOOLEAN
    BY <1>21 DEF EraseStep
  <2>2. stored' \in BOOLEAN /\ rows' \in BOOLEAN /\ protected' \in BOOLEAN
    BY <1>21 DEF EraseStep
  <2>3. native' \in BOOLEAN /\ clearFailed' \in BOOLEAN
    BY <1>21 DEF EraseStep
  <2>4. QED BY <2>1, <2>2, <2>3
<1>22. CASE GoIdle
  BY <1>22 DEF GoIdle, AsideUnchanged
<1>23. CASE UserActs
  BY <1>23 DEF UserActs, AsideUnchanged
<1>24. CASE WaitLockout
  BY <1>24 DEF WaitLockout, AsideUnchanged
<1>25. CASE WaitForgets
  BY <1>25 DEF WaitForgets, AsideUnchanged
<1>26. ASSUME NEW k \in Locker, LockNow(k) \/ AutoLock(k) \/ HiddenLock(k)
       PROVE  BooleansTyped'
  BY <1>26 DEF LockNow, AutoLock, HiddenLock, BeginLock, LockUnchanged
<1>27. ASSUME NEW k \in Locker, ClearKeys(k)
       PROVE  BooleansTyped'
  BY <1>27 DEF ClearKeys, LockUnchanged
<1>28. ASSUME NEW k \in Locker, LockFlags(k)
       PROVE  BooleansTyped'
  BY <1>28 DEF LockFlags, LockUnchanged
<1>29. CASE UNCHANGED sessionVars
  BY <1>29 DEF sessionVars
<1>30. QED BY <1>1, <1>2, <1>3, <1>4, <1>5, <1>6, <1>7, <1>8, <1>9, <1>10, <1>11, <1>12, <1>13, <1>14, <1>15, <1>16, <1>17, <1>18, <1>19, <1>20, <1>21, <1>22, <1>23, <1>24, <1>25, <1>26, <1>27, <1>28, <1>29 DEF Next

LEMMA LockersNext ==
    ASSUME LockersTyped, [Next]_sessionVars
    PROVE  LockersTyped'
<1> USE DEF LockersTyped
<1>0. ASSUME UNCHANGED locking PROVE LockersTyped'
  BY <1>0
<1>1. ASSUME NEW k \in Locker,
             LockNow(k) \/ AutoLock(k) \/ HiddenLock(k) \/ ClearKeys(k) \/ LockFlags(k)
      PROVE  LockersTyped'
  BY <1>1 DEF LockNow, AutoLock, HiddenLock, BeginLock, ClearKeys, LockFlags
<1>2. CASE Restart
  BY <1>2 DEF Restart
<1>3. CASE \/ BootLoads \/ BootStoresKeys
           \/ Make \/ MakeSaves \/ MakeRows \/ MakeStoresKeys \/ MakeShows
  BY <1>0, <1>3 DEF BootLoads, BootStoresKeys, BootUnchanged, Make, MakeSaves, MakeRows,
              MakeStoresKeys, MakeShows, MakeUnchanged
<1>4. CASE \/ BeginUnlock \/ CheckUnlock \/ UnlockFails \/ UnlockShows \/ UnlockStoresKeys
           \/ BeginMove \/ MoveDerives \/ MoveStoresKeys \/ MoveShows
  BY <1>0, <1>4 DEF BeginUnlock, CheckUnlock, UnlockFails, UnlockShows, UnlockStoresKeys,
              UnlockUnchanged, BeginMove, MoveDerives, MoveStoresKeys, MoveShows, MoveUnchanged
<1>5. CASE \/ AddPassword \/ SetMinutes \/ BeginErase \/ EraseStep
           \/ GoIdle \/ UserActs \/ WaitLockout \/ WaitForgets
  BY <1>0, <1>5 DEF AddPassword, SetMinutes, BeginErase, EraseStep, EraseUnchanged, stepVars,
              GoIdle, UserActs, WaitLockout, WaitForgets, AsideUnchanged
<1>6. CASE UNCHANGED sessionVars
  BY <1>0, <1>6 DEF sessionVars, stepVars
<1>7. QED BY <1>1, <1>2, <1>3, <1>4, <1>5, <1>6 DEF Next

LEMMA StepsNext ==
    ASSUME StepsTyped, [Next]_sessionVars
    PROVE  StepsTyped'
<1> USE DEF StepsTyped
<1>1. CASE BootLoads \/ BootStoresKeys \/ Restart
  BY <1>1 DEF BootLoads, BootStoresKeys, Restart, BootUnchanged
<1>2. CASE Make \/ MakeSaves \/ MakeRows \/ MakeStoresKeys \/ MakeShows
  BY <1>2 DEF Make, MakeSaves, MakeRows, MakeStoresKeys, MakeShows, MakeUnchanged
<1>3. ASSUME NEW k \in Locker,
             LockNow(k) \/ AutoLock(k) \/ HiddenLock(k) \/ ClearKeys(k) \/ LockFlags(k)
      PROVE  StepsTyped'
  BY <1>3 DEF LockNow, AutoLock, HiddenLock, BeginLock, ClearKeys, LockFlags, LockUnchanged
<1>4. CASE BeginUnlock \/ CheckUnlock \/ UnlockFails \/ UnlockShows \/ UnlockStoresKeys
  BY <1>4 DEF BeginUnlock, CheckUnlock, UnlockFails, UnlockShows, UnlockStoresKeys,
              UnlockUnchanged
<1>5. CASE BeginMove \/ MoveDerives \/ MoveStoresKeys \/ MoveShows
  BY <1>5 DEF BeginMove, MoveDerives, MoveStoresKeys, MoveShows, MoveUnchanged
<1>6. CASE BeginErase \/ EraseStep
  BY <1>6 DEF BeginErase, EraseStep, EraseUnchanged
<1>7. CASE \/ AddPassword \/ SetMinutes \/ GoIdle \/ UserActs \/ WaitLockout \/ WaitForgets
           \/ UNCHANGED sessionVars
  BY <1>7 DEF AddPassword, SetMinutes, GoIdle, UserActs, WaitLockout, WaitForgets,
              AsideUnchanged, stepVars, sessionVars
<1>8. QED BY <1>1, <1>2, <1>3, <1>4, <1>5, <1>6, <1>7 DEF Next

LEMMA CountsNext ==
    ASSUME CountsTyped, [Next]_sessionVars
    PROVE  CountsTyped'
<1> USE SessionAssumption DEF CountsTyped, countVars
<1>0. ASSUME UNCHANGED countVars PROVE CountsTyped'
  BY <1>0
<1>1. CASE Restart \/ Make \/ BeginErase \/ UnlockFails \/ UnlockShows
  <2>1. starts' = starts \/ (starts < MaxStarts /\ starts' = starts + 1)
    BY <1>1 DEF Restart, Make, BeginErase, UnlockFails, UnlockShows, UnlockUnchanged
  <2>2. wrong' \in {wrong, 0} \/ (wrong < MaxWrong /\ wrong' = wrong + 1)
    BY <1>1 DEF Restart, Make, MakeUnchanged, BeginErase, EraseUnchanged, UnlockFails, UnlockShows
  <2>3. QED BY <2>1, <2>2
<1>2. CASE BootLoads \/ BootStoresKeys \/ MakeSaves \/ MakeRows \/ MakeStoresKeys \/ MakeShows
  BY <1>0, <1>2 DEF BootLoads, BootStoresKeys, BootUnchanged, MakeSaves, MakeRows,
              MakeStoresKeys, MakeShows, MakeUnchanged
<1>3. ASSUME NEW k \in Locker,
             LockNow(k) \/ AutoLock(k) \/ HiddenLock(k) \/ ClearKeys(k) \/ LockFlags(k)
      PROVE  CountsTyped'
  BY <1>0, <1>3 DEF LockNow, AutoLock, HiddenLock, BeginLock, ClearKeys, LockFlags, LockUnchanged
<1>4. CASE \/ BeginUnlock \/ CheckUnlock \/ UnlockStoresKeys
           \/ BeginMove \/ MoveDerives \/ MoveStoresKeys \/ MoveShows
  BY <1>0, <1>4 DEF BeginUnlock, CheckUnlock, UnlockStoresKeys, UnlockUnchanged, BeginMove,
              MoveDerives, MoveStoresKeys, MoveShows, MoveUnchanged
<1>5. CASE \/ AddPassword \/ SetMinutes \/ EraseStep
           \/ GoIdle \/ UserActs \/ WaitLockout \/ WaitForgets
  BY <1>0, <1>5 DEF AddPassword, SetMinutes, EraseStep, EraseUnchanged, GoIdle, UserActs,
              WaitLockout, WaitForgets, AsideUnchanged
<1>6. CASE UNCHANGED sessionVars
  BY <1>0, <1>6 DEF sessionVars
<1>7. QED BY <1>1, <1>2, <1>3, <1>4, <1>5, <1>6 DEF Next

\* The variables of the wallet's session stay in their types, the counter of failed
\* unlocks and its lockout among them (useWalletLock, rate_limiter.rs).
THEOREM SessionTyped == Spec => []TypeOK
<1>1. Init => TypeOK
  <2> SUFFICES ASSUME Init PROVE TypeOK
    OBVIOUS
  <2>1. LimiterTypeOK
    <3>1. attempts = 0 /\ lockout = 0 /\ recent \in BOOLEAN
      BY DEF Init, LimiterInit
    <3>2. QED BY <3>1 DEF LimiterTypeOK, MAX_LOCKOUT
  <2>2. BooleansTyped
    BY Zenon DEF Init, BooleansTyped
  <2>3. LockersTyped /\ StepsTyped /\ CountsTyped
    BY SessionAssumption DEF Init, LockersTyped, StepsTyped, CountsTyped
  <2>4. QED BY <2>1, <2>2, <2>3, TypeParts
<1>2. TypeOK /\ [Next]_sessionVars => TypeOK'
  BY TypeParts, TypePartsNext, LimiterNext, BooleansNext, LockersNext, StepsNext, CountsNext
<1>3. QED BY <1>1, <1>2, PTL DEF Spec

(***************************************************************************)
(* While the start loads, nothing is open and nothing is under way. A      *)
(* wallet that is shown is stored, not locked, and no lock is on its way.  *)
(* One that is not shown has no session password; its native keys are gone *)
(* once the lock screen shows, or once lockWallet is about to show it.     *)
(***************************************************************************)
BeforeLoad ==
    boot = "load" =>
        /\ ~shown /\ ~locked /\ ~session /\ ~native /\ ~armed
        /\ making = "none" /\ unlocking = "none" /\ moving = "none" /\ erasing = "none"
        /\ ~Locking

OpenIsStored == shown => ~locked /\ (stored \/ rows) /\ ~Locking

ClosedForgets ==
    ~shown => /\ ~session
              /\ locked \/ (\E k \in Locker : locking[k] = "flag") => (native => clearFailed)

AgreeInv == BeforeLoad /\ (~late => OpenIsStored /\ ClosedForgets)

LEMMA AgreeNext ==
    ASSUME TypeOK, AgreeInv, [Next]_sessionVars
    PROVE  AgreeInv'
<1> USE DEF AgreeInv, BeforeLoad, OpenIsStored, ClosedForgets, Locking, openVars, timerVars, diskVars, stepVars
<1>0. LockersTyped
  BY TypeParts
<1>1. CASE BootLoads
  <2>1. UNCHANGED <<late, clearFailed, locking, stored>> /\ boot' # "load" /\ ~Locking
    BY <1>1 DEF BootLoads, BootUnchanged
  <2>2. CASE shown' = shown
    <3>1. UNCHANGED <<shown, session, native>> /\ ~shown'
      BY <1>1, <2>2 DEF BootLoads
    <3>2. ~session' /\ ~native' /\ ~Locking'
      BY <1>1, <2>1, <3>1 DEF BootLoads
    <3>3. QED BY <2>1, <3>1, <3>2
  <2>3. CASE shown' # shown
    <3>1. shown' /\ locked' = locked /\ ~locked /\ stored
      BY <1>1, <2>3 DEF BootLoads
    <3>2. QED BY <2>1, <3>1
  <2>4. QED BY <2>2, <2>3
<1>2. CASE BootStoresKeys
  BY <1>2 DEF BootStoresKeys
<1>3. CASE Restart
  BY <1>3 DEF Restart
<1>4. CASE Make
  <2>1. boot = "done" /\ UNCHANGED <<boot, locking, openVars, diskVars, late, clearFailed>>
    BY <1>4 DEF Make, MakeUnchanged, SetupScreen
  <2>2. QED BY <2>1
<1>5. CASE MakeSaves
  BY <1>5 DEF MakeSaves, MakeUnchanged
<1>6. CASE MakeRows
  <2>1. boot # "load" /\ UNCHANGED <<boot, locking, openVars, stored, late, clearFailed>>
    BY <1>6 DEF MakeRows, MakeUnchanged
  <2>2. rows => rows'
    BY <1>6 DEF MakeRows
  <2>3. QED BY <2>1, <2>2
<1>7. CASE MakeStoresKeys
  BY <1>7 DEF MakeStoresKeys, MakeUnchanged, SetupScreen
<1>8. CASE MakeShows
  BY <1>8 DEF MakeShows, MakeUnchanged, SetupScreen
<1>9. CASE BeginUnlock
  BY <1>9 DEF BeginUnlock, UnlockUnchanged, LockScreen
<1>10. CASE CheckUnlock
  BY <1>10 DEF CheckUnlock, UnlockUnchanged
<1>11. CASE UnlockFails
  BY <1>11 DEF UnlockFails, UnlockUnchanged
<1>12. CASE UnlockShows
  BY <1>12 DEF UnlockShows, UnlockUnchanged, LockScreen
<1>13. CASE UnlockStoresKeys
  BY <1>13 DEF UnlockStoresKeys, UnlockUnchanged
<1>14. CASE BeginMove
  BY <1>14 DEF BeginMove, MoveUnchanged
<1>15. CASE MoveDerives
  BY <1>15 DEF MoveDerives, MoveUnchanged
<1>16. CASE MoveStoresKeys
  BY <1>16 DEF MoveStoresKeys, MoveUnchanged
<1>17. CASE MoveShows
  BY <1>17 DEF MoveShows, MoveUnchanged
<1>18. CASE AddPassword
  BY <1>18 DEF AddPassword
<1>19. CASE SetMinutes
  BY <1>19 DEF SetMinutes
<1>20. CASE BeginErase
  BY <1>20 DEF BeginErase, EraseUnchanged
<1>21. CASE EraseStep
  <2>1. boot # "load" /\ UNCHANGED <<boot, locking, shown, locked, session>>
    BY <1>21 DEF EraseStep, EraseUnchanged
  <2>2. late' = (late \/ shown)
    BY <1>21 DEF EraseStep
  <2>3. (native => clearFailed) => (native' => clearFailed')
    BY <1>21 DEF EraseStep
  <2>4. QED BY <2>1, <2>2, <2>3
<1>22. CASE GoIdle
  BY <1>22 DEF GoIdle, AsideUnchanged
<1>23. CASE UserActs
  BY <1>23 DEF UserActs, AsideUnchanged
<1>24. CASE WaitLockout
  BY <1>24 DEF WaitLockout, AsideUnchanged
<1>25. CASE WaitForgets
  BY <1>25 DEF WaitForgets, AsideUnchanged
<1>26. ASSUME NEW k \in Locker, LockNow(k) \/ AutoLock(k) \/ HiddenLock(k)
       PROVE  AgreeInv'
  <2>1. boot # "load" /\ BeginLock(k)
    BY <1>26 DEF LockNow, AutoLock, HiddenLock
  <2>2. /\ UNCHANGED <<boot, locked, native, late, clearFailed>>
        /\ ~shown' /\ ~session'
    BY <2>1 DEF BeginLock, LockUnchanged
  <2>3. ASSUME NEW j \in Locker, locking'[j] = "flag" PROVE locking[j] = "flag"
    BY <1>0, <2>1, <2>3 DEF BeginLock, LockersTyped
  <2>4. QED BY <2>1, <2>2, <2>3
<1>27. ASSUME NEW k \in Locker, ClearKeys(k)
       PROVE  AgreeInv'
  BY <1>0, <1>27 DEF ClearKeys, LockUnchanged, LockersTyped
<1>28. ASSUME NEW k \in Locker, LockFlags(k)
       PROVE  AgreeInv'
  BY <1>0, <1>28 DEF LockFlags, LockUnchanged, LockersTyped
<1>29. CASE UNCHANGED sessionVars
  BY <1>29 DEF sessionVars
<1>30. QED BY <1>1, <1>2, <1>3, <1>4, <1>5, <1>6, <1>7, <1>8, <1>9, <1>10, <1>11, <1>12, <1>13, <1>14, <1>15, <1>16, <1>17, <1>18, <1>19, <1>20, <1>21, <1>22, <1>23, <1>24, <1>25, <1>26, <1>27, <1>28, <1>29 DEF Next

\* The parts agree, unless an operation came late: a wallet that is shown at rest is
\* stored and not locked, and behind the lock screen there is no session password and
\* there are no native keys but those a failed clear_keys left (useWalletLock.ts,
\* B-137), for any number of overlapping calls of lockWallet.
THEOREM SessionAgreement == Spec => []SessionAgrees
<1>1. Init => AgreeInv
  BY DEF Init, AgreeInv, BeforeLoad, OpenIsStored, ClosedForgets
<1>2. TypeOK /\ AgreeInv /\ [Next]_sessionVars => AgreeInv'
  BY AgreeNext
<1>3. AgreeInv => SessionAgrees
  BY DEF AgreeInv, OpenIsStored, ClosedForgets, SessionAgrees, LockScreen
<1>4. QED BY <1>1, <1>2, <1>3, SessionTyped, PTL DEF Spec

\* An open wallet with a password is timed; its password was not added without a timer.
TimerRuns == shown /\ protected /\ ~added /\ ~late => armed

LEMMA TimerNext == TypeOK /\ TimerRuns /\ [Next]_sessionVars => TimerRuns'
<1> SUFFICES ASSUME TypeOK, TimerRuns, [Next]_sessionVars PROVE TimerRuns'
  OBVIOUS
<1> USE DEF TimerRuns, openVars, timerVars, diskVars
<1>0. BooleansTyped
  BY TypeParts
<1>1. ASSUME BootLoads \/ MakeShows \/ UnlockShows \/ MoveShows \/ SetMinutes PROVE TimerRuns'
  <2>1. CASE Rearm(protected)
    <3>1. armed' = protected /\ (protected' = protected)
      BY <1>1, <2>1 DEF Rearm, BootLoads, MakeShows, UnlockShows, UnlockUnchanged, MoveShows,
                        MoveUnchanged, SetMinutes
    <3>2. QED BY <3>1
  <2>2. CASE BootLoads /\ UNCHANGED <<shown, armed, added, protected, late>>
    BY <2>2
  <2>3. QED
    BY <1>1, <2>1, <2>2 DEF BootLoads, BootUnchanged, MakeShows, UnlockShows, MoveShows, SetMinutes
<1>2. ASSUME Restart \/ BeginErase \/ \E k \in Locker : BeginLock(k) PROVE TimerRuns'
  BY <1>2 DEF Restart, BeginErase, BeginLock
<1>3. CASE AddPassword
  BY <1>3 DEF AddPassword, Rearm
<1>4. ASSUME MakeSaves \/ EraseStep PROVE TimerRuns'
  BY <1>0, <1>4 DEF MakeSaves, EraseStep, BooleansTyped
<1>5. ASSUME \/ BootStoresKeys \/ Make \/ MakeRows \/ MakeStoresKeys
             \/ BeginUnlock \/ CheckUnlock \/ UnlockFails \/ UnlockStoresKeys
             \/ BeginMove \/ MoveDerives \/ MoveStoresKeys
             \/ \E k \in Locker : ClearKeys(k) \/ LockFlags(k)
      PROVE  TimerRuns'
  <2>1. UNCHANGED <<shown, protected, armed, added>>
    BY <1>5 DEF BootStoresKeys, Make, MakeRows, MakeStoresKeys, BeginUnlock, CheckUnlock,
                UnlockFails, UnlockStoresKeys, UnlockUnchanged, BeginMove, MoveDerives,
                MoveStoresKeys, MoveUnchanged, ClearKeys, LockFlags, LockUnchanged
  <2>2. late => late'
    BY <1>5 DEF BootStoresKeys, Make, MakeRows, MakeStoresKeys, BeginUnlock, CheckUnlock,
                UnlockFails, UnlockStoresKeys, BeginMove, MoveDerives,
                MoveStoresKeys, ClearKeys, LockFlags
  <2>3. QED BY <2>1, <2>2
<1>6. ASSUME GoIdle \/ UserActs \/ WaitLockout \/ WaitForgets PROVE TimerRuns'
  BY <1>6 DEF GoIdle, UserActs, WaitLockout, WaitForgets, AsideUnchanged
<1>7. CASE UNCHANGED sessionVars
  BY <1>7 DEF sessionVars
<1>8. QED
  BY <1>1, <1>2, <1>3, <1>4, <1>5, <1>6, <1>7 DEF Next, LockNow, AutoLock, HiddenLock

\* What AutoLock(k) asks for.
MayAutoLock(k) == armed /\ idle /\ Followed /\ protected /\ locking[k] = "none"

OpenWalletMayLock == LeftOpen => \A k \in Locker : MayAutoLock(k)

\* Whenever an inactive user has left a wallet with a password open, its timer runs and
\* no earlier call of lockWallet stands in the way of the one the timer will make
\* (autoLock.ts, useWalletLock.ts), for any number of overlapping calls: the part of
\* AutoLockFires that is a state property.
THEOREM SessionCanAutoLock == Spec => []OpenWalletMayLock
<1>1. Init => AgreeInv /\ TimerRuns
  BY DEF Init, AgreeInv, BeforeLoad, OpenIsStored, ClosedForgets, TimerRuns
<1>2. TypeOK /\ AgreeInv /\ [Next]_sessionVars => AgreeInv'
  BY AgreeNext
<1>3. TypeOK /\ AgreeInv /\ TimerRuns => OpenWalletMayLock
  <2> SUFFICES ASSUME AgreeInv, TimerRuns, LeftOpen, NEW k \in Locker PROVE MayAutoLock(k)
    BY DEF OpenWalletMayLock
  <2>1. shown /\ protected /\ idle /\ armed /\ ~late
    BY DEF LeftOpen, TimerRuns
  <2>2. ~Locking
    BY <2>1 DEF AgreeInv, OpenIsStored
  <2>3. QED BY <2>1, <2>2 DEF MayAutoLock, Followed, Locking
<1>4. QED BY <1>1, <1>2, <1>3, TimerNext, SessionTyped, PTL DEF Spec

-----------------------------------------------------------------------------
(* The copies of the active account: types.                                 *)

Moved == {"expose", "preload"}
SwitchSteps == {"derive", "setdb", "password", "state", "store"} \cup Moved
CreateSteps == {"create", "store", "row"} \cup Moved

\* Past its first step an operation has an account to go to.
Targets ==
    /\ op = "switch" => pc \in SwitchSteps /\ target # NoAccount
    /\ op = "create" => pc \in CreateSteps /\ (pc # "create" => target # NoAccount)

SwitchTyped == SwitchTypeOK /\ Targets

LEMMA SwitchNextTyped == SwitchTyped /\ [SwitchNext]_switchVars => SwitchTyped'
<1> SUFFICES ASSUME SwitchTyped, [SwitchNext]_switchVars PROVE SwitchTyped'
  OBVIOUS
<1> USE SwitchAssumption
    DEF SwitchTyped, SwitchTypeOK, Targets, SwitchSteps, CreateSteps, Moved,
        dbVars, uiVars, opVars, delVars, askVars, readVars
<1>1. ASSUME NEW a \in Account, AskSwitch(a) \/ AskDelete(a) \/ RefreshApplies(a)
      PROVE  SwitchTyped'
  <2>1. CASE AskSwitch(a)
    BY <2>1 DEF AskSwitch
  <2>2. CASE AskDelete(a)
    BY <2>2 DEF AskDelete
  <2>3. CASE RefreshApplies(a)
    BY <2>3 DEF RefreshApplies
  <2>4. QED BY <1>1, <2>1, <2>2, <2>3
<1>2. CASE AskCreate
  BY <1>2 DEF AskCreate
<1>3. CASE RefreshReads
  BY <1>3 DEF RefreshReads
<1>4. CASE Derive
  BY <1>4 DEF Derive, Goto, EndSwitch
<1>5. CASE SetDb
  BY <1>5 DEF SetDb, Goto, EndSwitch, Activate
<1>6. CASE WithPassword
  BY <1>6 DEF WithPassword, Goto, EndSwitch, Activate
<1>7. CASE WithPasswordState
  BY <1>7 DEF WithPasswordState, Goto
<1>8. CASE StoreKeys
  BY <1>8 DEF StoreKeys
<1>9. CASE Expose
  BY <1>9 DEF Expose, Goto, End, EndSwitch, EndCreate, Kept
<1>10. CASE Preloaded
  BY <1>10 DEF Preloaded, End, EndSwitch, EndCreate, Kept
<1>11. CASE CreateRow
  BY <1>11 DEF CreateRow, EndCreate
<1>12. CASE ReadRow
  BY <1>12 DEF ReadRow, Goto, EndCreate
<1>13. CASE Deletion
  <2>1. CASE DeleteRows
    BY <2>1 DEF DeleteRows
  <2>2. CASE ActivateOther
    BY <2>2 DEF ActivateOther
  <2>3. CASE DeleteRefreshes
    BY <2>3 DEF DeleteRefreshes, EndDelete
  <2>4. CASE DeleteDerives
    BY <2>4 DEF DeleteDerives
  <2>5. CASE DeleteFindsNoKeys \/ DeleteEnds
    BY <2>5 DEF DeleteFindsNoKeys, DeleteEnds, EndDelete
  <2>6. QED BY <1>13, <2>1, <2>2, <2>3, <2>4, <2>5 DEF Deletion
<1>14. CASE UNCHANGED switchVars
  BY <1>14 DEF switchVars
<1>15. QED BY <1>1, <1>2, <1>3, <1>4, <1>5, <1>6, <1>7, <1>8, <1>9, <1>10, <1>11, <1>12,
              <1>13, <1>14 DEF SwitchNext, Operation

LEMMA InitSwitchTyped == SwitchInit => SwitchTyped
<1> SUFFICES ASSUME SwitchInit PROVE SwitchTyped
  OBVIOUS
<1>1. exists \subseteq Account /\ {active, rust, wallet, activeId, asked} \subseteq Account
  BY SwitchAssumption DEF SwitchInit
<1>2. asks \in 0..MaxAsks /\ refreshes \in 0..MaxReads
  BY SwitchAssumption DEF SwitchInit
<1>3. QED BY <1>1, <1>2 DEF SwitchInit, SwitchTyped, SwitchTypeOK, Targets

\* The copies of the active account name accounts, and each operation is at a step of
\* its own (useAccountSwitching.ts), whether or not operations overlap.
THEOREM SwitchKeepsTypes == SwitchSpec => []SwitchTypeOK
<1>1. SwitchTyped => SwitchTypeOK
  BY DEF SwitchTyped
<1>2. QED BY <1>1, InitSwitchTyped, SwitchNextTyped, PTL DEF SwitchSpec

-----------------------------------------------------------------------------
(* The copies of the active account agree.                                  *)
(*                                                                          *)
(* The invariant says of each step of a switch, a creation and a deletion   *)
(* which of the four copies has moved, and where the user wants to go.      *)

KeysOf(a) == outcome # "nokeys" => rust = a
Agreed == rust = wallet /\ active = wallet /\ (~stray => wallet = asked)

OneAtATime == op # "none" => deleting = "none"
RowActive == active \in exists \cup {NoAccount}
OneQueue == ~stray /\ queued # NoAccount => op = "switch"

SwitchPart ==
    op = "switch" =>
        /\ target \in exists /\ known \subseteq exists
        /\ pc = "setdb" => rust = target
        /\ pc \in {"state", "store"} \cup Moved => active = target
        /\ pc \in Moved => KeysOf(target)
        /\ pc = "preload" => wallet = target
        /\ ~stray => asked = IF queued = NoAccount THEN target ELSE queued

CreatePart ==
    op = "create" /\ pc # "create" =>
        /\ target \in exists /\ active = target
        /\ pc \in {"row"} \cup Moved => KeysOf(target)
        /\ pc = "preload" => wallet = target

DeletePart ==
    deleting = "state" =>
        /\ active # NoAccount /\ wallet = active /\ asked = active
        /\ KeysOf(active)

RestPart == op = "none" /\ deleting \in {"none", "delete"} /\ outcome = "ok" => Agreed

CopiesPart == /\ OneAtATime /\ RowActive /\ OneQueue
              /\ SwitchPart /\ CreatePart /\ DeletePart /\ RestPart

LEMMA NextKeepsCopies ==
    ASSUME Overlap = FALSE, SwitchTyped, CopiesPart, [SwitchNext]_switchVars
    PROVE  CopiesPart'
<1> USE SwitchAssumption
    DEF SwitchTyped, SwitchTypeOK, Targets, SwitchSteps, CreateSteps, Moved,
        dbVars, uiVars, opVars, delVars, askVars, readVars,
        CopiesPart, OneAtATime, RowActive, OneQueue, SwitchPart, CreatePart, DeletePart,
        RestPart, KeysOf, Agreed
<1>1. ASSUME NEW a \in Account, AskSwitch(a) \/ AskDelete(a) \/ RefreshApplies(a)
      PROVE  CopiesPart'
  <2>1. CASE AskSwitch(a)
    BY <2>1 DEF AskSwitch
  <2>2. CASE AskDelete(a)
    BY <2>2 DEF AskDelete
  <2>3. CASE RefreshApplies(a)
    BY <2>3 DEF RefreshApplies
  <2>4. QED BY <1>1, <2>1, <2>2, <2>3
<1>2. CASE AskCreate
  BY <1>2 DEF AskCreate
<1>3. CASE RefreshReads
  BY <1>3 DEF RefreshReads
<1>4. CASE Derive
  BY <1>4 DEF Derive, Goto, EndSwitch
<1>5. CASE SetDb
  BY <1>5 DEF SetDb, Goto, EndSwitch, Activate
<1>6. CASE WithPassword
  BY <1>6 DEF WithPassword, Goto, EndSwitch, Activate
<1>7. CASE WithPasswordState
  BY <1>7 DEF WithPasswordState, Goto
<1>8. CASE StoreKeys
  BY <1>8 DEF StoreKeys
<1>9. CASE Expose
  BY <1>9 DEF Expose, Goto, End, EndSwitch, EndCreate, Kept
<1>10. CASE Preloaded
  BY <1>10 DEF Preloaded, End, EndSwitch, EndCreate, Kept
<1>11. CASE CreateRow
  BY <1>11 DEF CreateRow, EndCreate
<1>12. CASE ReadRow
  BY <1>12 DEF ReadRow, Goto, EndCreate
<1>13. CASE Deletion
  <2>1. CASE DeleteRows
    BY <2>1 DEF DeleteRows
  <2>2. CASE ActivateOther
    BY <2>2 DEF ActivateOther
  <2>3. CASE DeleteRefreshes
    BY <2>3 DEF DeleteRefreshes, EndDelete
  <2>4. CASE DeleteDerives
    BY <2>4 DEF DeleteDerives
  <2>5. CASE DeleteFindsNoKeys \/ DeleteEnds
    BY <2>5 DEF DeleteFindsNoKeys, DeleteEnds, EndDelete
  <2>6. QED BY <1>13, <2>1, <2>2, <2>3, <2>4, <2>5 DEF Deletion
<1>14. CASE UNCHANGED switchVars
  BY <1>14 DEF switchVars
<1>15. QED BY <1>1, <1>2, <1>3, <1>4, <1>5, <1>6, <1>7, <1>8, <1>9, <1>10, <1>11, <1>12,
              <1>13, <1>14 DEF SwitchNext, Operation

LEMMA InitCopies == SwitchInit => CopiesPart
BY SwitchAssumption
   DEF SwitchInit, CopiesPart, OneAtATime, RowActive, OneQueue, SwitchPart, CreatePart,
       DeletePart, RestPart, KeysOf, Agreed

\* At rest after a success the native keys, the wallet shown and the row marked active
\* are of one account, for any accounts and any number of requests: a switch, a
\* creation and a deletion that do not overlap leave no copy behind.
THEOREM SwitchCopiesAgree ==
    ASSUME Overlap = FALSE
    PROVE  SwitchSpec => []CopiesAgree
<1>1. SwitchTyped /\ CopiesPart => CopiesAgree
  BY SwitchAssumption
     DEF SwitchTyped, SwitchTypeOK, CopiesPart, RestPart, RowActive, Agreed, CopiesAgree, AtRest
<1>2. QED BY <1>1, InitSwitchTyped, SwitchNextTyped, InitCopies, NextKeepsCopies, PTL
          DEF SwitchSpec

\* Of the switches asked for, the last one decides (pendingSwitchRef in
\* useAccountSwitching.ts): at rest after a success the wallet shown is the one the
\* user asked for last, however many clicks came before.
THEOREM SwitchLastWins ==
    ASSUME Overlap = FALSE
    PROVE  SwitchSpec => []LastRequestWins
<1>1. CopiesPart => LastRequestWins
  BY DEF CopiesPart, RestPart, Agreed, LastRequestWins, AtRest
<1>2. QED BY <1>1, InitSwitchTyped, SwitchNextTyped, InitCopies, NextKeepsCopies, PTL
          DEF SwitchSpec

-----------------------------------------------------------------------------
(* The token of the session: types.                                         *)

LEMMA RotateTyped ==
    ASSUME TokenTypeOK, Rotate
    PROVE  token' \in 1..MaxToken /\ token' > token /\ aged' = FALSE
BY TokenBounds DEF TokenTypeOK, Rotate

LEMMA TokenNextTyped == TokenTypeOK /\ [TokenNext]_tokenVars => TokenTypeOK'
<1> SUFFICES ASSUME TokenTypeOK, [TokenNext]_tokenVars PROVE TokenTypeOK'
  OBVIOUS
<1> USE NonceAssumption, TokenBounds
    DEF TokenTypeOK, bridgeVars, requestVars, ghostVars
<1>1. ASSUME NEW c \in Call, Begin(c) PROVE TokenTypeOK'
  BY <1>1 DEF Begin, Step
<1>2. ASSUME NEW c \in Call, Receive(c) PROVE TokenTypeOK'
  <2>1. held' \in 1..MaxToken
    BY <1>2 DEF Receive, TokenAfter
  <2>2. QED BY <1>2, <2>1 DEF Receive, Step, Forget
<1>3. ASSUME NEW c \in Call, GiveUp(c) PROVE TokenTypeOK'
  BY <1>3 DEF GiveUp, Step, Forget
<1>4. ASSUME NEW c \in Call, CheckToken(c) PROVE TokenTypeOK'
  BY <1>4 DEF CheckToken, Step, Fail
<1>5. ASSUME NEW c \in Call, GetNonce(c) PROVE TokenTypeOK'
  BY <1>5 DEF GetNonce, Step, Succeed
<1>6. ASSUME NEW c \in Call, CheckNonce(c) PROVE TokenTypeOK'
  <2>1. nonce[c] \in Nonce
    BY <1>6 DEF CheckNonce, Changes
  <2>2. used' \subseteq Nonce /\ later' \in [Nonce -> SUBSET used']
    <3>1. \E S \in SUBSET Nonce : Keep(S)
      BY <1>6, <2>1 DEF CheckNonce
    <3>2. QED BY <3>1 DEF Keep, Cleaned, Unexpired
  <2>3. accepted' \in [Nonce -> 0..2]
    BY <1>6, <2>1 DEF CheckNonce
  <2>4. forgotten' \subseteq Nonce
    BY <1>6 DEF CheckNonce, Unexpired
  <2>5. stage' \in [Call -> {"idle", "sent", "checked", "forwarded", "handled", "served",
                             "signed", "over"}] /\ refused' \subseteq Call
    BY <1>6 DEF CheckNonce, Step, Fail
  <2>6. UNCHANGED <<token, aged, lapsed, issued, held, leg, carried, nonce, sawAged, newToken,
                    signed, tampered, alone, behind, crossed, switches>>
    BY <1>6 DEF CheckNonce
  <2>7. QED BY <2>2, <2>3, <2>4, <2>5, <2>6
<1>7. ASSUME NEW c \in Call, Forward(c) PROVE TokenTypeOK'
  BY <1>7 DEF Forward, Step
<1>8. ASSUME NEW c \in Call, WalletAnswers(c) PROVE TokenTypeOK'
  <2>1. token' \in 1..MaxToken /\ aged' \in BOOLEAN
    BY <1>8, RotateTyped DEF WalletAnswers
  <2>2. newToken' \in [Call -> 0..MaxToken]
    BY <1>8, <2>1 DEF WalletAnswers
  <2>3. crossed' \in BOOLEAN
    BY <1>8 DEF WalletAnswers
  <2>4. QED BY <1>8, <2>1, <2>2, <2>3 DEF WalletAnswers, Step, Fail, Succeed
<1>9. ASSUME NEW c \in Call, RotateAged(c) PROVE TokenTypeOK'
  <2>1. token' \in 1..MaxToken /\ aged' \in BOOLEAN
    BY <1>9, RotateTyped DEF RotateAged
  <2>2. newToken' \in [Call -> 0..MaxToken]
    BY <1>9, <2>1 DEF RotateAged
  <2>3. QED BY <1>9, <2>1, <2>2 DEF RotateAged, Step
<1>10. ASSUME NEW c \in Call, Sign(c) PROVE TokenTypeOK'
  BY <1>10 DEF Sign, Step
<1>11. CASE SwitchAccount
  <2>1. token' \in 1..MaxToken /\ aged' \in BOOLEAN
    BY <1>11, RotateTyped DEF SwitchAccount
  <2>2. used' \subseteq Nonce /\ later' \in [Nonce -> SUBSET used']
    BY <1>11 DEF SwitchAccount
  <2>3. forgotten' \subseteq Nonce /\ alone' \subseteq Call /\ switches' \in 0..MaxSwitches
    BY <1>11 DEF SwitchAccount
  <2>4. QED BY <1>11, <2>1, <2>2, <2>3 DEF SwitchAccount
<1>12. CASE SetSessionToken
  BY <1>12 DEF SetSessionToken
<1>13. CASE Age
  BY <1>13 DEF Age
<1>14. ASSUME NEW n \in Nonce, Lapse(n) PROVE TokenTypeOK'
  BY <1>14 DEF Lapse
<1>15. CASE UNCHANGED tokenVars
  BY <1>15 DEF tokenVars
<1>16. QED BY <1>1, <1>2, <1>3, <1>4, <1>5, <1>6, <1>7, <1>8, <1>9, <1>10, <1>11, <1>12,
              <1>13, <1>14, <1>15 DEF TokenNext

LEMMA InitTokenTyped == TokenInit => TokenTypeOK
<1> SUFFICES ASSUME TokenInit PROVE TokenTypeOK
  OBVIOUS
<1>1. 1 \in 1..MaxToken /\ 0 \in 0..MaxToken /\ 0 \in 0..MaxSwitches
  BY TokenBounds
<1>2. later \in [Nonce -> SUBSET used] /\ used \subseteq Nonce
  BY DEF TokenInit
<1>3. /\ carried \in [Call -> 0..MaxToken] /\ nonce \in [Call -> Nonce \cup {NoNonce}]
      /\ newToken \in [Call -> 0..MaxToken] /\ signed \in [Call -> 0..MaxToken]
      /\ accepted \in [Nonce -> 0..2]
  BY <1>1 DEF TokenInit
<1>4. QED BY <1>1, <1>2, <1>3 DEF TokenInit, TokenTypeOK

\* The token, the nonces and the requests under way stay in their types (lib.rs,
\* http_server.rs), for any number of calls, nonces and rotations.
THEOREM TokensTyped == TokenSpec => []TokenTypeOK
<1>1. QED BY InitTokenTyped, TokenNextTyped, PTL DEF TokenSpec

-----------------------------------------------------------------------------
(* A nonce is accepted once.                                                *)

\* The bridge remembers what it accepted until it lapses.
Remembered == \A n \in Nonce \ forgotten : accepted[n] > 0 => n \in used \cup lapsed

LEMMA NextKeepsRemembered ==
    ASSUME TokenTypeOK, Remembered, NonceAcceptedOnce, [TokenNext]_tokenVars
    PROVE  Remembered' /\ NonceAcceptedOnce'
<1> USE DEF bridgeVars, requestVars, ghostVars
<1>1. ASSUME UNCHANGED accepted, used \subseteq used', lapsed \subseteq lapsed',
             forgotten \subseteq forgotten'
      PROVE  Remembered' /\ NonceAcceptedOnce'
  BY <1>1 DEF Remembered, NonceAcceptedOnce
<1>2. ASSUME NEW c \in Call, CheckNonce(c) PROVE Remembered' /\ NonceAcceptedOnce'
  <2> DEFINE n == nonce[c]
  <2>1. /\ n \in Nonce /\ lapsed' = lapsed
        /\ forgotten' = forgotten \cup (Unexpired \ Cleaned)
    BY <1>2 DEF CheckNonce, Changes, TokenTypeOK
  <2>2. Cleaned \subseteq used' /\ \A m \in Nonce \ forgotten' : m \in used => m \in used' \cup lapsed
    BY <1>2, <2>1 DEF CheckNonce, Keep, Unexpired
  <2>3. CASE ValidNonce(n)
    <3>1. /\ accepted' = [accepted EXCEPT ![n] = @ + 1]
          /\ n \in used'
      BY <1>2, <2>3 DEF CheckNonce, Keep
    <3>2. n \in forgotten' \/ accepted[n] = 0
      BY <2>1, <2>2, <2>3 DEF ValidNonce, Remembered, Unexpired, TokenTypeOK
    <3>3. QED BY <2>1, <2>2, <3>1, <3>2 DEF Remembered, NonceAcceptedOnce, TokenTypeOK
  <2>4. CASE ~ ValidNonce(n)
    <3>1. accepted' = accepted
      BY <1>2, <2>4 DEF CheckNonce
    <3>2. QED BY <2>1, <2>2, <3>1 DEF Remembered, NonceAcceptedOnce
  <2>5. QED BY <2>3, <2>4
<1>3. CASE SwitchAccount
  BY <1>3 DEF SwitchAccount, Remembered, NonceAcceptedOnce
<1>4. ASSUME NEW c \in Call, ~ CheckNonce(c),
             \/ Begin(c) \/ Receive(c) \/ GiveUp(c) \/ CheckToken(c) \/ GetNonce(c)
             \/ CheckNonce(c) \/ Forward(c) \/ WalletAnswers(c) \/ RotateAged(c) \/ Sign(c)
      PROVE  UNCHANGED <<accepted, used, lapsed, forgotten>>
  BY <1>4 DEF Begin, Receive, GiveUp, CheckToken, GetNonce, Forward, WalletAnswers, RotateAged,
              Sign
<1>5. CASE SetSessionToken \/ Age \/ UNCHANGED tokenVars
  BY <1>1, <1>5 DEF SetSessionToken, Age, tokenVars
<1>6. ASSUME NEW n \in Nonce, Lapse(n) PROVE Remembered' /\ NonceAcceptedOnce'
  BY <1>1, <1>6 DEF Lapse
<1>7. QED BY <1>1, <1>2, <1>3, <1>4, <1>5, <1>6 DEF TokenNext

-----------------------------------------------------------------------------
(* The client keeps up with the token.                                      *)

Outstanding(c) == newToken[c] # 0

\* An answer with a token was rotated after its request was checked.
CarriedOlder == \A c \in Call :
    /\ Outstanding(c) => stage[c] \in {"handled", "served", "signed"} /\ carried[c] < token
    /\ stage[c] \in {"checked", "forwarded", "handled"} => carried[c] <= token

\* While the token is old, no new one is on its way.
AgedAlone == aged => \A c \in Call : ~ Outstanding(c)

\* One answer at most carries a token, and it is the one the client lacks.
OneOutstanding == ~ behind /\ ~ crossed =>
    /\ \A c \in Call : Outstanding(c) => newToken[c] = token
    /\ \A c, d \in Call : Outstanding(c) /\ Outstanding(d) => c = d
    /\ held = token \/ \E c \in Call : Outstanding(c)

\* What concerns a call that nothing has overlapped.
AlonePart == \A c \in alone :
    /\ InFlight = {c}
    /\ newToken[c] = token \/ (~ Outstanding(c) /\ held = token)
    /\ stage[c] = "signed" => signed[c] = token

TokenPart == CarriedOlder /\ AgedAlone /\ OneOutstanding /\ AlonePart /\ tampered = {}

LEMMA NextKeepsTokens ==
    ASSUME TokenTypeOK, TokenPart, [TokenNext]_tokenVars
    PROVE  TokenPart'
<1> USE NonceAssumption, TokenBounds
    DEF TokenTypeOK, TokenPart, bridgeVars, requestVars, ghostVars, InFlight, Outstanding
<1>1. ASSUME NEW c \in Call, Begin(c) PROVE TokenPart'
  BY <1>1 DEF Begin, Step, CarriedOlder, AgedAlone, OneOutstanding, AlonePart
<1>2. ASSUME NEW c \in Call, Receive(c) PROVE TokenPart'
  BY <1>2 DEF Receive, TokenAfter, Verified, Step, Forget, CarriedOlder, AgedAlone,
              OneOutstanding, AlonePart
<1>3. ASSUME NEW c \in Call, GiveUp(c) PROVE TokenPart'
  BY <1>3 DEF GiveUp, Step, Forget, CarriedOlder, AgedAlone, OneOutstanding, AlonePart
<1>4. ASSUME NEW c \in Call, CheckToken(c) PROVE TokenPart'
  BY <1>4 DEF CheckToken, Step, Fail, CarriedOlder, AgedAlone, OneOutstanding, AlonePart
<1>5. ASSUME NEW c \in Call, GetNonce(c) PROVE TokenPart'
  BY <1>5 DEF GetNonce, Step, Succeed, CarriedOlder, AgedAlone, OneOutstanding, AlonePart
<1>6. ASSUME NEW c \in Call, CheckNonce(c) PROVE TokenPart'
  BY <1>6 DEF CheckNonce, Step, Fail, CarriedOlder, AgedAlone, OneOutstanding, AlonePart
<1>7. ASSUME NEW c \in Call, Forward(c) PROVE TokenPart'
  BY <1>7 DEF Forward, Step, CarriedOlder, AgedAlone, OneOutstanding, AlonePart
<1>8. ASSUME NEW c \in Call, WalletAnswers(c) PROVE TokenPart'
  <2>1. CASE UNCHANGED <<token, aged, newToken, crossed>>
    BY <1>8, <2>1 DEF WalletAnswers, Step, CarriedOlder, AgedAlone, OneOutstanding, AlonePart
  <2>2. CASE /\ Rotate /\ newToken' = [newToken EXCEPT ![c] = token']
             /\ crossed' = (crossed \/ \E d \in InFlight \ {c} : newToken[d] # 0)
    <3>1. token' \in 1..MaxToken /\ token' > token /\ aged' = FALSE
      BY <2>2, RotateTyped
    <3>2. CarriedOlder' /\ AgedAlone'
      BY <1>8, <2>2, <3>1 DEF WalletAnswers, Step, CarriedOlder, AgedAlone
    <3>3. OneOutstanding'
      <4> SUFFICES ASSUME ~ behind', ~ crossed' PROVE OneOutstanding'
        BY DEF OneOutstanding
      <4>1. \A d \in Call \ {c} : newToken'[d] = 0
        BY <2>2 DEF CarriedOlder
      <4>2. newToken'[c] = token'
        BY <2>2
      <4>3. QED BY <3>1, <4>1, <4>2 DEF OneOutstanding
    <3>4. AlonePart'
      BY <1>8, <2>2, <3>1 DEF WalletAnswers, Step, AlonePart
    <3>5. QED BY <1>8, <3>2, <3>3, <3>4 DEF WalletAnswers
  <2>3. QED BY <1>8, <2>1, <2>2 DEF WalletAnswers
<1>9. ASSUME NEW c \in Call, RotateAged(c) PROVE TokenPart'
  <2>1. CASE ~ StillAged(c)
    BY <1>9, <2>1 DEF RotateAged, Step, CarriedOlder, AgedAlone, OneOutstanding, AlonePart
  <2>2. CASE StillAged(c)
    <3>1. /\ Rotate /\ newToken' = [newToken EXCEPT ![c] = token']
          /\ \A d \in Call : ~ Outstanding(d)
      BY <1>9, <2>2 DEF RotateAged, StillAged, AgedAlone
    <3>2. token' \in 1..MaxToken /\ token' > token /\ aged' = FALSE
      BY <3>1, RotateTyped
    <3>3. CarriedOlder' /\ AgedAlone'
      BY <1>9, <3>1, <3>2 DEF RotateAged, Step, CarriedOlder, AgedAlone
    <3>4. OneOutstanding'
      BY <1>9, <3>1, <3>2 DEF RotateAged, Step, OneOutstanding
    <3>5. AlonePart'
      BY <1>9, <3>1, <3>2 DEF RotateAged, Step, AlonePart
    <3>6. QED BY <1>9, <3>3, <3>4, <3>5 DEF RotateAged
  <2>3. QED BY <2>1, <2>2
<1>10. ASSUME NEW c \in Call, Sign(c) PROVE TokenPart'
  BY <1>10 DEF Sign, Step, CarriedOlder, AgedAlone, OneOutstanding, AlonePart
<1>11. CASE SwitchAccount
  BY <1>11 DEF SwitchAccount, Rotate, CarriedOlder, AgedAlone, OneOutstanding, AlonePart
<1>12. CASE SetSessionToken
  BY <1>12 DEF SetSessionToken, CarriedOlder, AgedAlone, OneOutstanding, AlonePart
<1>13. CASE Age
  BY <1>13 DEF Age, CarriedOlder, AgedAlone, OneOutstanding, AlonePart
<1>14. ASSUME NEW n \in Nonce, Lapse(n) PROVE TokenPart'
  BY <1>14 DEF Lapse, CarriedOlder, AgedAlone, OneOutstanding, AlonePart
<1>15. CASE UNCHANGED tokenVars
  BY <1>15 DEF tokenVars, CarriedOlder, AgedAlone, OneOutstanding, AlonePart
<1>16. QED BY <1>1, <1>2, <1>3, <1>4, <1>5, <1>6, <1>7, <1>8, <1>9, <1>10, <1>11, <1>12,
              <1>13, <1>14, <1>15 DEF TokenNext

LEMMA InitTokens == TokenInit => TokenPart
BY DEF TokenInit, TokenPart, CarriedOlder, AgedAlone, OneOutstanding, AlonePart, Outstanding

\* With no call in flight the client holds the bridge's token, through every rotation,
\* unless an answer was lost, a switch rotated the token, or a rotation crossed an
\* answer with another one; and a call that nothing overlaps never reports a forged
\* answer (handle_request in http_server.rs, the client of the SDK).
THEOREM TokensKeepUp == TokenSpec => []ClientKeepsUp
<1>1. TokenTypeOK /\ TokenPart => ClientKeepsUp
  BY DEF TokenPart, CarriedOlder, OneOutstanding, Outstanding, ClientKeepsUp, InFlight
<1>2. QED BY <1>1, InitTokenTyped, TokenNextTyped, InitTokens, NextKeepsTokens, PTL DEF TokenSpec

\* The bridge accepts a nonce once, however many calls present it, until a switch of
\* account or the limit on remembered nonces makes it forget (validate_nonce).
THEOREM TokensAcceptOnce == TokenSpec => []NonceAcceptedOnce
<1>1. TokenInit => Remembered /\ NonceAcceptedOnce
  BY DEF TokenInit, Remembered, NonceAcceptedOnce
<1>2. QED BY <1>1, InitTokenTyped, TokenNextTyped, NextKeepsRemembered, PTL DEF TokenSpec
=============================================================================
