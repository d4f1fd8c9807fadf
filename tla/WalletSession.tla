--------------------------- MODULE WalletSession ---------------------------
(***************************************************************************)
(* What is open of the wallet at a time: the wallet and the lock flag of   *)
(* the user interface, the session password, the keys in native memory and *)
(* the auto-lock timer. Start, creation, lock, unlock, an operation on the *)
(* accounts, a new password and deletion change them one by one, with      *)
(* awaits between.                                                         *)
(*                                                                         *)
(* Which account is open is the subject of AccountSwitch. Unlocks count    *)
(* their failures with UnlockLimiter.                                      *)
(***************************************************************************)
EXTENDS UnlockLimiter

CONSTANTS
    Locker,     \* calls of lockWallet that may overlap
    MaxWrong,   \* bound on wrong passwords
    MaxStarts   \* bound on creations, restarts and deletions

ASSUME SessionAssumption == MaxWrong \in Nat /\ MaxStarts \in Nat

VARIABLES
    stored,     \* the keys are in secure storage
    rows,       \* there are accounts in the database
    protected,  \* hasPassword(); without the flag there is a password
    shown,      \* the wallet of the user interface is not null
    locked,     \* isLocked
    session,    \* the session password is known
    native,     \* the native key store holds keys
    armed,      \* the auto-lock timer runs
    idle,       \* the user has been inactive for longer than its limit
    boot,       \* step of the start
    making,     \* step of a creation, a restore or an import
    locking,    \* [Locker -> step of lockWallet]
    unlocking,  \* step of unlockWallet
    moving,     \* step of a switch or creation of an account
    erasing,    \* step of handleDeleteWallet
    wrong,      \* wrong passwords in a row
    starts,
    late,       \* a step was taken after another operation had undone what it
                \* builds on: keys stored behind the lock screen, ...
    clearFailed,\* a clear_keys command failed
    added       \* a password was added and the timer was not started again

openVars == <<shown, locked, session, native>>
timerVars == <<armed, idle, added>>
diskVars == <<stored, rows, protected>>
stepVars == <<boot, making, locking, unlocking, moving, erasing>>
countVars == <<wrong, starts>>
sessionVars == <<openVars, timerVars, diskVars, stepVars, countVars, late, clearFailed, limiterVars>>

\* One invariant for the types of all variables.
TypeOK ==
    /\ LimiterTypeOK
    /\ {stored, rows, protected, shown, locked, session, native, armed, idle} \subseteq BOOLEAN
    /\ {late, clearFailed, added} \subseteq BOOLEAN
    /\ boot \in {"load", "keys", "done"}
    /\ making \in {"none", "save", "rows", "keys", "show"}
    /\ locking \in [Locker -> {"none", "clear", "flag"}]
    /\ unlocking \in {"none", "check", "decrypt", "store"}
    /\ moving \in {"none", "derive", "store", "show"}
    /\ erasing \in {"none", "storage", "keys", "database", "flags"}
    /\ wrong \in 0..MaxWrong /\ starts \in 0..MaxStarts

Init ==
    /\ stored = FALSE /\ rows = FALSE /\ protected = TRUE
    /\ shown = FALSE /\ locked = FALSE /\ session = FALSE /\ native = FALSE
    /\ armed = FALSE /\ idle = FALSE /\ added = FALSE
    /\ boot = "done" /\ making = "none" /\ locking = [k \in Locker |-> "none"]
    /\ unlocking = "none" /\ moving = "none" /\ erasing = "none"
    /\ wrong = 0 /\ starts = 0 /\ late = FALSE /\ clearFailed = FALSE
    /\ LimiterInit

Locking == \E k \in Locker : locking[k] # "none"
Quiet == /\ boot = "done" /\ making = "none" /\ ~Locking /\ unlocking = "none"
         /\ moving = "none" /\ erasing = "none"

\* Loading is over and neither the wallet nor the lock screen is shown.
SetupScreen == ~shown /\ ~locked /\ boot = "done"
LockScreen == ~shown /\ locked /\ boot = "done"

\* Bound of the model: after a step that came late nothing new begins before the
\* next start, and nothing is stated of the session.
Followed == ~late

\* MUTANT of Rearm: the timer is started when its limit changes only.
RearmNothing(open) == added' = added /\ UNCHANGED <<armed, idle>>

\* The effect on [wallet, autoLockMinutes, lockWallet]: stopAutoLock, then
\* initAutoLock if there is a wallet with a password.
Rearm(open) ==
    /\ armed' = open
    /\ idle' = (idle /\ ~armed')
    /\ added' = FALSE

(***************************************************************************)
(* The start (useWalletInit).                                              *)
(***************************************************************************)
BootUnchanged ==
    UNCHANGED <<making, locking, unlocking, moving, erasing, countVars, late, clearFailed,
                limiterVars>>

\* The screen after loading: no wallet, or nothing could be read; the lock screen of
\* a wallet with a password; a wallet without one, its keys in Rust at once if
\* another account than the first is active. Without accounts, loadWallet('')
\* refuses an encrypted wallet with a result, and the setup screen shows.
BootLoads ==
    /\ boot = "load"
    /\ \/ /\ boot' = "done" /\ UNCHANGED <<openVars, timerVars, rows>>
       \/ /\ stored /\ rows
          /\ boot' = "done" /\ locked' = TRUE
          /\ UNCHANGED <<shown, session, native, timerVars, rows>>
       \/ /\ stored /\ (protected => ~rows)
          /\ shown' = TRUE /\ session' = TRUE /\ native' \in {native, rows}
          /\ boot' = IF rows /\ ~native' THEN "keys" ELSE "done"
          /\ rows' \in {rows, TRUE}
          /\ Rearm(protected) /\ UNCHANGED locked
    /\ UNCHANGED <<stored, protected>> /\ BootUnchanged

BootStoresKeys ==
    /\ boot = "keys"
    /\ boot' = "done"
    /\ native' \in {native, TRUE}
    /\ late' = (late \/ ~shown)
    /\ UNCHANGED <<shown, locked, session, timerVars, diskVars, making, locking, unlocking, moving,
                   erasing, countVars, clearFailed, limiterVars>>

\* The application ends and starts again: what is on disk stays.
Restart ==
    /\ starts < MaxStarts /\ starts' = starts + 1
    /\ boot' = "load"
    /\ shown' = FALSE /\ locked' = FALSE /\ session' = FALSE /\ native' = FALSE
    /\ armed' = FALSE /\ idle' = FALSE /\ added' = FALSE
    /\ making' = "none" /\ locking' = [k \in Locker |-> "none"]
    /\ unlocking' = "none" /\ moving' = "none" /\ erasing' = "none"
    /\ late' = FALSE /\ clearFailed' = FALSE
    /\ UNCHANGED <<diskVars, wrong, limiterVars>>

(***************************************************************************)
(* A creation, a restore or an import (useWalletActions).                  *)
(***************************************************************************)
MakeUnchanged ==
    UNCHANGED <<boot, locking, unlocking, moving, erasing, wrong, clearFailed, limiterVars>>

Make ==
    /\ Followed /\ SetupScreen /\ making = "none"
    /\ starts < MaxStarts /\ starts' = starts + 1
    /\ making' = "save"
    /\ UNCHANGED <<openVars, timerVars, diskVars, late>> /\ MakeUnchanged

\* saveWallet or saveWalletUnprotected.
MakeSaves ==
    /\ making = "save"
    /\ \/ stored' = TRUE /\ protected' \in BOOLEAN /\ making' = "rows"
       \/ making' = "none" /\ UNCHANGED <<stored, protected>>
    /\ late' = (late \/ shown)
    /\ UNCHANGED <<openVars, timerVars, rows, starts>> /\ MakeUnchanged

\* createAccount of migrateToMultiAccount logs its failure: the rest goes on, with
\* store_keys after a restore or an import only.
MakeRows ==
    /\ making = "rows"
    /\ rows' \in {rows, TRUE}
    /\ making' \in {"keys", "show", "none"}
    /\ UNCHANGED <<openVars, timerVars, stored, protected, late, starts>> /\ MakeUnchanged

MakeStoresKeys ==
    /\ making = "keys"
    /\ native' \in {native, TRUE}
    /\ making' = "show"
    /\ late' = (late \/ ~SetupScreen \/ Locking)
    /\ UNCHANGED <<shown, locked, session, timerVars, diskVars, starts>> /\ MakeUnchanged

MakeShows ==
    /\ making = "show"
    /\ making' = "none"
    /\ shown' = TRUE /\ session' = TRUE
    /\ Rearm(protected)
    /\ late' = (late \/ ~SetupScreen \/ Locking \/ ~(stored \/ rows))
    /\ UNCHANGED <<locked, native, diskVars, starts>> /\ MakeUnchanged

(***************************************************************************)
(* lockWallet (useWalletLock).                                             *)
(***************************************************************************)
LockUnchanged ==
    UNCHANGED <<diskVars, boot, making, unlocking, moving, erasing, countVars, limiterVars>>

\* MUTANT of BeginLock: the lock screen is shown before the keys are cleared.
BeginLockWithScreen(k) ==
    /\ Followed /\ protected /\ locking[k] = "none"
    /\ locking' = [locking EXCEPT ![k] = "clear"]
    /\ shown' = FALSE /\ session' = FALSE /\ locked' = TRUE
    /\ armed' = FALSE /\ idle' = FALSE /\ added' = FALSE
    /\ UNCHANGED <<native, late, clearFailed>> /\ LockUnchanged

\* The synchronous part; without a password nothing happens.
BeginLock(k) ==
    /\ Followed /\ protected /\ locking[k] = "none"
    /\ locking' = [locking EXCEPT ![k] = "clear"]
    /\ shown' = FALSE /\ session' = FALSE
    /\ armed' = FALSE /\ idle' = FALSE /\ added' = FALSE
    /\ UNCHANGED <<locked, native, late, clearFailed>> /\ LockUnchanged

LockNow(k) == shown /\ BeginLock(k)
AutoLock(k) == armed /\ idle /\ BeginLock(k)
\* The application has been hidden for a while; isLocked stands for "no wallet".
HiddenLock(k) == ~locked /\ boot = "done" /\ BeginLock(k)

\* clear_keys; its failure is logged.
ClearKeys(k) ==
    /\ locking[k] = "clear"
    /\ locking' = [locking EXCEPT ![k] = "flag"]
    /\ \/ native' = FALSE /\ UNCHANGED clearFailed
       \/ clearFailed' = TRUE /\ UNCHANGED native
    /\ late' = (late \/ shown)
    /\ UNCHANGED <<shown, locked, session, timerVars>> /\ LockUnchanged

LockFlags(k) ==
    /\ locking[k] = "flag"
    /\ locking' = [locking EXCEPT ![k] = "none"]
    /\ locked' = TRUE
    /\ late' = (late \/ shown)
    /\ UNCHANGED <<shown, session, native, timerVars, clearFailed>> /\ LockUnchanged

(***************************************************************************)
(* unlockWallet, called by the lock screen (LockScreenModal).              *)
(***************************************************************************)
UnlockUnchanged ==
    UNCHANGED <<diskVars, boot, making, locking, moving, erasing, starts, clearFailed>>

BeginUnlock ==
    /\ Followed /\ LockScreen /\ unlocking = "none"
    /\ unlocking' = "check"
    /\ UNCHANGED <<openVars, timerVars, wrong, late, limiterVars>> /\ UnlockUnchanged

CheckUnlock ==
    /\ unlocking = "check"
    /\ unlocking' = IF Limited THEN "none" ELSE "decrypt"
    /\ Check
    /\ UNCHANGED <<openVars, timerVars, wrong, late>> /\ UnlockUnchanged

\* A wrong password is counted here, and again by the form unless that first
\* count locks it out; no account, or keys that do not open, by the form alone.
UnlockFails ==
    /\ unlocking = "decrypt" /\ wrong < MaxWrong
    /\ unlocking' = "none"
    /\ wrong' = wrong + 1
    /\ RecordFailed(IF rows /\ protected /\ Counted + 1 < MAX_ATTEMPTS THEN 2 ELSE 1)
    /\ UNCHANGED <<openVars, timerVars, late>> /\ UnlockUnchanged

UnlockShows ==
    /\ unlocking = "decrypt" /\ rows
    /\ unlocking' = "store"
    /\ IF protected THEN RecordSuccess ELSE UNCHANGED limiterVars
    /\ wrong' = 0
    /\ shown' = TRUE /\ locked' = FALSE /\ session' = TRUE
    /\ Rearm(protected)
    /\ late' = (late \/ ~LockScreen \/ Locking)
    /\ UNCHANGED native /\ UnlockUnchanged

\* storeKeysInRust logs its failure.
UnlockStoresKeys ==
    /\ unlocking = "store"
    /\ unlocking' = "none"
    /\ native' \in {native, TRUE}
    /\ late' = (late \/ ~shown)
    /\ UNCHANGED <<shown, locked, session, timerVars, wrong, limiterVars>> /\ UnlockUnchanged

(***************************************************************************)
(* A switch to an account, or its creation, as far as it opens the wallet. *)
(***************************************************************************)
MoveUnchanged ==
    UNCHANGED <<diskVars, boot, making, locking, unlocking, erasing, countVars, clearFailed,
                limiterVars>>

BeginMove ==
    /\ Followed /\ shown /\ moving = "none"
    /\ moving' = "derive"
    /\ UNCHANGED <<openVars, timerVars, late>> /\ MoveUnchanged

\* From the native keys; by password, which a switch then forgets; or not at all.
MoveDerives ==
    /\ moving = "derive"
    /\ \/ native /\ moving' = "show" /\ UNCHANGED session
       \/ session /\ session' \in BOOLEAN /\ moving' = "store"
       \/ moving' = "none" /\ UNCHANGED session
    /\ UNCHANGED <<shown, locked, native, timerVars, late>> /\ MoveUnchanged

MoveStoresKeys ==
    /\ moving = "store"
    /\ moving' = "show"
    /\ native' \in {native, TRUE}
    /\ late' = (late \/ ~shown)
    /\ UNCHANGED <<shown, locked, session, timerVars>> /\ MoveUnchanged

MoveShows ==
    /\ moving = "show"
    /\ moving' = "none"
    /\ shown' = TRUE /\ locked' = FALSE
    /\ Rearm(protected)
    /\ late' = (late \/ ~shown)
    /\ UNCHANGED <<session, native>> /\ MoveUnchanged

(***************************************************************************)
(* The settings: a first password, the time limit, the deletion.           *)
(***************************************************************************)
\* enableWalletPassword: setAutoLockMinutes(10) changes nothing, and starts no
\* timer, when ten minutes were set already.
AddPassword ==
    /\ Followed /\ shown /\ ~protected
    /\ protected' = TRUE /\ session' = TRUE
    /\ Rearm(TRUE) \/ (added' = TRUE /\ UNCHANGED <<armed, idle>>)
    /\ UNCHANGED <<shown, locked, native, stored, rows, stepVars, countVars, late, clearFailed,
                   limiterVars>>

SetMinutes ==
    /\ Followed /\ shown
    /\ Rearm(protected)
    /\ UNCHANGED <<openVars, diskVars, stepVars, countVars, late, clearFailed, limiterVars>>

EraseUnchanged ==
    UNCHANGED <<boot, making, locking, unlocking, moving, wrong, limiterVars>>

\* handleDeleteWallet resets the user interface first.
BeginErase ==
    /\ Followed /\ shown /\ erasing = "none" /\ starts < MaxStarts
    /\ starts' = starts + 1
    /\ erasing' = "storage"
    /\ shown' = FALSE /\ locked' = FALSE /\ session' = FALSE
    /\ Rearm(FALSE)
    /\ UNCHANGED <<native, diskVars, late, clearFailed>> /\ EraseUnchanged

\* clearWallet, clear_keys, clearDatabase and the flags; each may fail alone.
EraseStep ==
    /\ \/ /\ erasing = "storage" /\ erasing' = "keys"
          /\ stored' \in {stored, FALSE} /\ UNCHANGED <<native, rows, protected, clearFailed>>
       \/ /\ erasing = "keys" /\ erasing' = "database"
          /\ \/ native' = FALSE /\ UNCHANGED clearFailed
             \/ clearFailed' = TRUE /\ UNCHANGED native
          /\ UNCHANGED <<stored, rows, protected>>
       \/ /\ erasing = "database" /\ erasing' = "flags"
          /\ rows' \in {rows, FALSE} /\ UNCHANGED <<stored, native, protected, clearFailed>>
       \/ /\ erasing = "flags" /\ erasing' = "none"
          /\ protected' \in {protected, TRUE} /\ UNCHANGED <<stored, native, rows, clearFailed>>
    /\ late' = (late \/ shown)
    /\ UNCHANGED <<shown, locked, session, timerVars, starts>> /\ EraseUnchanged

(***************************************************************************)
(* Time and the user.                                                      *)
(***************************************************************************)
AsideUnchanged ==
    UNCHANGED <<openVars, diskVars, stepVars, countVars, late, clearFailed>>

GoIdle == Followed /\ shown /\ ~idle /\ idle' = TRUE /\ UNCHANGED <<armed, added, limiterVars>> /\ AsideUnchanged
UserActs == Followed /\ idle /\ idle' = FALSE /\ UNCHANGED <<armed, added, limiterVars>> /\ AsideUnchanged
WaitLockout == Followed /\ LockoutEnds /\ UNCHANGED timerVars /\ AsideUnchanged
WaitForgets == Followed /\ Forgets /\ UNCHANGED timerVars /\ AsideUnchanged

Next ==
    \/ BootLoads \/ BootStoresKeys \/ Restart
    \/ Make \/ MakeSaves \/ MakeRows \/ MakeStoresKeys \/ MakeShows
    \/ \E k \in Locker : \/ LockNow(k) \/ AutoLock(k) \/ HiddenLock(k)
                         \/ ClearKeys(k) \/ LockFlags(k)
    \/ BeginUnlock \/ CheckUnlock \/ UnlockFails \/ UnlockShows \/ UnlockStoresKeys
    \/ BeginMove \/ MoveDerives \/ MoveStoresKeys \/ MoveShows
    \/ AddPassword \/ SetMinutes \/ BeginErase \/ EraseStep
    \/ GoIdle \/ UserActs \/ WaitLockout \/ WaitForgets

Spec == Init /\ [][Next]_sessionVars

\* Commands return, the checker of inactivity runs, a lockout ends, and the owner of
\* the wallet comes back to a lock screen with the right password.
FairSpec ==
    /\ Spec
    /\ \A k \in Locker : WF_sessionVars(ClearKeys(k) \/ LockFlags(k))
    /\ WF_sessionVars(\E k \in Locker : AutoLock(k))
    /\ WF_sessionVars(BeginUnlock \/ CheckUnlock) /\ WF_sessionVars(UnlockShows)
    /\ WF_sessionVars(UnlockStoresKeys) /\ WF_sessionVars(WaitLockout)

(***************************************************************************)
(* What must hold.                                                         *)
(***************************************************************************)
\* The parts agree, unless an operation came late: between operations a wallet that
\* is shown is one that is stored and not locked, and behind the lock screen, at any
\* time, there is no session password and there are no keys in native memory but
\* those a failed clear_keys left there.
\* B-137, useWalletLock.ts: "so the user never sees the lock screen while keys still
\* exist in native memory".
SessionAgrees ==
    ~late => /\ Quiet /\ shown => ~locked /\ (stored \/ rows)
             /\ LockScreen => ~session /\ (native => clearFailed)

\* A wallet with a password that an inactive user has left open; its password was
\* not added without a timer.
LeftOpen == idle /\ shown /\ protected /\ ~added /\ ~late

\* It does not stay so for ever: whatever switches, locks, unlocks and changes of
\* the limit came before, a timer runs, and its callback still locks.
AutoLockFires == LeftOpen ~> ~LeftOpen

\* A locked wallet with accounts opens again for the right password, whatever wrong
\* ones, lockouts, locks and deletions came between: a lockout ends and does not
\* come back by itself.
LockedWalletOpens == (LockScreen /\ rows /\ ~late) ~> (~LockScreen \/ ~rows \/ late)

(***************************************************************************)
(* What does not hold.                                                     *)
(***************************************************************************)
\* SettingsSecurity.tsx:96: "Password set! Lock screen and auto-lock are now enabled."
ArmedWhileShown == (Quiet /\ ~late /\ shown /\ protected /\ ~idle) => armed

\* useWalletLock.ts:126: isLocked stands for whether there is a wallet. The lock
\* screen of an installation without accounts never opens.
LockScreenHasWallet == (LockScreen /\ Quiet /\ ~late) => rows

\* useWalletInit.ts:256: "Wallet is encrypted, showing lock screen".
StoredWalletOffered == (SetupScreen /\ Quiet /\ ~late) => ~stored

\* OVERVIEW.md:81: "5 attempts are allowed, then exponential backoff kicks in".
FiveAttempts == lockout > 0 => wrong >= MAX_ATTEMPTS
=============================================================================
