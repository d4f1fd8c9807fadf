--------------------------- MODULE UnlockLimiter ---------------------------
(***************************************************************************)
(* The counter of failed unlocks: after MAX_ATTEMPTS of them each further  *)
(* one locks the lock screen out, twice as long as the one before, up to a *)
(* limit; a quarter of an hour without one, or a success, forgets them.    *)
(* The code's milliseconds are seconds here. The counter survives a        *)
(* restart.                                                                *)
(***************************************************************************)
EXTENDS Integers

MAX_ATTEMPTS == 5
BASE_LOCKOUT == 1    \* BASE_LOCKOUT_MS
MAX_LOCKOUT == 300   \* MAX_LOCKOUT_MS

VARIABLES
    attempts,   \* RateLimitState.attempts
    lockout,    \* what is left until locked_until
    recent      \* the last attempt is at most RESET_AFTER_MS ago

limiterVars == <<attempts, lockout, recent>>

LimiterTypeOK ==
    /\ attempts \in Nat /\ lockout \in 0..MAX_LOCKOUT /\ recent \in BOOLEAN
    /\ lockout > 0 => recent /\ attempts >= MAX_ATTEMPTS

LimiterInit == attempts = 0 /\ lockout = 0 /\ recent = FALSE

\* BASE_LOCKOUT * 2^exponent.
Backoff[exponent \in 0..8] ==
    IF exponent = 0 THEN BASE_LOCKOUT ELSE 2 * Backoff[exponent - 1]

\* calculate_lockout_duration: the base times a power of two in 64 bits, then the
\* limit. The product exceeds the limit from 2^9 on, and from 1000 * 2^61 milliseconds
\* on it is 0 in 64 bits.
Duration(n) ==
    LET exponent == n - MAX_ATTEMPTS
    IN  CASE exponent < 9 -> Backoff[exponent]
          [] exponent \in 9..60 -> MAX_LOCKOUT
          [] OTHER -> 0

\* The attempts that still count.
Counted == IF recent THEN attempts ELSE 0

\* MUTANT of Limited: whether there were too many attempts, not how long ago.
LimitedByCount == attempts >= MAX_ATTEMPTS

\* check_limit
Limited == recent /\ lockout > 0

Check ==
    /\ attempts' = Counted
    /\ UNCHANGED <<lockout, recent>>

\* MUTANT of RecordFailed: one attempt too early.
RecordEarly(n) ==
    /\ attempts' = Counted + n
    /\ lockout' = IF Counted + n + 1 >= MAX_ATTEMPTS THEN BASE_LOCKOUT ELSE lockout
    /\ recent' = TRUE

\* n calls of record_failed, one right after the other.
RecordFailed(n) ==
    /\ attempts' = Counted + n
    /\ lockout' = IF Counted + n >= MAX_ATTEMPTS THEN Duration(Counted + n) ELSE lockout
    /\ recent' = TRUE

RecordSuccess == attempts' = 0 /\ lockout' = 0 /\ recent' = FALSE

\* A lockout ends; a quarter of an hour passes.
LockoutEnds == lockout > 0 /\ lockout' = 0 /\ UNCHANGED <<attempts, recent>>
Forgets == recent /\ recent' = FALSE /\ lockout' = 0 /\ UNCHANGED attempts
=============================================================================
