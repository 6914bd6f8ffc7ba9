----------------------------- MODULE LoginLock -----------------------------
(***************************************************************************)
(* The lock on logging in, for one organization and address: the row of    *)
(* LoginAttempt, shared by every instance of the API. Each login looks at  *)
(* the lock, reserves an attempt, compares the password, then either       *)
(* forgets the row or locks it when the attempts are spent. One action is  *)
(* one statement.                                                          *)
(***************************************************************************)
EXTENDS Integers

CONSTANTS
    Logins,             \* concurrent requests
    MaxLoginAttempts,   \* MAX_LOGIN_ATTEMPTS
    CountBound          \* bound on the row's count

ASSUME LoginAssumption ==
    /\ MaxLoginAttempts \in Nat \ {0}
    /\ CountBound \in Nat /\ MaxLoginAttempts < CountBound

VARIABLES
    logCount,    \* LoginAttempt.count, 0 when there is no row
    logLock,     \* LoginAttempt.lockedUntil: absent, to come, or past
    logStep,     \* [Logins -> LoginSteps]
    logEpoch,    \* how the row of a request's attempt stands: still there, or deleted since
    logTests,    \* passwords compared on account of the row's attempts
    logCrashed   \* an API process stopped in the middle of a login

logVars == <<logCount, logLock, logStep, logEpoch, logTests, logCrashed>>

Locks      == {"none", "running", "past"}
LoginSteps == {"idle", "looked", "expired", "reserved", "over", "right", "wrong"}

LoginInit ==
    /\ logCount = 0
    /\ logLock = "none"
    /\ logStep = [l \in Logins |-> "idle"]
    /\ logEpoch = [l \in Logins |-> "gone"]
    /\ logTests = 0
    /\ logCrashed = FALSE

GoTo(l, step) == logStep' = [logStep EXCEPT ![l] = step]

\* The row is deleted, and with it what was counted on it.
ForgetRow ==
    /\ logCount' = 0
    /\ logLock' = "none"
    /\ logEpoch' = [l \in Logins |-> "gone"]
    /\ logTests' = 0

\* lockLogin: only a row without a lock gets one.
LockRow == logLock' = IF logCount > 0 /\ logLock = "none" THEN "running" ELSE logLock

LockEnds ==
    /\ logLock = "running"
    /\ logLock' = "past"
    /\ UNCHANGED <<logCount, logStep, logEpoch, logTests, logCrashed>>

CheckLoginLock(l) ==
    /\ logStep[l] = "idle"
    /\ logLock # "running"
    /\ GoTo(l, IF logLock = "none" THEN "looked" ELSE "expired")
    /\ UNCHANGED <<logCount, logLock, logEpoch, logTests, logCrashed>>

DeleteExpired(l) ==
    /\ logStep[l] = "expired"
    /\ ForgetRow
    /\ GoTo(l, "looked")
    /\ UNCHANGED logCrashed

ReserveLogin(l) ==
    /\ logStep[l] = "looked"
    /\ logCount < CountBound
    /\ logCount' = logCount + 1
    /\ logEpoch' = [logEpoch EXCEPT ![l] = "there"]
    /\ GoTo(l, IF logCount' > MaxLoginAttempts THEN "over" ELSE "reserved")
    /\ UNCHANGED <<logLock, logTests, logCrashed>>

LockOver(l) ==
    /\ logStep[l] = "over"
    /\ LockRow
    /\ GoTo(l, "idle")
    /\ UNCHANGED <<logCount, logEpoch, logTests, logCrashed>>

\* An unknown organization, address or password fails here as a wrong one does.
ComparePassword(l) ==
    /\ logStep[l] = "reserved"
    /\ \E outcome \in {"right", "wrong"} : GoTo(l, outcome)
    /\ logTests' = IF logEpoch[l] = "there" THEN logTests + 1 ELSE logTests
    /\ UNCHANGED <<logCount, logLock, logEpoch, logCrashed>>

ClearAttempts(l) ==
    /\ logStep[l] = "right"
    /\ ForgetRow
    /\ GoTo(l, "idle")
    /\ UNCHANGED logCrashed

\* Mutant: the account is locked one failure too late.
RecordFailedLogin_OffByOne(l) ==
    /\ logStep[l] = "wrong"
    /\ GoTo(l, IF logCount > MaxLoginAttempts THEN "over" ELSE "idle")
    /\ UNCHANGED <<logCount, logLock, logEpoch, logTests, logCrashed>>

\* recordFailedLogin reads the count that concurrent logins have raised too.
\* Its lock is a statement of its own, that any login past the limit repeats.
RecordFailedLogin(l) ==
    /\ logStep[l] = "wrong"
    /\ GoTo(l, IF logCount >= MaxLoginAttempts THEN "over" ELSE "idle")
    /\ UNCHANGED <<logCount, logLock, logEpoch, logTests, logCrashed>>

LoginCrash(l) ==
    /\ logStep[l] # "idle"
    /\ GoTo(l, "idle")
    /\ logCrashed' = TRUE
    /\ UNCHANGED <<logCount, logLock, logEpoch, logTests>>

LoginNext ==
    \/ LockEnds
    \/ \E l \in Logins :
          \/ CheckLoginLock(l) \/ DeleteExpired(l) \/ ReserveLogin(l) \/ LockOver(l)
          \/ ComparePassword(l) \/ ClearAttempts(l) \/ RecordFailedLogin(l) \/ LoginCrash(l)

LoginSpec == LoginInit /\ [][LoginNext]_logVars

-----------------------------------------------------------------------------
LoginTypeOK ==
    /\ logCount \in 0..CountBound
    /\ logLock \in Locks
    /\ logStep \in [Logins -> LoginSteps]
    /\ logEpoch \in [Logins -> {"there", "gone"}]
    /\ logTests \in Nat
    /\ logCrashed \in BOOLEAN

\* On account of one row, logins that run at the same time compare no more
\* passwords than the limit, and when none is running an account whose attempts
\* are spent is locked, unless a process stopped before locking it.
AttemptsSpentLocked ==
    /\ logTests <= MaxLoginAttempts
    /\ logCount >= MaxLoginAttempts /\ ~logCrashed /\ (\A l \in Logins : logStep[l] = "idle")
          => logLock # "none"
=============================================================================
