---------------------------- MODULE OneTimeCode ----------------------------
(***************************************************************************)
(* The six-digit codes sent by mail: confirmation of an address, reset of  *)
(* a password, signature of a contract (AuthOtpChallenge, one user and one *)
(* purpose), and the unlocking of the vault (VaultUnlockChallenge, one     *)
(* super-admin). A new code of the first table voids the previous ones,    *)
(* and a check looks for the latest; in the second a check names its code. *)
(*                                                                         *)
(* One action is one statement: voiding and creating are two, and so are   *)
(* loading a code, reserving an attempt and consuming it.                  *)
(***************************************************************************)
EXTENDS Integers

CONSTANTS
    MaxCodes,      \* bound: codes created in a behaviour
    MaxAttempts,   \* OTP_MAX_ATTEMPTS, MAX_ATTEMPTS
    Senders,       \* requests that send a code
    Checkers       \* requests that present one

ASSUME OtpAssumption ==
    /\ MaxCodes \in Nat
    /\ MaxAttempts \in Nat \ {0}

VARIABLES
    otpTable,     \* which of the two tables this is
    otpIssued,    \* how many codes were created: code c is the c-th
    otpExpired,   \* codes whose expiresAt has passed
    otpConsumed,  \* codes that have a consumedAt
    otpAttempts,  \* [Codes -> Nat]
    otpSend,      \* [Senders -> SendSteps]
    otpCheck,     \* [Checkers -> Checks]
    otpVoided,    \* codes that a newer one voided
    otpUses,      \* [Codes -> Nat]: checks that consumed the code
    otpCrossed    \* a request voided codes while another had yet to create its own

otpVars == <<otpTable, otpIssued, otpExpired, otpConsumed, otpAttempts,
             otpSend, otpCheck, otpVoided, otpUses, otpCrossed>>

Codes     == 1..MaxCodes
Tables    == {"auth", "vault"}
SendSteps == {"idle", "asked", "voiding"}

\* A check: what it is about to do, and with which code.
Check(step, c) == [at |-> step, code |-> c]
NoCheck == Check("idle", 0)
Checks  == [at : {"idle", "loaded", "matched"}, code : 0..MaxCodes]

\* Codes a check may load.
Unused == {c \in Codes : c <= otpIssued /\ c \notin otpConsumed}
Latest == {c \in Unused : \A other \in Unused : other <= c}

OtpInit ==
    /\ otpTable \in Tables
    /\ otpIssued = 0
    /\ otpExpired = {}
    /\ otpConsumed = {}
    /\ otpAttempts = [c \in Codes |-> 0]
    /\ otpSend = [s \in Senders |-> "idle"]
    /\ otpCheck = [k \in Checkers |-> NoCheck]
    /\ otpVoided = {}
    /\ otpUses = [c \in Codes |-> 0]
    /\ otpCrossed = FALSE

CodeExpires(c) ==
    /\ c <= otpIssued /\ c \notin otpExpired
    /\ otpExpired' = otpExpired \cup {c}
    /\ UNCHANGED <<otpTable, otpIssued, otpConsumed, otpAttempts, otpSend,
                   otpCheck, otpVoided, otpUses, otpCrossed>>

\* Resending and forgetting a password look at when the last code was sent, and
\* may stop there; registering, signing and the vault do not look.
AskCode(s) ==
    /\ otpSend[s] = "idle"
    /\ otpSend' = [otpSend EXCEPT ![s] = IF otpTable = "auth" THEN "asked" ELSE "voiding"]
    /\ UNCHANGED <<otpTable, otpIssued, otpExpired, otpConsumed, otpAttempts,
                   otpCheck, otpVoided, otpUses, otpCrossed>>

\* The first statement of createAndSendOtp.
VoidPrevious(s) ==
    /\ otpSend[s] = "asked"
    /\ otpConsumed' = otpConsumed \cup Unused
    /\ otpVoided' = otpVoided \cup Unused
    /\ otpCrossed' = (otpCrossed \/ \E other \in Senders : otpSend[other] = "voiding")
    /\ otpSend' = [otpSend EXCEPT ![s] = "voiding"]
    /\ UNCHANGED <<otpTable, otpIssued, otpExpired, otpAttempts, otpCheck, otpUses>>

\* The second one; for the vault, the only one.
CreateCode(s) ==
    /\ otpSend[s] = "voiding"
    /\ otpIssued < MaxCodes
    /\ otpIssued' = otpIssued + 1
    /\ otpSend' = [otpSend EXCEPT ![s] = "idle"]
    /\ UNCHANGED <<otpTable, otpExpired, otpConsumed, otpAttempts, otpCheck, otpVoided,
                   otpUses, otpCrossed>>

SendCrash(s) ==
    /\ otpSend[s] # "idle"
    /\ otpSend' = [otpSend EXCEPT ![s] = "idle"]
    /\ UNCHANGED <<otpTable, otpIssued, otpExpired, otpConsumed, otpAttempts,
                   otpCheck, otpVoided, otpUses, otpCrossed>>

LoadCode(k, c) ==
    /\ otpCheck[k].at = "idle"
    /\ c \in (IF otpTable = "auth" THEN Latest ELSE Unused) \ otpExpired
    /\ otpCheck' = [otpCheck EXCEPT ![k] = Check("loaded", c)]
    /\ UNCHANGED <<otpTable, otpIssued, otpExpired, otpConsumed, otpAttempts,
                   otpSend, otpVoided, otpUses, otpCrossed>>

\* The conditional increment, then the comparison with what was loaded. The
\* right code of a password reset may also be asked about without using it.
ReserveAttempt(k) ==
    LET c == otpCheck[k].code
        Free == c \notin otpConsumed /\ otpAttempts[c] < MaxAttempts
    IN  /\ otpCheck[k].at = "loaded"
        /\ otpAttempts' = IF Free THEN [otpAttempts EXCEPT ![c] = @ + 1] ELSE otpAttempts
        /\ \/ otpCheck' = [otpCheck EXCEPT ![k] = NoCheck]
           \/ /\ Free
              /\ otpCheck' = [otpCheck EXCEPT ![k] = Check("matched", c)]
        /\ UNCHANGED <<otpTable, otpIssued, otpExpired, otpConsumed, otpSend,
                       otpVoided, otpUses, otpCrossed>>

\* Mutant: the code is consumed without the condition on consumedAt.
ConsumeCode_Unconditional(k) ==
    LET c == otpCheck[k].code
    IN  /\ otpCheck[k].at = "matched"
        /\ otpUses' = [otpUses EXCEPT ![c] = @ + 1]
        /\ otpConsumed' = otpConsumed \cup {c}
        /\ otpCheck' = [otpCheck EXCEPT ![k] = NoCheck]
        /\ UNCHANGED <<otpTable, otpIssued, otpExpired, otpAttempts, otpSend,
                       otpVoided, otpCrossed>>

\* consumeOtpChallengeOnce, and its counterpart of the vault.
ConsumeCode(k) ==
    LET c == otpCheck[k].code
    IN  /\ otpCheck[k].at = "matched"
        /\ otpUses' = IF c \in otpConsumed THEN otpUses ELSE [otpUses EXCEPT ![c] = @ + 1]
        /\ otpConsumed' = otpConsumed \cup {c}
        /\ otpCheck' = [otpCheck EXCEPT ![k] = NoCheck]
        /\ UNCHANGED <<otpTable, otpIssued, otpExpired, otpAttempts, otpSend,
                       otpVoided, otpCrossed>>

OtpNext ==
    \/ \E c \in Codes : CodeExpires(c)
    \/ \E s \in Senders : AskCode(s) \/ VoidPrevious(s) \/ CreateCode(s) \/ SendCrash(s)
    \/ \E k \in Checkers, c \in Codes : LoadCode(k, c)
    \/ \E k \in Checkers : ReserveAttempt(k) \/ ConsumeCode(k)

OtpSpec == OtpInit /\ [][OtpNext]_otpVars

-----------------------------------------------------------------------------
OtpTypeOK ==
    /\ otpTable \in Tables
    /\ otpIssued \in 0..MaxCodes
    /\ otpCrossed \in BOOLEAN
    /\ otpExpired \subseteq Codes /\ otpConsumed \subseteq Codes /\ otpVoided \subseteq Codes
    /\ otpAttempts \in [Codes -> Nat] /\ otpUses \in [Codes -> Nat]
    /\ otpSend \in [Senders -> SendSteps]
    /\ otpCheck \in [Checkers -> Checks]

\* A code is accepted once at most, whatever the checks that present it at the
\* same time, and never once a newer code has voided it, even by a check that
\* had loaded it or compared it before (consumeOtpChallengeOnce). A user has one
\* code that can be used, unless two requests sent one at the same time:
\* createAndSendOtp voids and creates in two statements.
AcceptedOnce ==
    /\ \A c \in Codes : otpUses[c] <= (IF c \in otpVoided THEN 0 ELSE 1)
    /\ otpTable = "auth" /\ ~otpCrossed => \A a, b \in Unused : a = b
=============================================================================
