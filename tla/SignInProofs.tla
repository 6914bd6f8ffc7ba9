---------------------------- MODULE SignInProofs ----------------------------
(***************************************************************************)
(* Proofs about OneTimeCode, LoginLock and Accounts, for any requests,     *)
(* limits, codes, organizations and invitations.                           *)
(***************************************************************************)
EXTENDS OneTimeCode, LoginLock, Accounts, FiniteSetTheorems, TLAPS

-----------------------------------------------------------------------------
(* One-time codes.                                                         *)

\* What a code was used for is written in its row.
UsesInv ==
    /\ otpVoided \subseteq otpConsumed
    /\ \A c \in Codes :
          otpUses[c] # 0 => otpUses[c] = 1 /\ c \in otpConsumed /\ c \notin otpVoided
    /\ \A k \in Checkers : otpCheck[k].at # "idle" => otpCheck[k].code \in Codes

\* Unless two requests crossed, one at most has voided codes and not created
\* its own, and as long as it has not there is no code to be used.
SendInv ==
    otpTable = "auth" /\ ~otpCrossed =>
        /\ \A s, t \in Senders : otpSend[s] = "voiding" /\ otpSend[t] = "voiding" => s = t
        /\ \A s \in Senders : otpSend[s] = "voiding" => Unused = {}
        /\ \A a, b \in Unused : a = b

OtpInv == OtpTypeOK /\ UsesInv /\ SendInv

LEMMA OtpInitInv == OtpInit => OtpInv
<1> SUFFICES ASSUME OtpInit PROVE OtpInv
  OBVIOUS
<1>1. OtpTypeOK
  <2>1. NoCheck \in Checks
    BY OtpAssumption DEF NoCheck, Check, Checks
  <2>2. otpCheck \in [Checkers -> Checks]
    BY <2>1 DEF OtpInit
  <2>3. otpSend \in [Senders -> SendSteps]
    BY DEF OtpInit, SendSteps
  <2>4. otpAttempts \in [Codes -> Nat] /\ otpUses \in [Codes -> Nat]
    BY DEF OtpInit
  <2>5. otpIssued \in 0..MaxCodes
    BY OtpAssumption DEF OtpInit
  <2> QED
    BY <2>2, <2>3, <2>4, <2>5 DEF OtpInit, OtpTypeOK
<1>2. UsesInv
  BY DEF OtpInit, UsesInv, NoCheck, Check
<1>3. SendInv
  BY OtpAssumption DEF OtpInit, SendInv, Unused, Codes
<1> QED
  BY <1>1, <1>2, <1>3 DEF OtpInv

\* A request that sends a code.
LEMMA SenderKeeps ==
    ASSUME OtpInv, NEW s \in Senders,
           AskCode(s) \/ VoidPrevious(s) \/ CreateCode(s) \/ SendCrash(s)
    PROVE  OtpInv'
<1>1. CASE AskCode(s)
  <2>1. OtpTypeOK'
    BY <1>1 DEF AskCode, OtpInv, OtpTypeOK, SendSteps
  <2>2. UsesInv'
    BY <1>1 DEF AskCode, OtpInv, UsesInv
  <2>3. SendInv'
    BY <1>1 DEF AskCode, OtpInv, OtpTypeOK, SendInv, Unused
  <2> QED
    BY <2>1, <2>2, <2>3 DEF OtpInv
<1>2. CASE VoidPrevious(s)
  <2>1. Unused \subseteq Codes /\ Unused \cap otpConsumed = {}
    BY DEF Unused
  <2>2. OtpTypeOK'
    BY <1>2, <2>1 DEF VoidPrevious, OtpInv, OtpTypeOK, SendSteps
  <2>3. UsesInv'
    BY <1>2, <2>1 DEF VoidPrevious, OtpInv, UsesInv
  <2>4. Unused' = {}
    BY <1>2 DEF VoidPrevious, Unused
  <2>5. SendInv'
    BY <1>2, <2>4 DEF VoidPrevious, OtpInv, OtpTypeOK, SendInv
  <2> QED
    BY <2>2, <2>3, <2>5 DEF OtpInv
<1>3. CASE CreateCode(s)
  <2>1. OtpTypeOK'
    BY <1>3, OtpAssumption DEF CreateCode, OtpInv, OtpTypeOK, SendSteps
  <2>2. UsesInv'
    BY <1>3 DEF CreateCode, OtpInv, UsesInv
  <2>3. SendInv'
    <3> SUFFICES ASSUME otpTable = "auth", ~otpCrossed
                 PROVE  /\ \A r, t \in Senders : otpSend'[r] = "voiding" /\ otpSend'[t] = "voiding" => r = t
                        /\ \A r \in Senders : otpSend'[r] = "voiding" => Unused' = {}
                        /\ \A a, b \in Unused' : a = b
      BY <1>3 DEF SendInv, CreateCode
    <3>1. Unused = {} /\ \A r \in Senders : otpSend[r] = "voiding" => r = s
      BY <1>3 DEF CreateCode, OtpInv, SendInv
    <3>2. \A r \in Senders : otpSend'[r] # "voiding"
      BY <1>3, <3>1 DEF CreateCode, OtpInv, OtpTypeOK
    <3>3. Unused' \subseteq {otpIssued + 1}
      <4> SUFFICES ASSUME NEW c \in Unused' PROVE c = otpIssued + 1
        OBVIOUS
      <4>1. c \in Codes /\ c <= otpIssued + 1 /\ c \notin otpConsumed
        BY <1>3 DEF CreateCode, Unused, Codes
      <4>2. ~(c <= otpIssued)
        BY <3>1, <4>1 DEF Unused
      <4> QED
        BY <4>1, <4>2, OtpAssumption DEF OtpInv, OtpTypeOK, Codes
    <3> QED
      BY <3>2, <3>3
  <2> QED
    BY <2>1, <2>2, <2>3 DEF OtpInv
<1>4. CASE SendCrash(s)
  <2>1. OtpTypeOK'
    BY <1>4 DEF SendCrash, OtpInv, OtpTypeOK, SendSteps
  <2>2. UsesInv'
    BY <1>4 DEF SendCrash, OtpInv, UsesInv
  <2>3. SendInv'
    BY <1>4 DEF SendCrash, OtpInv, OtpTypeOK, SendInv, Unused
  <2> QED
    BY <2>1, <2>2, <2>3 DEF OtpInv
<1> QED
  BY <1>1, <1>2, <1>3, <1>4

\* A request that presents a code consumes at most the code that it loaded.
LEMMA CheckerKeeps ==
    ASSUME OtpInv, NEW k \in Checkers,
           \/ \E c \in Codes : LoadCode(k, c)
           \/ ReserveAttempt(k) \/ ConsumeCode(k)
    PROVE  OtpInv'
<1>1. CASE \E c \in Codes : LoadCode(k, c)
  <2> PICK c \in Codes : LoadCode(k, c)
    BY <1>1
  <2> DEFINE loaded == Check("loaded", c)
  <2>1. loaded \in Checks /\ loaded.code \in Codes
    BY OtpAssumption DEF Check, Checks, Codes
  <2>2. otpCheck' = [otpCheck EXCEPT ![k] = loaded]
    BY DEF LoadCode
  <2> HIDE DEF loaded
  <2>3. OtpTypeOK'
    BY <2>1, <2>2 DEF LoadCode, OtpInv, OtpTypeOK
  <2>4. UsesInv'
    BY <2>1, <2>2 DEF LoadCode, OtpInv, OtpTypeOK, UsesInv
  <2>5. SendInv'
    BY DEF LoadCode, OtpInv, SendInv, Unused
  <2> QED
    BY <2>3, <2>4, <2>5 DEF OtpInv
<1>2. CASE ReserveAttempt(k)
  <2> DEFINE c == otpCheck[k].code
             matched == Check("matched", c)
  <2>1. c \in Codes
    BY <1>2 DEF ReserveAttempt, OtpInv, UsesInv
  <2>2. matched \in Checks /\ matched.code \in Codes /\ NoCheck \in Checks /\ NoCheck.at = "idle"
    BY <2>1, OtpAssumption DEF Check, Checks, NoCheck, Codes
  <2>3. otpCheck' = [otpCheck EXCEPT ![k] = NoCheck] \/ otpCheck' = [otpCheck EXCEPT ![k] = matched]
    BY <1>2 DEF ReserveAttempt
  <2>4. otpAttempts' = otpAttempts \/ otpAttempts' = [otpAttempts EXCEPT ![c] = @ + 1]
    BY <1>2 DEF ReserveAttempt
  <2>5. UNCHANGED <<otpTable, otpIssued, otpExpired, otpConsumed, otpSend, otpVoided, otpUses, otpCrossed>>
    BY <1>2 DEF ReserveAttempt
  <2> HIDE DEF c, matched
  <2>6. OtpTypeOK'
    BY <2>1, <2>2, <2>3, <2>4, <2>5 DEF OtpInv, OtpTypeOK
  <2>7. UsesInv'
    BY <2>2, <2>3, <2>5 DEF OtpInv, OtpTypeOK, UsesInv
  <2>8. SendInv'
    BY <2>5 DEF OtpInv, SendInv, Unused
  <2> QED
    BY <2>6, <2>7, <2>8 DEF OtpInv
<1>3. CASE ConsumeCode(k)
  <2> DEFINE c == otpCheck[k].code
  <2>1. c \in Codes
    BY <1>3 DEF ConsumeCode, OtpInv, UsesInv
  <2>2. NoCheck \in Checks /\ NoCheck.at = "idle" /\ otpCheck' = [otpCheck EXCEPT ![k] = NoCheck]
    BY <1>3, OtpAssumption DEF ConsumeCode, Check, Checks, NoCheck
  <2>3. /\ otpUses' = IF c \in otpConsumed THEN otpUses ELSE [otpUses EXCEPT ![c] = @ + 1]
        /\ otpConsumed' = otpConsumed \cup {c}
        /\ UNCHANGED <<otpTable, otpIssued, otpExpired, otpAttempts, otpSend, otpVoided, otpCrossed>>
    BY <1>3 DEF ConsumeCode
  <2> HIDE DEF c
  <2>4. OtpTypeOK'
    BY <2>1, <2>2, <2>3 DEF OtpInv, OtpTypeOK
  <2>5. UsesInv'
    BY <2>1, <2>2, <2>3 DEF OtpInv, OtpTypeOK, UsesInv
  <2>6. Unused' \subseteq Unused
    BY <2>3 DEF Unused
  <2>7. SendInv'
    BY <2>3, <2>6 DEF OtpInv, SendInv
  <2> QED
    BY <2>4, <2>5, <2>7 DEF OtpInv
<1> QED
  BY <1>1, <1>2, <1>3

LEMMA OtpNextInv == OtpInv /\ [OtpNext]_otpVars => OtpInv'
<1> SUFFICES ASSUME OtpInv, [OtpNext]_otpVars PROVE OtpInv'
  OBVIOUS
<1>1. ASSUME NEW c \in Codes, CodeExpires(c) PROVE OtpInv'
  BY <1>1 DEF CodeExpires, OtpInv, OtpTypeOK, UsesInv, SendInv, Unused
<1>2. ASSUME UNCHANGED otpVars PROVE OtpInv'
  BY <1>2 DEF otpVars, OtpInv, OtpTypeOK, UsesInv, SendInv, Unused
<1> QED
  BY <1>1, <1>2, SenderKeeps, CheckerKeeps DEF OtpNext

\* A code is accepted once at most, and not once a newer one voided it.
THEOREM CodesOnce == OtpSpec => []AcceptedOnce
<1>1. OtpInv => AcceptedOnce
  BY DEF OtpInv, OtpTypeOK, UsesInv, SendInv, AcceptedOnce
<1> QED
  BY <1>1, OtpInitInv, OtpNextInv, PTL DEF OtpSpec

\* Codes, requests and checks keep their types.
THEOREM CodeTypes == OtpSpec => []OtpTypeOK
<1>1. OtpInv => OtpTypeOK
  BY DEF OtpInv
<1> QED
  BY <1>1, OtpInitInv, OtpNextInv, PTL DEF OtpSpec

-----------------------------------------------------------------------------
(* The lock on logging in. The attempts of the row are at least the        *)
(* passwords compared on its account and those about to be.                *)

Reserved == {l \in Logins : logStep[l] = "reserved" /\ logEpoch[l] = "there"}

TestsInv ==
    /\ IsFiniteSet(Reserved)
    /\ logTests + Cardinality(Reserved) <= logCount
    /\ logTests + Cardinality(Reserved) <= MaxLoginAttempts

\* As long as spent attempts have no lock, a login that will set it is running.
LockInv ==
    logCount >= MaxLoginAttempts /\ ~logCrashed /\ logLock = "none"
        => \E l \in Logins :
              /\ logEpoch[l] = "there"
              /\ logStep[l] \in {"reserved", "right", "wrong", "over"}

LoginInv == LoginTypeOK /\ TestsInv /\ LockInv

LEMMA LoginInitInv == LoginInit => LoginInv
<1> SUFFICES ASSUME LoginInit PROVE LoginInv
  OBVIOUS
<1>1. LoginTypeOK
  <2>1. logStep \in [Logins -> LoginSteps] /\ logEpoch \in [Logins -> {"there", "gone"}]
    BY DEF LoginInit, LoginSteps
  <2>2. logCount \in 0..CountBound /\ logTests \in Nat /\ logLock \in Locks
    BY LoginAssumption DEF LoginInit, Locks
  <2> QED
    BY <2>1, <2>2 DEF LoginInit, LoginTypeOK
<1>2. Reserved = {}
  BY DEF LoginInit, Reserved
<1>3. TestsInv
  BY <1>2, FS_EmptySet, LoginAssumption DEF LoginInit, TestsInv
<1>4. LockInv
  BY LoginAssumption DEF LoginInit, LockInv
<1> QED
  BY <1>1, <1>3, <1>4 DEF LoginInv

\* Fewer logins about to compare, as many passwords compared.
LEMMA TestsKept ==
    ASSUME LoginInv, Reserved' \subseteq Reserved,
           logTests' = logTests, logCount' = logCount
    PROVE  TestsInv'
<1>1. /\ IsFiniteSet(Reserved) /\ IsFiniteSet(Reserved')
      /\ Cardinality(Reserved) \in Nat /\ Cardinality(Reserved') \in Nat
      /\ Cardinality(Reserved') <= Cardinality(Reserved)
  BY FS_Subset, FS_CardinalityType DEF LoginInv, TestsInv
<1>2. /\ logTests + Cardinality(Reserved) <= logCount
      /\ logTests + Cardinality(Reserved) <= MaxLoginAttempts
  BY DEF LoginInv, TestsInv
<1>3. logTests \in Nat /\ logCount \in Nat /\ MaxLoginAttempts \in Nat
  BY LoginAssumption DEF LoginInv, LoginTypeOK
<1> QED
  BY <1>1, <1>2, <1>3 DEF TestsInv

\* A step of one login that leaves the row's count and what was compared.
LEMMA LoginMoves ==
    ASSUME LoginInv, NEW l \in Logins, NEW step \in LoginSteps \ {"reserved"}, GoTo(l, step),
           logCount' = logCount, logTests' = logTests, logEpoch' = logEpoch,
           logLock' \in Locks, logCrashed' \in BOOLEAN,
           logLock' = "none" => logLock = "none",
           logCrashed => logCrashed',
           logLock' = "none" /\ ~logCrashed' /\ logCount >= MaxLoginAttempts =>
              \/ logStep[l] \in {"idle", "looked", "expired"}
              \/ step \in {"right", "wrong", "over"}
    PROVE  LoginInv'
<1>1. LoginTypeOK'
  BY DEF LoginInv, LoginTypeOK, GoTo
<1>2. Reserved' \subseteq Reserved
  BY DEF GoTo, Reserved, LoginInv, LoginTypeOK
<1>3. TestsInv'
  BY <1>2, TestsKept
<1>4. LockInv'
  BY DEF LockInv, LoginInv, LoginTypeOK, GoTo
<1> QED
  BY <1>1, <1>3, <1>4 DEF LoginInv

\* A new row starts from nothing.
LEMMA ForgetKeeps ==
    ASSUME LoginInv, NEW l \in Logins, NEW step \in LoginSteps, GoTo(l, step), ForgetRow,
           UNCHANGED logCrashed
    PROVE  LoginInv'
<1>1. LoginTypeOK'
  BY LoginAssumption DEF LoginInv, LoginTypeOK, GoTo, ForgetRow, Locks
<1>2. Reserved' = {}
  BY DEF Reserved, ForgetRow
<1>3. TestsInv'
  BY <1>2, FS_EmptySet, LoginAssumption DEF TestsInv, ForgetRow
<1>4. LockInv'
  BY LoginAssumption DEF LockInv, ForgetRow
<1> QED
  BY <1>1, <1>3, <1>4 DEF LoginInv

LEMMA ReserveKeeps ==
    ASSUME LoginInv, NEW l \in Logins, ReserveLogin(l)
    PROVE  LoginInv'
<1>1. LoginTypeOK'
  BY LoginAssumption DEF ReserveLogin, GoTo, LoginInv, LoginTypeOK, LoginSteps
<1>2. TestsInv'
  <2>1. /\ logTests \in Nat /\ logCount \in Nat /\ MaxLoginAttempts \in Nat
        /\ logTests' = logTests /\ logCount' = logCount + 1
    BY LoginAssumption DEF ReserveLogin, LoginInv, LoginTypeOK
  <2>2. IsFiniteSet(Reserved) /\ Cardinality(Reserved) \in Nat
    BY FS_CardinalityType DEF LoginInv, TestsInv
  <2>3. /\ logTests + Cardinality(Reserved) <= logCount
        /\ logTests + Cardinality(Reserved) <= MaxLoginAttempts
    BY DEF LoginInv, TestsInv
  <2>4. CASE logCount + 1 > MaxLoginAttempts
    <3>1. Reserved' = Reserved
      BY <2>1, <2>4 DEF ReserveLogin, GoTo, Reserved, LoginInv, LoginTypeOK
    <3> QED
      BY <3>1, <2>1, <2>2, <2>3 DEF TestsInv
  <2>5. CASE ~(logCount + 1 > MaxLoginAttempts)
    <3>1. Reserved' = Reserved \cup {l} /\ l \notin Reserved
      BY <2>1, <2>5 DEF ReserveLogin, GoTo, Reserved, LoginInv, LoginTypeOK
    <3>2. IsFiniteSet(Reserved') /\ Cardinality(Reserved') = Cardinality(Reserved) + 1
      BY <3>1, <2>2, FS_AddElement
    <3>3. logTests + Cardinality(Reserved) + 1 <= MaxLoginAttempts
      BY <2>1, <2>2, <2>3, <2>5
    <3> QED
      BY <3>2, <3>3, <2>1, <2>2, <2>3 DEF TestsInv
  <2> QED
    BY <2>4, <2>5
<1>3. LockInv'
  BY DEF LockInv, ReserveLogin, GoTo, LoginInv, LoginTypeOK
<1> QED
  BY <1>1, <1>2, <1>3 DEF LoginInv

LEMMA CompareKeeps ==
    ASSUME LoginInv, NEW l \in Logins, ComparePassword(l)
    PROVE  LoginInv'
<1>1. PICK outcome \in {"right", "wrong"} : GoTo(l, outcome)
  BY DEF ComparePassword
<1>2. logTests \in Nat /\ logCount \in Nat /\ MaxLoginAttempts \in Nat
  BY LoginAssumption DEF LoginInv, LoginTypeOK
<1>3. CASE logEpoch[l] = "there"
  <2>1. LoginTypeOK'
    BY <1>1, <1>2, <1>3 DEF ComparePassword, GoTo, LoginInv, LoginTypeOK, LoginSteps
  <2>2. TestsInv'
    <3>1. Reserved' = Reserved \ {l} /\ l \in Reserved
      BY <1>1, <1>3 DEF ComparePassword, GoTo, Reserved, LoginInv, LoginTypeOK
    <3>2. IsFiniteSet(Reserved) /\ Cardinality(Reserved) \in Nat
      BY FS_CardinalityType DEF LoginInv, TestsInv
    <3>3. IsFiniteSet(Reserved') /\ Cardinality(Reserved') = Cardinality(Reserved) - 1
      BY <3>1, <3>2, FS_RemoveElement
    <3>4. logTests' = logTests + 1 /\ logCount' = logCount
      BY <1>3 DEF ComparePassword
    <3> QED
      BY <3>2, <3>3, <3>4, <1>2 DEF LoginInv, TestsInv
  <2>3. LockInv'
    BY <1>1 DEF ComparePassword, GoTo, LoginInv, LoginTypeOK, LockInv
  <2> QED
    BY <2>1, <2>2, <2>3 DEF LoginInv
<1>4. CASE logEpoch[l] # "there"
  <2>1. UNCHANGED <<logCount, logLock, logEpoch, logTests, logCrashed>>
    BY <1>4 DEF ComparePassword
  <2>2. outcome \in LoginSteps \ {"reserved"}
    BY DEF LoginSteps
  <2> QED
    BY <1>1, <2>1, <2>2, LoginMoves DEF LoginInv, LoginTypeOK
<1> QED
  BY <1>3, <1>4

LEMMA LoginNextInv == LoginInv /\ [LoginNext]_logVars => LoginInv'
<1> SUFFICES ASSUME LoginInv, [LoginNext]_logVars PROVE LoginInv'
  OBVIOUS
<1> USE DEF LoginSteps
<1>1. ASSUME LockEnds \/ UNCHANGED logVars PROVE LoginInv'
  <2>1. UNCHANGED <<logCount, logStep, logEpoch, logTests, logCrashed>> /\ logLock' \in Locks
    BY <1>1 DEF LockEnds, logVars, Locks, LoginInv, LoginTypeOK
  <2>2. Reserved' = Reserved
    BY <2>1 DEF Reserved
  <2>3. logLock' = "none" => logLock = "none"
    BY <1>1 DEF LockEnds, logVars
  <2> QED
    BY <2>1, <2>2, <2>3, TestsKept DEF LoginInv, LoginTypeOK, LockInv
<1>2. ASSUME NEW l \in Logins, CheckLoginLock(l) PROVE LoginInv'
  BY <1>2, LoginMoves DEF CheckLoginLock, LoginInv, LoginTypeOK
<1>3. ASSUME NEW l \in Logins, DeleteExpired(l) \/ ClearAttempts(l) PROVE LoginInv'
  BY <1>3, ForgetKeeps DEF DeleteExpired, ClearAttempts
<1>4. ASSUME NEW l \in Logins, LockOver(l) PROVE LoginInv'
  <2>1. logLock' \in Locks /\ (logLock' = "none" => logLock = "none" /\ logCount = 0)
    BY <1>4 DEF LockOver, LockRow, Locks, LoginInv, LoginTypeOK
  <2> QED
    BY <1>4, <2>1, LoginMoves, LoginAssumption DEF LockOver, LoginInv, LoginTypeOK
<1>5. ASSUME NEW l \in Logins, RecordFailedLogin(l) PROVE LoginInv'
  BY <1>5, LoginMoves DEF RecordFailedLogin, LoginInv, LoginTypeOK
<1>6. ASSUME NEW l \in Logins, LoginCrash(l) PROVE LoginInv'
  BY <1>6, LoginMoves DEF LoginCrash, LoginInv, LoginTypeOK
<1> QED
  BY <1>1, <1>2, <1>3, <1>4, <1>5, <1>6, ReserveKeeps, CompareKeeps DEF LoginNext

\* However many logins run, one row pays for no more passwords than its limit,
\* and spent attempts end in a lock.
THEOREM AttemptsBounded == LoginSpec => []AttemptsSpentLocked
<1>1. LoginInv => AttemptsSpentLocked
  <2> SUFFICES ASSUME LoginInv PROVE AttemptsSpentLocked
    OBVIOUS
  <2>1. Cardinality(Reserved) \in Nat
    BY FS_CardinalityType DEF LoginInv, TestsInv
  <2>2. logTests <= MaxLoginAttempts
    BY <2>1, LoginAssumption DEF LoginInv, LoginTypeOK, TestsInv
  <2> QED
    BY <2>2 DEF LoginInv, LockInv, AttemptsSpentLocked
<1> QED
  BY <1>1, LoginInitInv, LoginNextInv, PTL DEF LoginSpec

\* The row of the lock and the logins keep their types.
THEOREM LockTypes == LoginSpec => []LoginTypeOK
<1>1. LoginInv => LoginTypeOK
  BY DEF LoginInv
<1> QED
  BY <1>1, LoginInitInv, LoginNextInv, PTL DEF LoginSpec

-----------------------------------------------------------------------------
(* The accounts of one address.                                            *)

AboutInvite == {"expiring", "accepting", "claiming", "revoking"}

\* What a request holds: an organization that exists, an account of the
\* address, or an invitation.
ReqFine(q) ==
    /\ q \in Reqs
    /\ q.at \in SignUpSteps => q.id \in Orgs
    /\ q.at = "linking" => q.id \in accUsers
    /\ q.at \in AboutInvite => q.id \in Invites

ReqInv == accReq \in [AccRequests -> Reqs] /\ \A r \in AccRequests : ReqFine(accReq[r])

RowsInv ==
    /\ accOrgs \in Orgs
    /\ accWallets \subseteq Orgs /\ accUsers \subseteq Orgs
    /\ accVerified \subseteq accUsers /\ accLink \subseteq accUsers
    /\ accInvite \in [Invites -> InvStates] /\ accLapsed \subseteq Invites

Own == accUsers \ {Host}

\* Unless two sign-ups crossed, one at most is running, it found no account,
\* and none was created since, but for an invitation.
OwnInv ==
    /\ accCrossed \in BOOLEAN
    /\ ~accCrossed =>
          /\ \A a, b \in Own : a = b
          /\ \A r, s \in AccRequests :
                accReq[r].at \in SignUpSteps /\ accReq[s].at \in SignUpSteps => r = s
          /\ \A r \in AccRequests : accReq[r].at \in SignUpSteps => Own = {}

AccInv == ReqInv /\ RowsInv /\ OwnInv

LEMMA AccInitInv == AccInit => AccInv
<1> SUFFICES ASSUME AccInit PROVE AccInv
  OBVIOUS
<1>1. NoReq \in Reqs /\ NoReq.at = "idle"
  BY DEF NoReq, Req, Reqs, AccSteps
<1>2. accReq \in [AccRequests -> Reqs] /\ \A r \in AccRequests : accReq[r] = NoReq
  BY <1>1 DEF AccInit
<1>3. ReqInv
  BY <1>1, <1>2 DEF ReqInv, ReqFine, SignUpSteps, AboutInvite
<1>4. accInvite \in [Invites -> InvStates]
  BY DEF AccInit, InvStates
<1>5. accOrgs \in Orgs /\ accWallets \subseteq Orgs
  BY AccAssumption DEF AccInit, Orgs, Host
<1>6. RowsInv
  BY <1>4, <1>5 DEF AccInit, RowsInv
<1>7. OwnInv
  BY <1>1, <1>2 DEF AccInit, OwnInv, Own, SignUpSteps
<1> QED
  BY <1>3, <1>6, <1>7 DEF AccInv

\* A request moves to a step that is not of a sign-up, and no account is lost;
\* what it holds is fine.
LEMMA ReqMoves ==
    ASSUME AccInv, NEW r \in AccRequests, NEW q \in Reqs,
           accReq' = [accReq EXCEPT ![r] = q],
           q.at \notin SignUpSteps \/ (accReq[r].at \in SignUpSteps /\ q.id \in Orgs),
           q.at = "linking" => q.id \in accUsers',
           q.at \in AboutInvite => q.id \in Invites,
           accUsers \subseteq accUsers', UNCHANGED accCrossed,
           \/ accUsers' \subseteq accUsers \cup {Host}
           \/ /\ accReq[r].at \in SignUpSteps /\ q.at \notin SignUpSteps
              /\ accUsers' = accUsers \cup {accReq[r].id}
    PROVE  ReqInv' /\ OwnInv'
<1>1. ReqInv'
  BY DEF AccInv, ReqInv, ReqFine
<1>2. OwnInv'
  <2> SUFFICES ASSUME ~accCrossed
               PROVE  /\ \A a, b \in Own' : a = b
                      /\ \A s, t \in AccRequests :
                            accReq'[s].at \in SignUpSteps /\ accReq'[t].at \in SignUpSteps => s = t
                      /\ \A s \in AccRequests : accReq'[s].at \in SignUpSteps => Own' = {}
    BY DEF OwnInv, AccInv
  <2>1. \A s \in AccRequests : accReq'[s].at \in SignUpSteps => accReq[s].at \in SignUpSteps
    BY DEF AccInv, ReqInv
  <2>2. /\ \A a, b \in Own : a = b
        /\ \A s, t \in AccRequests :
              accReq[s].at \in SignUpSteps /\ accReq[t].at \in SignUpSteps => s = t
        /\ \A s \in AccRequests : accReq[s].at \in SignUpSteps => Own = {}
    BY DEF AccInv, OwnInv
  <2>3. CASE accUsers' \subseteq accUsers \cup {Host}
    <3>1. Own' = Own
      BY <2>3 DEF Own
    <3> QED
      BY <2>1, <2>2, <3>1
  <2>4. CASE /\ accReq[r].at \in SignUpSteps /\ q.at \notin SignUpSteps
             /\ accUsers' = accUsers \cup {accReq[r].id}
    <3>1. Own' \subseteq {accReq[r].id}
      BY <2>2, <2>4 DEF Own
    <3>2. \A s \in AccRequests : accReq'[s].at \notin SignUpSteps
      BY <2>1, <2>2, <2>4 DEF AccInv, ReqInv
    <3> QED
      BY <3>1, <3>2
  <2> QED
    BY <2>3, <2>4
<1> QED
  BY <1>1, <1>2

\* A sign-up begins: there is no account.
LEMMA SignUpBegins ==
    ASSUME AccInv, NEW r \in AccRequests, NEW google \in BOOLEAN, StartSignUp(r, google),
           accUsers = {}, UNCHANGED <<orgs, members, invites>>
    PROVE  AccInv'
<1> DEFINE q == Req("signing", google, 0)
<1>1. q \in Reqs /\ q.at = "signing" /\ q.id = 0
  BY DEF Req, Reqs, AccSteps, SignUpSteps
<1>2. accReq' = [accReq EXCEPT ![r] = q]
  BY DEF StartSignUp, Move
<1>3. accUsers' = {} /\ RowsInv'
  BY DEF AccInv, RowsInv, orgs, members, invites
<1> HIDE DEF q
<1>4. 0 \in Orgs
  BY AccAssumption DEF Orgs
<1>5. ReqInv'
  BY <1>1, <1>2, <1>3, <1>4 DEF AccInv, ReqInv, ReqFine, SignUpSteps, AboutInvite, members
<1>6. accCrossed' \in BOOLEAN
  BY DEF StartSignUp, AccInv, OwnInv
<1>7. ~accCrossed' => \A s \in AccRequests : accReq[s].at \notin SignUpSteps
  BY DEF StartSignUp
<1>8. OwnInv'
  BY <1>2, <1>3, <1>6, <1>7 DEF OwnInv, Own, AccInv, ReqInv
<1> QED
  BY <1>3, <1>5, <1>8 DEF AccInv

\* A request is over, or stays what it is.
LEMMA DoneFine == NoReq \in Reqs /\ NoReq.at = "idle" /\ NoReq.at \notin SignUpSteps \cup AboutInvite
  BY DEF NoReq, Req, Reqs, AccSteps, SignUpSteps, AboutInvite

LEMMA MoveFine ==
    ASSUME NEW step \in AccSteps, NEW google \in BOOLEAN, NEW id \in Nat
    PROVE  /\ Req(step, google, id) \in Reqs
           /\ Req(step, google, id).at = step /\ Req(step, google, id).id = id
  BY DEF Req, Reqs

\* A statement that changes no row: the request goes on with what it holds.
LEMMA RequestOnly ==
    ASSUME AccInv, NEW r \in AccRequests, NEW q \in Reqs,
           accReq' = [accReq EXCEPT ![r] = q],
           UNCHANGED <<orgs, members, invites, accCrossed>>,
           q.at \notin SignUpSteps,
           q.at = "linking" => q.id \in accUsers,
           q.at \in AboutInvite => q.id \in Invites
    PROVE  AccInv'
<1>1. RowsInv' /\ UNCHANGED accUsers
  BY DEF AccInv, RowsInv, orgs, members, invites
<1> QED
  BY <1>1, ReqMoves DEF AccInv

LEMMA RequestOver ==
    ASSUME AccInv, NEW r \in AccRequests, Done(r), RowsInv',
           accUsers \subseteq accUsers', accUsers' \subseteq accUsers \cup {Host},
           UNCHANGED accCrossed
    PROVE  AccInv'
<1>1. accReq' = [accReq EXCEPT ![r] = NoReq]
  BY DEF Done
<1> QED
  BY <1>1, DoneFine, ReqMoves DEF AccInv

\* What the request of a step holds.
LEMMA Holds ==
    ASSUME AccInv, NEW r \in AccRequests
    PROVE  /\ accReq[r] \in Reqs
           /\ accReq[r].at \in AccSteps /\ accReq[r].google \in BOOLEAN /\ accReq[r].id \in Nat
           /\ accReq[r].at \in SignUpSteps => accReq[r].id \in Orgs
           /\ accReq[r].at = "linking" => accReq[r].id \in accUsers
           /\ accReq[r].at \in AboutInvite => accReq[r].id \in Invites
<1>1. accReq[r] \in Reqs /\ ReqFine(accReq[r])
  BY DEF AccInv, ReqInv
<1>2. accReq[r].at \in AccSteps /\ accReq[r].google \in BOOLEAN /\ accReq[r].id \in Nat
  BY <1>1 DEF Reqs
<1> QED
  BY <1>1, <1>2 DEF ReqFine

\* Reading: FindLink, the invitations that are read, and where they lead.
LEMMA ReadsKeep ==
    ASSUME AccInv, NEW r \in AccRequests,
           \/ FindLink(r) \/ CreateInvitation(r) \/ CheckMember(r) \/ AccCrash(r)
           \/ \E i \in Invites : ReadInvitation(r, i) \/ ReadRevoked(r, i)
    PROVE  AccInv'
<1> DEFINE Kept == UNCHANGED <<orgs, members, invites, accCrossed>>
<1>1. ASSUME Kept, Done(r) PROVE AccInv'
  BY <1>1, DoneFine, RequestOnly DEF Done
<1>2. ASSUME Kept, NEW step \in {"looking", "inviting"}, NEW google \in BOOLEAN,
             Move(r, step, google, 0)
      PROVE  AccInv'
  <2>1. step \in AccSteps /\ step \notin SignUpSteps \cup AboutInvite \cup {"linking"} /\ 0 \in Nat
    BY DEF AccSteps, SignUpSteps, AboutInvite
  <2> DEFINE q == Req(step, google, 0)
  <2>2. q \in Reqs /\ q.at = step /\ accReq' = [accReq EXCEPT ![r] = q]
    BY <1>2, <2>1, MoveFine DEF Move
  <2> HIDE DEF q
  <2> QED
    BY <1>2, <2>1, <2>2, RequestOnly
<1>3. ASSUME Kept, NEW step \in AboutInvite, NEW i \in Invites, Move(r, step, FALSE, i)
      PROVE  AccInv'
  <2>1. step \in AccSteps /\ step \notin SignUpSteps \cup {"linking"} /\ i \in Nat
    BY AccAssumption DEF AccSteps, SignUpSteps, AboutInvite, Invites
  <2> DEFINE q == Req(step, FALSE, i)
  <2>2. q \in Reqs /\ q.at = step /\ q.id = i /\ accReq' = [accReq EXCEPT ![r] = q]
    BY <1>3, <2>1, MoveFine DEF Move
  <2> HIDE DEF q
  <2> QED
    BY <1>3, <2>1, <2>2, RequestOnly
<1> HIDE DEF Kept
<1>4. CASE FindLink(r) \/ CreateInvitation(r)
  BY <1>2, <1>4 DEF FindLink, CreateInvitation, Kept
<1>5. CASE CheckMember(r)
  <2>1. accReq[r].id \in Invites
    BY <1>5, Holds DEF CheckMember, AtStep, AboutInvite
  <2>2. Done(r) \/ Move(r, "claiming", FALSE, accReq[r].id)
    BY <1>5 DEF CheckMember
  <2> QED
    BY <1>1, <1>3, <1>5, <2>1, <2>2 DEF CheckMember, AboutInvite, Kept
<1>6. CASE AccCrash(r)
  BY <1>1, <1>6 DEF AccCrash, Kept
<1>7. ASSUME NEW i \in Invites, ReadInvitation(r, i) \/ ReadRevoked(r, i) PROVE AccInv'
  <2>1. PICK step \in AboutInvite : Move(r, step, FALSE, i)
    BY <1>7 DEF ReadInvitation, ReadRevoked, AboutInvite
  <2> QED
    BY <1>3, <1>7, <2>1 DEF ReadInvitation, ReadRevoked, Kept
<1> QED
  BY <1>4, <1>5, <1>6, <1>7

\* Signing up, by registering or with Google.
LEMMA SignUpKeeps ==
    ASSUME AccInv, NEW r \in AccRequests,
           \/ Register(r) \/ FindByEmail(r) \/ CreateTenant(r) \/ CreateWallet(r)
           \/ CreateUser(r) \/ CreateLink(r)
    PROVE  AccInv'
<1>1. CASE Register(r)
  BY <1>1, SignUpBegins DEF Register
<1>2. CASE FindByEmail(r)
  <2>1. ASSUME accUsers = {}, StartSignUp(r, TRUE) PROVE AccInv'
    BY <1>2, <2>1, SignUpBegins DEF FindByEmail
  <2>2. ASSUME NEW o \in accUsers, Move(r, "linking", TRUE, o), UNCHANGED accCrossed PROVE AccInv'
    <3>1. o \in Nat /\ "linking" \in AccSteps /\ "linking" \notin SignUpSteps \cup AboutInvite
      BY AccAssumption DEF AccInv, RowsInv, Orgs, AccSteps, SignUpSteps, AboutInvite
    <3> DEFINE q == Req("linking", TRUE, o)
    <3>2. q \in Reqs /\ q.at = "linking" /\ q.id = o /\ accReq' = [accReq EXCEPT ![r] = q]
      BY <2>2, <3>1, MoveFine DEF Move
    <3> HIDE DEF q
    <3>3. UNCHANGED <<orgs, members, invites, accCrossed>>
      BY <1>2, <2>2 DEF FindByEmail
    <3> QED
      BY <3>1, <3>2, <3>3, RequestOnly
  <2>3. ASSUME Done(r), UNCHANGED accCrossed PROVE AccInv'
    BY <1>2, <2>3, DoneFine, RequestOnly DEF FindByEmail, Done
  <2> QED
    BY <1>2, <2>1, <2>2, <2>3 DEF FindByEmail
<1>3. CASE CreateTenant(r)
  <2>1. accOrgs \in Orgs /\ accOrgs' = accOrgs + 1 /\ accOrgs' \in Orgs
    BY <1>3, AccAssumption DEF CreateTenant, AccInv, RowsInv, Orgs
  <2>2. RowsInv' /\ UNCHANGED <<accUsers, accCrossed>>
    BY <1>3, <2>1 DEF CreateTenant, AccInv, RowsInv, members, invites
  <2> DEFINE q == Req("walletless", accReq[r].google, accOrgs')
  <2>3. accOrgs' \in Nat /\ "walletless" \in AccSteps
        /\ "walletless" \in SignUpSteps /\ "walletless" \notin AboutInvite
    BY <2>1, AccAssumption DEF Orgs, AccSteps, SignUpSteps, AboutInvite
  <2>4. q \in Reqs /\ q.at = "walletless" /\ q.id = accOrgs'
    BY <2>3, MoveFine, Holds
  <2>5. accReq' = [accReq EXCEPT ![r] = q] /\ accReq[r].at \in SignUpSteps
    BY <1>3 DEF CreateTenant, Move, AtStep, SignUpSteps
  <2> HIDE DEF q
  <2> QED
    BY <2>1, <2>2, <2>3, <2>4, <2>5, ReqMoves DEF AccInv
<1>4. CASE CreateWallet(r)
  <2>1. accReq[r].at \in SignUpSteps /\ accReq[r].id \in Orgs
    BY <1>4, Holds DEF CreateWallet, AtStep, SignUpSteps
  <2>2. RowsInv' /\ UNCHANGED <<accUsers, accCrossed>>
    BY <1>4, <2>1 DEF CreateWallet, AccInv, RowsInv, members, invites
  <2> DEFINE q == Req("hashed", accReq[r].google, accReq[r].id)
  <2>3. "hashed" \in AccSteps /\ "hashed" \in SignUpSteps /\ "hashed" \notin AboutInvite
    BY DEF AccSteps, SignUpSteps, AboutInvite
  <2>4. q \in Reqs /\ q.at = "hashed" /\ q.id = accReq[r].id
    BY <2>3, MoveFine, Holds
  <2>5. accReq' = [accReq EXCEPT ![r] = q]
    BY <1>4 DEF CreateWallet, Move
  <2> HIDE DEF q
  <2> QED
    BY <2>1, <2>2, <2>3, <2>4, <2>5, ReqMoves DEF AccInv
<1>5. CASE CreateUser(r)
  <2> DEFINE id == accReq[r].id
             link == Req("linking", TRUE, id)
  <2>1. accReq[r].at \in SignUpSteps /\ id \in Orgs /\ id \in Nat
    BY <1>5, Holds DEF CreateUser, AtStep, SignUpSteps
  <2>2. accUsers' = accUsers \cup {id} /\ UNCHANGED accCrossed
    BY <1>5 DEF CreateUser
  <2>3. RowsInv'
    BY <1>5, <2>1 DEF CreateUser, AccInv, RowsInv, orgs, invites
  <2>4. "linking" \in AccSteps /\ "linking" \notin SignUpSteps \cup AboutInvite
    BY DEF AccSteps, SignUpSteps, AboutInvite
  <2>5. link \in Reqs /\ link.at = "linking" /\ link.id = id
    BY <2>1, <2>4, MoveFine
  <2>6. accReq' = [accReq EXCEPT ![r] = link] \/ accReq' = [accReq EXCEPT ![r] = NoReq]
    BY <1>5 DEF CreateUser, Move, Done
  <2> HIDE DEF link
  <2>7. ASSUME accReq' = [accReq EXCEPT ![r] = link] PROVE AccInv'
    BY <2>1, <2>2, <2>3, <2>4, <2>5, <2>7, ReqMoves DEF AccInv
  <2>8. ASSUME accReq' = [accReq EXCEPT ![r] = NoReq] PROVE AccInv'
    BY <2>1, <2>2, <2>3, <2>8, DoneFine, ReqMoves DEF AccInv
  <2> QED
    BY <2>6, <2>7, <2>8
<1>6. CASE CreateLink(r)
  <2>1. accReq[r].id \in accUsers
    BY <1>6, Holds DEF CreateLink, AtStep
  <2>2. RowsInv'
    BY <1>6, <2>1 DEF CreateLink, AccInv, RowsInv, orgs, invites
  <2> QED
    BY <1>6, <2>2, RequestOver DEF CreateLink
<1> QED
  BY <1>1, <1>2, <1>3, <1>4, <1>5, <1>6

\* What is written about invitations, and the account one of them opens.
LEMMA InvitesKeep ==
    ASSUME AccInv, NEW r \in AccRequests,
           \/ ReplacePending(r) \/ SendInvitation(r) \/ ExpireInvitation(r)
           \/ AcceptInvitation(r) \/ RevokeInvitation(r)
    PROVE  AccInv'
<1> USE DEF InvStates
<1>1. CASE ReplacePending(r)
  <2>1. RowsInv' /\ UNCHANGED <<accUsers, accCrossed>>
    BY <1>1 DEF ReplacePending, AccInv, RowsInv, orgs, members
  <2> DEFINE q == Req("replacing", FALSE, 0)
  <2>2. "replacing" \in AccSteps /\ "replacing" \notin SignUpSteps \cup AboutInvite /\ 0 \in Nat
    BY DEF AccSteps, SignUpSteps, AboutInvite
  <2>3. q \in Reqs /\ q.at = "replacing" /\ accReq' = [accReq EXCEPT ![r] = q]
    BY <1>1, <2>2, MoveFine DEF ReplacePending, Move
  <2> HIDE DEF q
  <2> QED
    BY <2>1, <2>2, <2>3, ReqMoves DEF AccInv
<1>2. CASE SendInvitation(r)
  <2>1. RowsInv' /\ UNCHANGED <<accUsers, accCrossed>>
    BY <1>2 DEF SendInvitation, AccInv, RowsInv, orgs, members
  <2> QED
    BY <1>2, <2>1, RequestOver DEF SendInvitation
<1>3. CASE ExpireInvitation(r) \/ RevokeInvitation(r)
  <2>1. RowsInv' /\ UNCHANGED <<accUsers, accCrossed>>
    BY <1>3 DEF ExpireInvitation, RevokeInvitation, AccInv, RowsInv, orgs, members
  <2> QED
    BY <1>3, <2>1, RequestOver DEF ExpireInvitation, RevokeInvitation
<1>4. CASE AcceptInvitation(r)
  <2>1. Host \in Orgs
    BY AccAssumption DEF Host, Orgs
  <2>2. RowsInv' /\ accUsers \subseteq accUsers' /\ accUsers' \subseteq accUsers \cup {Host}
    BY <1>4, <2>1 DEF AcceptInvitation, AccInv, RowsInv, orgs
  <2> QED
    BY <1>4, <2>2, RequestOver DEF AcceptInvitation
<1> QED
  BY <1>1, <1>2, <1>3, <1>4

LEMMA AccNextInv == AccInv /\ [AccNext]_accVars => AccInv'
<1> SUFFICES ASSUME AccInv, [AccNext]_accVars PROVE AccInv'
  OBVIOUS
<1>1. ASSUME UNCHANGED <<accReq, accUsers, accCrossed>>, RowsInv' PROVE AccInv'
  BY <1>1 DEF AccInv, ReqInv, ReqFine, OwnInv, Own
<1>2. ASSUME NEW o \in Orgs, VerifyEmail(o) PROVE AccInv'
  <2>1. RowsInv'
    BY <1>2 DEF VerifyEmail, AccInv, RowsInv, orgs, invites
  <2> QED
    BY <1>1, <1>2, <2>1 DEF VerifyEmail
<1>3. ASSUME NEW i \in Invites, InvitationLapses(i) PROVE AccInv'
  <2>1. RowsInv' /\ UNCHANGED accUsers
    BY <1>3 DEF InvitationLapses, AccInv, RowsInv, orgs, members
  <2> QED
    BY <1>1, <1>3, <2>1 DEF InvitationLapses
<1>4. ASSUME UNCHANGED accVars PROVE AccInv'
  <2>1. RowsInv'
    BY <1>4 DEF accVars, AccInv, RowsInv
  <2> QED
    BY <1>1, <1>4, <2>1 DEF accVars
<1> QED
  BY <1>2, <1>3, <1>4, ReadsKeep, SignUpKeeps, InvitesKeep DEF AccNext

\* An address has one account of its own, unless two sign-ups crossed.
THEOREM OneAccount == AccSpec => []OneOwnAccount
<1>1. AccInv => OneOwnAccount
  <2> SUFFICES ASSUME AccInv, ~accCrossed PROVE Cardinality(Own) <= 1
    BY DEF OneOwnAccount, Own
  <2>1. CASE Own = {}
    BY <2>1, FS_EmptySet
  <2>2. CASE Own # {}
    <3>1. PICK o : Own = {o}
      BY <2>2 DEF AccInv, OwnInv
    <3>2. Cardinality({o}) = 1
      BY FS_Singleton, Zenon
    <3> QED
      BY <3>1, <3>2
  <2> QED
    BY <2>1, <2>2
<1> QED
  BY <1>1, AccInitInv, AccNextInv, PTL DEF AccSpec

\* A closed invitation stays closed, and only the request that claimed it has
\* opened an account.
THEOREM ClosedInvitation == AccSpec => ClosedInvitationAdmitsNobody
<1> DEFINE Keeps == \A i \in Invites :
               accInvite[i] \in {"REVOKED", "EXPIRED", "ACCEPTED"}
                  => /\ accInvite'[i] \notin {"PENDING", "none"}
                     /\ accInvite'[i] = "ACCEPTED" => accInvite[i] = "ACCEPTED"
<1>1. AccInv /\ [AccNext]_accVars => [Keeps]_accVars
  <2> SUFFICES ASSUME AccInv, AccNext PROVE Keeps
    OBVIOUS
  <2>1. accInvite \in [Invites -> InvStates]
    BY DEF AccInv, RowsInv
  <2>2. CASE UNCHANGED accInvite
    BY <2>2
  <2>3. ASSUME NEW r \in AccRequests,
               \/ ReplacePending(r) \/ SendInvitation(r) \/ ExpireInvitation(r)
               \/ AcceptInvitation(r) \/ RevokeInvitation(r)
        PROVE  Keeps
    BY <2>1, <2>3 DEF ReplacePending, SendInvitation, Next1, ExpireInvitation,
       AcceptInvitation, RevokeInvitation
  <2> HIDE DEF Keeps
  <2>4. ASSUME NEW r \in AccRequests,
               \/ Register(r) \/ FindLink(r) \/ FindByEmail(r) \/ CreateTenant(r) \/ CreateWallet(r)
               \/ CreateUser(r) \/ CreateLink(r) \/ CreateInvitation(r) \/ CheckMember(r) \/ AccCrash(r)
               \/ \E i \in Invites : ReadInvitation(r, i) \/ ReadRevoked(r, i)
        PROVE  Keeps
    <3>1. UNCHANGED accInvite
      BY <2>4 DEF Register, FindLink, FindByEmail, CreateTenant, CreateWallet, CreateUser,
         CreateLink, CreateInvitation, CheckMember, AccCrash, ReadInvitation, ReadRevoked, invites
    <3> QED
      BY <2>2, <3>1
  <2>5. ASSUME NEW o, VerifyEmail(o) \/ InvitationLapses(o) PROVE Keeps
    BY <2>2, <2>5 DEF VerifyEmail, InvitationLapses, invites
  <2> QED
    BY <2>3, <2>4, <2>5 DEF AccNext
<1> QED
  BY <1>1, AccInitInv, AccNextInv, PTL DEF AccSpec, ClosedInvitationAdmitsNobody

\* Organizations, accounts and invitations keep their types: no account without
\* an organization, nothing verified or linked without an account.
THEOREM AccountTypes == AccSpec => []AccTypeOK
<1>1. AccInv => AccTypeOK
  BY DEF AccInv, ReqInv, RowsInv, OwnInv, AccTypeOK
<1> QED
  BY <1>1, AccInitInv, AccNextInv, PTL DEF AccSpec
=============================================================================
