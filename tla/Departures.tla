----------------------------- MODULE Departures -----------------------------
(***************************************************************************)
(* Who may leave an organization, and what is left behind: a member who    *)
(* erases their account (PrivacyService.anonymizeUserData), a platform     *)
(* administrator who deletes a user, with the organization if nobody else  *)
(* is in it, or changes a role (AdminService.deleteUser, updateUser). Each *)
(* reads, then writes without looking again, while the organization lives: *)
(* members join, a contest is signed, paid for and closed, money is        *)
(* withdrawn. Amounts are the matter of Wallet.tla, the steps of a         *)
(* signature of Publication.tla.                                           *)
(***************************************************************************)
EXTENDS Naturals

CONSTANTS
    Members,   \* accounts that belong, or may belong, to the organization
    Operators, \* requests of platform administrators
    NoMember

ASSUME DepartureAssumption == NoMember \notin Members

VARIABLES
    dpOrg,        \* the organization exists
    dpMember,     \* [Members -> DpStates]: the account's row
    dpRole,       \* [Members -> DpRoles]
    dpEvent,      \* its contest
    dpSigner,     \* eventContract.signedByUserId
    dpPay,        \* the payment of a vote in it
    dpBalance,    \* the wallet holds money
    dpWithdrawal, \* the last withdrawal
    dpLeave,      \* [Members -> DpLeaves]: a request to erase one's own account
    dpDelete,     \* [Operators -> DpDeletes]
    dpReasons,    \* ghost: why the organization may be left without owner or erased with something
    dpDestroyed   \* ghost: what went with the organization

dpTeam  == <<dpOrg, dpMember, dpRole>>
dpTrade == <<dpEvent, dpSigner, dpPay, dpBalance, dpWithdrawal>>
dpVars  == <<dpTeam, dpTrade, dpLeave, dpDelete, dpReasons, dpDestroyed>>

DpStates  == {"absent", "present", "erased", "removed"}
DpRoles   == {"OWNER", "STAFF"}
DpEvents  == {"none", "DRAFT", "ACTIVE", "CLOSED"}
DpPays    == {"none", "PENDING", "SUCCEEDED", "FAILED"}
DpDraws   == {"none", "PENDING", "APPROVED", "PAID", "REJECTED"}
ErasureChecks    == {"wallet", "withdrawals", "events"}
DpLeaves  == [at : {"idle", "checking"}, role : DpRoles, left : SUBSET ErasureChecks]
DpDeletes == [at : {"idle", "found", "sole", "sure"}, target : Members \cup {NoMember},
              role : DpRoles, whole : BOOLEAN]

Staying  == [at |-> "idle", role |-> "STAFF", left |-> {}]
NoTarget == [at |-> "idle", target |-> NoMember, role |-> "STAFF", whole |-> FALSE]

DepartureInit ==
    /\ dpOrg = TRUE
    /\ \E founder \in Members :
        dpMember = [m \in Members |-> IF m = founder THEN "present" ELSE "absent"]
    /\ dpRole = [m \in Members |-> "OWNER"]
    /\ dpEvent = "none" /\ dpSigner = NoMember
    /\ dpPay = "none" /\ dpBalance = FALSE /\ dpWithdrawal = "none"
    /\ dpLeave = [m \in Members |-> Staying]
    /\ dpDelete = [k \in Operators |-> NoTarget]
    /\ dpReasons = {} /\ dpDestroyed = {}

AccountRows        == {m \in Members : dpMember[m] \in {"present", "erased"}}
LivingOwner == {m \in Members : dpMember[m] = "present" /\ dpRole[m] = "OWNER"}
\* AuthGuard reads the account at each request: an erased one has no verified address.
MayAct(m)   == dpMember[m] = "present"

\* Some departure is between its first read and its transaction.
Leaving == \/ \E m \in Members : dpLeave[m].at = "checking"
           \/ \E k \in Operators : dpDelete[k].at # "idle"
\* What moves now may not have been seen by a departure.
Overtaken == dpReasons' = IF Leaving THEN dpReasons \cup {"race"} ELSE dpReasons
Tracks(reasons) == dpReasons' = dpReasons \cup reasons \cup (IF Leaving THEN {"race"} ELSE {})

-----------------------------------------------------------------------------
\* The organization lives.

\* An invitation is accepted.
Join(m, role) ==
    /\ dpOrg /\ dpMember[m] = "absent"
    /\ dpMember' = [dpMember EXCEPT ![m] = "present"]
    /\ dpRole' = [dpRole EXCEPT ![m] = role]
    /\ Overtaken
    /\ UNCHANGED <<dpOrg, dpTrade, dpLeave, dpDelete, dpDestroyed>>

\* createEvent, by anyone in the organization.
CreateDraft(m) ==
    /\ dpOrg /\ MayAct(m)
    /\ dpEvent = "none"
    /\ dpEvent' = "DRAFT"
    /\ Overtaken
    /\ UNCHANGED <<dpTeam, dpSigner, dpPay, dpBalance, dpWithdrawal, dpLeave, dpDelete, dpDestroyed>>

\* Only an owner signs or withdraws; both are one step here.
MayEngage(m) == dpOrg /\ MayAct(m) /\ dpRole[m] = "OWNER"

SignContest(m) ==
    /\ MayEngage(m)
    /\ dpEvent = "DRAFT"
    /\ dpEvent' = "ACTIVE" /\ dpSigner' = m
    /\ Overtaken
    /\ UNCHANGED <<dpTeam, dpPay, dpBalance, dpWithdrawal, dpLeave, dpDelete, dpDestroyed>>

EndContest ==
    /\ dpEvent = "ACTIVE"
    /\ dpEvent' = "CLOSED"
    /\ UNCHANGED <<dpTeam, dpSigner, dpPay, dpBalance, dpWithdrawal, dpLeave, dpDelete,
                   dpReasons, dpDestroyed>>

\* A payment goes on after the contest is closed; success credits the wallet.
StartPayment ==
    /\ dpEvent = "ACTIVE" /\ dpPay # "PENDING"
    /\ dpPay' = "PENDING"
    /\ UNCHANGED <<dpTeam, dpEvent, dpSigner, dpBalance, dpWithdrawal, dpLeave, dpDelete,
                   dpReasons, dpDestroyed>>

ResolvePayment(status) ==
    /\ dpPay = "PENDING"
    /\ dpPay' = status
    /\ dpBalance' = (dpBalance \/ status = "SUCCEEDED")
    /\ IF status = "SUCCEEDED" THEN Tracks(IF LivingOwner = {} THEN {"late"} ELSE {})
                               ELSE UNCHANGED dpReasons
    /\ UNCHANGED <<dpTeam, dpEvent, dpSigner, dpWithdrawal, dpLeave, dpDelete, dpDestroyed>>

RequestPayout(m) ==
    /\ MayEngage(m)
    /\ dpBalance /\ dpWithdrawal \notin {"PENDING", "APPROVED"}
    /\ dpBalance' = FALSE
    /\ dpWithdrawal' = "PENDING"
    /\ Overtaken
    /\ UNCHANGED <<dpTeam, dpEvent, dpSigner, dpPay, dpLeave, dpDelete, dpDestroyed>>

\* An administrator approves, refuses (the money comes back) or pays.
ProcessPayout(from, to) ==
    /\ dpOrg /\ dpWithdrawal = from
    /\ dpWithdrawal' = to
    /\ dpBalance' = (dpBalance \/ to = "REJECTED")
    /\ Overtaken
    /\ UNCHANGED <<dpTeam, dpEvent, dpSigner, dpPay, dpLeave, dpDelete, dpDestroyed>>

-----------------------------------------------------------------------------
\* anonymizeUserData.

\* The account is read and the password compared; the three reads of an owner follow.
AskErasure(m) ==
    /\ dpOrg /\ MayAct(m) /\ dpLeave[m].at = "idle"
    /\ dpLeave' = [dpLeave EXCEPT ![m] =
                    [at |-> "checking", role |-> dpRole[m],
                     left |-> IF dpRole[m] = "OWNER" THEN ErasureChecks ELSE {}]]
    /\ UNCHANGED <<dpTeam, dpTrade, dpDelete, dpReasons, dpDestroyed>>

\* Mutant: only withdrawals that nobody has accepted yet count.
Clear_PendingOnly(check) ==
    CASE check = "wallet"      -> ~dpBalance
      [] check = "withdrawals" -> dpWithdrawal # "PENDING"
      [] check = "events"      -> dpEvent # "ACTIVE"

Clear(check) ==
    CASE check = "wallet"      -> ~dpBalance
      [] check = "withdrawals" -> dpWithdrawal \notin {"PENDING", "APPROVED"}
      [] check = "events"      -> dpEvent # "ACTIVE"

\* The three reads run in parallel, in any order; one that finds something refuses.
CheckErasure(m, check) ==
    /\ check \in dpLeave[m].left
    /\ dpLeave' = [dpLeave EXCEPT ![m] =
                    IF Clear(check) THEN [@ EXCEPT !.left = dpLeave[m].left \ {check}] ELSE Staying]
    /\ UNCHANGED <<dpTeam, dpTrade, dpDelete, dpReasons, dpDestroyed>>

\* One transaction, without a condition; it fails if the row was deleted.
EraseAccount(m) ==
    /\ dpLeave[m].at = "checking" /\ dpLeave[m].left = {}
    /\ dpMember' = IF m \in AccountRows THEN [dpMember EXCEPT ![m] = "erased"] ELSE dpMember
    /\ dpLeave' = [dpLeave EXCEPT ![m] = Staying]
    /\ dpReasons' = IF dpLeave[m].role # dpRole[m] THEN dpReasons \cup {"race"} ELSE dpReasons
    /\ UNCHANGED <<dpOrg, dpRole, dpTrade, dpDelete, dpDestroyed>>

-----------------------------------------------------------------------------
\* updateUser and deleteUser.

\* No check that an owner remains. (A suspension, which can be lifted, is left out.)
UpdateUser(m, role) ==
    /\ dpOrg /\ m \in AccountRows
    /\ dpRole' = [dpRole EXCEPT ![m] = role]
    /\ Tracks(IF m \in LivingOwner /\ role # "OWNER" /\ LivingOwner = {m} THEN {"demoted"} ELSE {})
    /\ UNCHANGED <<dpOrg, dpMember, dpTrade, dpLeave, dpDelete, dpDestroyed>>

FindTarget(k, m) ==
    /\ dpDelete[k].at = "idle"
    /\ m \in AccountRows
    /\ dpDelete' = [dpDelete EXCEPT ![k] = [at |-> "found", target |-> m, role |-> dpRole[m],
                                            whole |-> FALSE]]
    /\ UNCHANGED <<dpTeam, dpTrade, dpLeave, dpReasons, dpDestroyed>>

\* An erased owner still counts as another owner.
MayDelete(m, role) ==
    /\ dpSigner # m
    /\ role = "OWNER" /\ AccountRows # {m} => \E o \in AccountRows \ {m} : dpRole[o] = role

\* The counts of other members, of other owners and of signed contracts.
CountOthers(k) ==
    LET m == dpDelete[k].target IN
    /\ dpDelete[k].at = "found"
    /\ dpDelete' = [dpDelete EXCEPT ![k] =
                    IF ~MayDelete(m, @.role) THEN NoTarget
                    ELSE IF AccountRows \subseteq {m} THEN [@ EXCEPT !.at = "sole", !.whole = TRUE]
                    ELSE [@ EXCEPT !.at = "sure"]]
    /\ UNCHANGED <<dpTeam, dpTrade, dpLeave, dpReasons, dpDestroyed>>

\* The counts before the organization goes too.
CountActivity(k) ==
    /\ dpDelete[k].at = "sole"
    /\ dpDelete' = [dpDelete EXCEPT ![k] =
                    IF dpEvent = "none" /\ dpPay = "none" /\ dpWithdrawal = "none" /\ ~dpBalance
                       THEN [@ EXCEPT !.at = "sure"] ELSE NoTarget]
    /\ UNCHANGED <<dpTeam, dpTrade, dpLeave, dpReasons, dpDestroyed>>

\* The account alone: a signature made meanwhile forbids it (onDelete: Restrict).
RemoveUser(k) ==
    LET m == dpDelete[k].target IN
    /\ dpDelete[k].at = "sure" /\ ~dpDelete[k].whole
    /\ m \in AccountRows /\ dpSigner # m
    /\ dpMember' = [dpMember EXCEPT ![m] = "removed"]
    /\ dpDelete' = [dpDelete EXCEPT ![k] = NoTarget]
    /\ dpReasons' = dpReasons \cup
         (IF LivingOwner = {m} /\ \E o \in AccountRows \ {m} : dpRole[o] = "OWNER"
             THEN {"phantom"} ELSE {}) \cup
         (IF \E o \in Operators \ {k} : dpDelete[o].at # "idle" THEN {"race"} ELSE {})
    /\ UNCHANGED <<dpOrg, dpRole, dpTrade, dpLeave, dpDestroyed>>

\* The organization with all it has; a contract forbids it (onDelete: Restrict).
RemoveTenant(k) ==
    LET m == dpDelete[k].target IN
    /\ dpDelete[k].at = "sure" /\ dpDelete[k].whole
    /\ dpOrg /\ dpEvent \in {"none", "DRAFT"}
    /\ dpOrg' = FALSE
    /\ dpMember' = [o \in Members |-> IF o \in AccountRows THEN "removed" ELSE dpMember[o]]
    /\ dpDestroyed' = dpDestroyed \cup (AccountRows \ {m}) \cup
                        (IF dpEvent = "DRAFT" THEN {"DRAFT"} ELSE {})
    /\ dpEvent' = "none"
    /\ dpDelete' = [dpDelete EXCEPT ![k] = NoTarget]
    /\ UNCHANGED <<dpRole, dpSigner, dpPay, dpBalance, dpWithdrawal, dpLeave,
                   dpReasons>>

DeletionFails(k) ==
    /\ dpDelete[k].at # "idle"
    /\ dpDelete' = [dpDelete EXCEPT ![k] = NoTarget]
    /\ UNCHANGED <<dpTeam, dpTrade, dpLeave, dpReasons, dpDestroyed>>

DepartureNext ==
    \/ \E m \in Members :
        \/ \E role \in DpRoles : Join(m, role)
        \/ CreateDraft(m)
        \/ SignContest(m) \/ RequestPayout(m)
        \/ AskErasure(m) \/ (\E check \in ErasureChecks : CheckErasure(m, check)) \/ EraseAccount(m)
        \/ \E role \in DpRoles : UpdateUser(m, role)
    \/ EndContest \/ StartPayment
    \/ \E status \in {"SUCCEEDED", "FAILED"} : ResolvePayment(status)
    \/ \E to \in {"APPROVED", "REJECTED"} : ProcessPayout("PENDING", to)
    \/ ProcessPayout("APPROVED", "PAID")
    \/ \E k \in Operators :
        \/ \E m \in Members : FindTarget(k, m)
        \/ CountOthers(k) \/ CountActivity(k) \/ RemoveUser(k) \/ RemoveTenant(k) \/ DeletionFails(k)

DepartureSpec == DepartureInit /\ [][DepartureNext]_dpVars

-----------------------------------------------------------------------------
DepartureTypeOK ==
    /\ dpOrg \in BOOLEAN
    /\ dpMember \in [Members -> DpStates] /\ dpRole \in [Members -> DpRoles]
    /\ dpEvent \in DpEvents /\ dpSigner \in Members \cup {NoMember}
    /\ dpPay \in DpPays /\ dpBalance \in BOOLEAN /\ dpWithdrawal \in DpDraws
    /\ dpLeave \in [Members -> DpLeaves]
    /\ dpDelete \in [Operators -> DpDeletes]
    /\ dpReasons \subseteq {"race", "late", "demoted", "phantom"}

\* An organization that no owner can act for any more holds no money, pays none
\* out and has no contest on line, and one that was deleted took nobody and no
\* contest with it (privacy.service.ts: money and voters would be abandoned;
\* admin.service.ts: the only owner is not deleted). Four things break it, and
\* the property leaves them out by name: something, another deletion included, moved
\* between the first read of a departure and its transaction; a payment of a closed contest is credited after
\* the owner left; an administrator gives the only owner another role; an erased
\* owner was counted as the one who remains.
NobodyAbandoned ==
    dpReasons = {} =>
        /\ dpOrg /\ LivingOwner = {} =>
              ~dpBalance /\ dpEvent # "ACTIVE" /\ dpWithdrawal \notin {"PENDING", "APPROVED"}
        /\ dpDestroyed = {}
=============================================================================
