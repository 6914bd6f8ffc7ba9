------------------------------ MODULE Accounts ------------------------------
(***************************************************************************)
(* How the accounts of one mail address come to be: by registering, which  *)
(* creates an organization; by a first login with Google, which does too;  *)
(* by accepting the invitation of an organization that exists already      *)
(* (Host). User is unique per organization and address, OAuthAccount per   *)
(* Google identity; nothing is unique per address.                         *)
(*                                                                         *)
(* One action is one statement or transaction: checks come before, outside.*)
(***************************************************************************)
EXTENDS Integers, FiniteSets

CONSTANTS
    AccRequests,   \* requests about this address
    MaxOrgs,       \* bound: organizations created
    MaxInvites     \* bound: invitations created

ASSUME AccAssumption == MaxOrgs \in Nat /\ MaxInvites \in Nat

VARIABLES
    accOrgs,       \* organizations created: the o-th is o; Host is there already
    accWallets,    \* those that have their wallet
    accUsers,      \* those that have an account of this address
    accVerified,   \* those whose account has emailVerifiedAt
    accLink,       \* the one whose account is linked to Google, as a set
    accInvite,     \* Seq of invitations to Host: their status
    accLapsed,     \* invitations whose expiresAt has passed
    accReq,        \* [AccRequests -> Reqs]
    accCrossed     \* two sign-ups ran at the same time

accVars == <<accOrgs, accWallets, accUsers, accVerified, accLink, accInvite, accLapsed,
             accReq, accCrossed>>

orgs    == <<accOrgs, accWallets>>
members == <<accUsers, accVerified, accLink>>
invites == <<accInvite, accLapsed>>

Host      == 0
Orgs      == 0..MaxOrgs
InvStates == {"none", "PENDING", "ACCEPTED", "REVOKED", "EXPIRED"}
Invites   == 1..MaxInvites
Next1     == {i \in Invites : accInvite[i] = "none" /\ \A j \in 1..(i - 1) : accInvite[j] # "none"}

\* Steps of registering and of logging in with Google, then of inviting,
\* accepting and revoking. "id" is the organization, or the invitation.
SignUpSteps == {"signing", "walletless", "hashed"}
AccSteps    == SignUpSteps \cup {"idle", "looking", "linking", "inviting", "replacing",
                                 "expiring", "accepting", "claiming", "revoking"}
Req(step, google, id) == [at |-> step, google |-> google, id |-> id]
NoReq == Req("idle", FALSE, 0)
Reqs  == [at : AccSteps, google : BOOLEAN, id : Nat]

AtStep(r, step)      == accReq[r].at = step
Move(r, step, g, id) == accReq' = [accReq EXCEPT ![r] = Req(step, g, id)]
Done(r)              == accReq' = [accReq EXCEPT ![r] = NoReq]

AccInit ==
    /\ accOrgs = 0 /\ accWallets = {Host}
    /\ accUsers = {} /\ accVerified = {} /\ accLink = {}
    /\ accInvite = [i \in Invites |-> "none"] /\ accLapsed = {}
    /\ accReq = [r \in AccRequests |-> NoReq]
    /\ accCrossed = FALSE

StartSignUp(r, google) ==
    /\ Move(r, "signing", google, 0)
    /\ accCrossed' = (accCrossed \/ \E o \in AccRequests : accReq[o].at \in SignUpSteps)

\* register refuses an address that has an account anywhere.
Register(r) ==
    /\ AtStep(r, "idle") /\ accUsers = {}
    /\ StartSignUp(r, FALSE)
    /\ UNCHANGED <<orgs, members, invites>>

\* handleCallback: an identity already linked just logs in.
FindLink(r) ==
    /\ AtStep(r, "idle") /\ accLink = {}
    /\ Move(r, "looking", TRUE, 0)
    /\ UNCHANGED <<orgs, members, invites, accCrossed>>

\* Mutant: a Google identity that is not linked is always a first login.
FindByEmail_AlwaysNew(r) ==
    /\ AtStep(r, "looking")
    /\ StartSignUp(r, TRUE)
    /\ UNCHANGED <<orgs, members, invites>>

\* One verified account is linked; none is a first login; others are refused.
FindByEmail(r) ==
    /\ AtStep(r, "looking")
    /\ \/ accUsers = {} /\ StartSignUp(r, TRUE)
       \/ /\ Cardinality(accUsers) = 1 /\ accUsers \subseteq accVerified
          /\ \E o \in accUsers : Move(r, "linking", TRUE, o)
          /\ UNCHANGED accCrossed
       \/ /\ accUsers # {}
          /\ Cardinality(accUsers) = 1 => ~(accUsers \subseteq accVerified)
          /\ Done(r) /\ UNCHANGED accCrossed
    /\ UNCHANGED <<orgs, members, invites>>

CreateTenant(r) ==
    /\ AtStep(r, "signing") /\ accOrgs < MaxOrgs
    /\ accOrgs' = accOrgs + 1
    /\ Move(r, "walletless", accReq[r].google, accOrgs')
    /\ UNCHANGED <<accWallets, members, invites, accCrossed>>

CreateWallet(r) ==
    /\ AtStep(r, "walletless")
    /\ accWallets' = accWallets \cup {accReq[r].id}
    /\ Move(r, "hashed", accReq[r].google, accReq[r].id)
    /\ UNCHANGED <<accOrgs, members, invites, accCrossed>>

\* With Google the account is verified, and its link is one more statement.
CreateUser(r) ==
    LET q == accReq[r]
    IN  /\ AtStep(r, "hashed")
        /\ accUsers' = accUsers \cup {q.id}
        /\ accVerified' = accVerified \cup (IF q.google THEN {q.id} ELSE {})
        /\ IF q.google THEN Move(r, "linking", TRUE, q.id) ELSE Done(r)
        /\ UNCHANGED <<orgs, accLink, invites, accCrossed>>

\* The identity is unique: the second of two links fails.
CreateLink(r) ==
    /\ AtStep(r, "linking")
    /\ accLink' = IF accLink = {} THEN {accReq[r].id} ELSE accLink
    /\ Done(r)
    /\ UNCHANGED <<orgs, accUsers, accVerified, invites, accCrossed>>

\* Mutant: an address is confirmed before it has its account.
VerifyEmail_NoAccount(o) ==
    /\ o \in Orgs \ accVerified
    /\ accVerified' = accVerified \cup {o}
    /\ UNCHANGED <<orgs, accUsers, accLink, invites, accReq, accCrossed>>

\* verifyOtp, with the code sent at registration (OneTimeCode).
VerifyEmail(o) ==
    /\ o \in accUsers \ accVerified
    /\ accVerified' = accVerified \cup {o}
    /\ UNCHANGED <<orgs, accUsers, accLink, invites, accReq, accCrossed>>

CreateInvitation(r) ==
    /\ AtStep(r, "idle") /\ Host \notin accUsers
    /\ Move(r, "inviting", FALSE, 0)
    /\ UNCHANGED <<orgs, members, invites, accCrossed>>

ReplacePending(r) ==
    /\ AtStep(r, "inviting")
    /\ accInvite' = [i \in Invites |-> IF accInvite[i] = "PENDING" THEN "REVOKED" ELSE accInvite[i]]
    /\ Move(r, "replacing", FALSE, 0)
    /\ UNCHANGED <<orgs, members, accLapsed, accCrossed>>

SendInvitation(r) ==
    /\ AtStep(r, "replacing")
    /\ \E i \in Next1 : accInvite' = [accInvite EXCEPT ![i] = "PENDING"]
    /\ Done(r)
    /\ UNCHANGED <<orgs, members, accLapsed, accCrossed>>

InvitationLapses(i) ==
    /\ accInvite[i] # "none" /\ i \notin accLapsed
    /\ accLapsed' = accLapsed \cup {i}
    /\ UNCHANGED <<orgs, members, accInvite, accReq, accCrossed>>

ReadInvitation(r, i) ==
    /\ AtStep(r, "idle") /\ accInvite[i] = "PENDING"
    /\ Move(r, IF i \in accLapsed THEN "expiring" ELSE "accepting", FALSE, i)
    /\ UNCHANGED <<orgs, members, invites, accCrossed>>

\* The status written does not depend on the one there is by then.
ExpireInvitation(r) ==
    /\ AtStep(r, "expiring")
    /\ accInvite' = [accInvite EXCEPT ![accReq[r].id] = "EXPIRED"]
    /\ Done(r)
    /\ UNCHANGED <<orgs, members, accLapsed, accCrossed>>

CheckMember(r) ==
    /\ AtStep(r, "accepting")
    /\ IF Host \in accUsers THEN Done(r) ELSE Move(r, "claiming", FALSE, accReq[r].id)
    /\ UNCHANGED <<orgs, members, invites, accCrossed>>

\* Mutant: the invitation is not claimed on its status.
AcceptInvitation_Unclaimed(r) ==
    LET i == accReq[r].id
    IN  /\ AtStep(r, "claiming")
        /\ IF Host \notin accUsers
           THEN /\ accInvite' = [accInvite EXCEPT ![i] = "ACCEPTED"]
                /\ accUsers' = accUsers \cup {Host}
                /\ accVerified' = accVerified \cup {Host}
           ELSE UNCHANGED <<accInvite, accUsers, accVerified>>
        /\ Done(r)
        /\ UNCHANGED <<orgs, accLink, accLapsed, accCrossed>>

\* One transaction: the claim, the account (unique in Host), or neither.
AcceptInvitation(r) ==
    LET i == accReq[r].id
    IN  /\ AtStep(r, "claiming")
        /\ IF accInvite[i] = "PENDING" /\ Host \notin accUsers
           THEN /\ accInvite' = [accInvite EXCEPT ![i] = "ACCEPTED"]
                /\ accUsers' = accUsers \cup {Host}
                /\ accVerified' = accVerified \cup {Host}
           ELSE UNCHANGED <<accInvite, accUsers, accVerified>>
        /\ Done(r)
        /\ UNCHANGED <<orgs, accLink, accLapsed, accCrossed>>

ReadRevoked(r, i) ==
    /\ AtStep(r, "idle") /\ accInvite[i] = "PENDING"
    /\ Move(r, "revoking", FALSE, i)
    /\ UNCHANGED <<orgs, members, invites, accCrossed>>

RevokeInvitation(r) ==
    /\ AtStep(r, "revoking")
    /\ accInvite' = [accInvite EXCEPT ![accReq[r].id] = "REVOKED"]
    /\ Done(r)
    /\ UNCHANGED <<orgs, members, accLapsed, accCrossed>>

AccCrash(r) ==
    /\ ~AtStep(r, "idle")
    /\ Done(r)
    /\ UNCHANGED <<orgs, members, invites, accCrossed>>

AccNext ==
    \/ \E r \in AccRequests :
          \/ Register(r) \/ FindLink(r) \/ FindByEmail(r) \/ CreateTenant(r) \/ CreateWallet(r)
          \/ CreateUser(r) \/ CreateLink(r) \/ CreateInvitation(r) \/ ReplacePending(r)
          \/ SendInvitation(r) \/ ExpireInvitation(r) \/ CheckMember(r) \/ AcceptInvitation(r)
          \/ RevokeInvitation(r) \/ AccCrash(r)
          \/ \E i \in Invites : ReadInvitation(r, i) \/ ReadRevoked(r, i)
    \/ \E o \in Orgs : VerifyEmail(o)
    \/ \E i \in Invites : InvitationLapses(i)

AccSpec == AccInit /\ [][AccNext]_accVars

-----------------------------------------------------------------------------
AccTypeOK ==
    /\ accOrgs \in Orgs
    /\ accWallets \subseteq Orgs /\ accUsers \subseteq Orgs
    /\ accVerified \subseteq accUsers /\ accLink \subseteq accUsers
    /\ accInvite \in [Invites -> InvStates] /\ accLapsed \subseteq Invites
    /\ accReq \in [AccRequests -> Reqs]
    /\ accCrossed \in BOOLEAN

\* Outside the organizations that invited it, an address has one account,
\* verified by mail or by Google, unless two sign-ups ran at the same time: the
\* address is looked for before the organization is created (register,
\* findOrCreateUser), and a second account makes later logins ambiguous.
OneOwnAccount == ~accCrossed => Cardinality(accUsers \ {Host}) <= 1

\* An invitation that was revoked, replaced, expired or used does not open an
\* account any more, even to a request that had read it before (acceptInvitation).
ClosedInvitationAdmitsNobody ==
    [][\A i \in Invites :
          accInvite[i] \in {"REVOKED", "EXPIRED", "ACCEPTED"}
             => /\ accInvite'[i] \notin {"PENDING", "none"}
                /\ accInvite'[i] = "ACCEPTED" => accInvite[i] = "ACCEPTED"]_accVars
=============================================================================
