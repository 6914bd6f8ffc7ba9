---------------------------- MODULE PayoutNumber ----------------------------
(***************************************************************************)
(* The Mobile Money number an organizer is paid on                         *)
(* (PayoutDestinationService), and the withdrawal requests that freeze it  *)
(* (WithdrawalsService). A change of number stops withdrawals for          *)
(* PAYOUT_DESTINATION_COOLDOWN_HOURS; a request reads the number and the   *)
(* end of that delay before the transaction that writes it. The amounts    *)
(* are the matter of Wallet.tla.                                           *)
(***************************************************************************)
EXTENDS Integers

CONSTANTS
    Numbers,      \* Mobile Money numbers of one organizer
    NoNumber,     \* none was given yet
    Cooldown,     \* PAYOUT_DESTINATION_COOLDOWN_HOURS
    MaxTime,      \* bound: the clock
    Withdrawals   \* withdrawal requests

ASSUME PayoutAssumption ==
    /\ NoNumber \notin Numbers
    /\ Cooldown \in Nat \ {0}
    /\ MaxTime \in Nat

VARIABLES
    poClock,    \* the time
    poNumber,   \* tenant.payoutPhoneEnc
    poChanged,  \* tenant.payoutUpdatedAt
    poRested,   \* numbers that were once in place, unchanged, for the whole delay
    poRequests  \* [Withdrawals -> PoRequests]

poVars == <<poClock, poNumber, poChanged, poRested, poRequests>>

Times == 0..MaxTime
\* "read" is a call between its reading and its transaction; the others are
\* the statuses of the request's row.
PoStates   == {"none", "read", "PENDING", "APPROVED", "PAID", "REJECTED"}
PoRequests == [status : PoStates, number : Numbers \cup {NoNumber}]

PoInit ==
    /\ poClock = 0
    /\ poNumber = NoNumber
    /\ poChanged = 0
    /\ poRested = {}
    /\ poRequests = [w \in Withdrawals |-> [status |-> "none", number |-> NoNumber]]

PoTick ==
    /\ poClock < MaxTime
    /\ poClock' = poClock + 1
    /\ poRested' = IF poNumber # NoNumber /\ poClock' >= poChanged + Cooldown
                      THEN poRested \cup {poNumber} ELSE poRested
    /\ UNCHANGED <<poNumber, poChanged, poRequests>>

\* setForTenant: the delay begins again even if the number is the same.
SetForTenant(n) ==
    /\ poNumber' = n
    /\ poChanged' = poClock
    /\ UNCHANGED <<poClock, poRested, poRequests>>

CooldownOver == poClock >= poChanged + Cooldown

\* snapshotForTenant, then the refusals that come before the transaction.
ReadDestination(w) ==
    /\ poRequests[w].status = "none"
    /\ poNumber # NoNumber
    /\ CooldownOver
    /\ poRequests' = [poRequests EXCEPT ![w] = [status |-> "read", number |-> poNumber]]
    /\ UNCHANGED <<poClock, poNumber, poChanged, poRested>>

\* Mutant: the request freezes the number in place when it is written.
RequestWithdrawal_Rereads(w) ==
    /\ poRequests[w].status = "read"
    /\ poRequests' = [poRequests EXCEPT ![w] = [status |-> "PENDING", number |-> poNumber]]
    /\ UNCHANGED <<poClock, poNumber, poChanged, poRested>>

\* The transaction freezes the number that was read; the balance may refuse it.
RequestWithdrawal(w) ==
    /\ poRequests[w].status = "read"
    /\ \/ poRequests' = [poRequests EXCEPT ![w] = [status |-> "none", number |-> NoNumber]]
       \/ poRequests' = [poRequests EXCEPT ![w].status = "PENDING"]
    /\ UNCHANGED <<poClock, poNumber, poChanged, poRested>>

\* The administrator accepts, or refuses; what was accepted is paid on the frozen number.
Process(w, from, to) ==
    /\ poRequests[w].status = from
    /\ poRequests' = [poRequests EXCEPT ![w].status = to]
    /\ UNCHANGED <<poClock, poNumber, poChanged, poRested>>

PoNext ==
    \/ PoTick
    \/ \E n \in Numbers : SetForTenant(n)
    \/ \E w \in Withdrawals :
        \/ ReadDestination(w) \/ RequestWithdrawal(w)
        \/ \E to \in {"APPROVED", "REJECTED"} : Process(w, "PENDING", to)
        \/ Process(w, "APPROVED", "PAID")

PoSpec == PoInit /\ [][PoNext]_poVars

-----------------------------------------------------------------------------
PoTypeOK ==
    /\ poClock \in Times /\ poChanged \in Times
    /\ poNumber \in Numbers \cup {NoNumber}
    /\ poRested \subseteq Numbers
    /\ poRequests \in [Withdrawals -> PoRequests]

\* No withdrawal, asked for or paid, goes to a number that was not once in place
\* for the whole delay without a change, although the number is read and the
\* request written in two steps between which the number may change
\* (payout-destination.service.ts: a session that changes the number cannot
\* empty the balance before its owner is warned).
FrozenNumberRested ==
    \A w \in Withdrawals : poRequests[w].number \in poRested \cup {NoNumber}
=============================================================================
