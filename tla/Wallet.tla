------------------------------- MODULE Wallet -------------------------------
(***************************************************************************)
(* One organizer's wallet: confirmed payments credit it, part of the money *)
(* being held until the event has been closed for a while; withdrawals     *)
(* debit it; the platform's administrators approve, reject and pay them,   *)
(* and void votes, which takes the credit back; the settlement job         *)
(* releases the reserve of the events that matured.                        *)
(*                                                                         *)
(* One action is one PostgreSQL transaction or one read, except that a     *)
(* transaction that reads balances or sums first and writes conditionally  *)
(* afterwards is two actions: READ COMMITTED lets other commits between.   *)
(* So is the late recovery of a payment: it holds the payment's row, reads *)
(* the event without a lock and commits afterwards.  Every payment here is *)
(* a vote's: administrators void votes only.                               *)
(***************************************************************************)
EXTENDS Integers, Sequences, FiniteSets, FiniteSetsExt

CONSTANTS
    Events,        \* the organizer's events
    Pays,          \* payments of votes
    EventOf,       \* [Pays -> Events]
    Net,           \* [Pays -> Nat]: amount less the commission
    HeldBps,       \* share of the net held in reserve, in 1/10000
    Withdrawals,   \* withdrawal requests
    Amount,        \* [Withdrawals -> Nat]
    Admins,        \* administrators' concurrent requests
    Runs,          \* concurrent executions of releaseMaturedHeld
    Limit,         \* how many matured events one execution looks at
    LockLapses     \* whether the lock's five minutes ever pass before its release

ASSUME WalletAssumption ==
    /\ IsFiniteSet(Events) /\ IsFiniteSet(Pays) /\ IsFiniteSet(Withdrawals)
    /\ EventOf \in [Pays -> Events]
    /\ Net \in [Pays -> Nat \ {0}]
    /\ HeldBps \in 0..10000
    /\ Amount \in [Withdrawals -> Nat \ {0}]
    /\ Limit \in Nat \ {0}
    /\ LockLapses \in BOOLEAN
    /\ "nobody" \notin Runs

VARIABLES
    closed,      \* Seq(Events): closed events, oldest closedAt first
    matured,     \* how many of them have been closed for long enough
    pay,         \* [Pays -> PayStates]: PaymentTransaction.status
    reopening,   \* payments locked by a recovery that has not committed
    cancelled,   \* set of payments whose vote has cancelledAt
    vaulted,     \* set of payments whose vote has its vault entry
    credited,    \* [Pays -> Nat]: CREDIT entries that name the payment
    reversed,    \* [Pays -> Nat]: ADJUSTMENT debits that name the payment
    allocated,   \* [Events -> Nat]: HELD_ALLOCATION entries
    released,    \* [Events -> Nat]: HELD_RELEASE entries
    held,        \* OrganizerWallet.heldCfa
    avail,       \* OrganizerWallet.withdrawableCfa
    wd,          \* [Withdrawals -> WdStates]
    desk,        \* [Admins -> Desks]: the request each administrator runs
    lock,        \* the row of PayoutJobLock
    run          \* [Runs -> RunStates]

vars == <<closed, matured, pay, reopening, cancelled, vaulted, credited, reversed,
          allocated, released, held, avail, wd, desk, lock, run>>

votes    == <<pay, reopening, cancelled, vaulted, credited, reversed>>
reserves == <<closed, matured, allocated, released>>
balances == <<held, avail>>

PayStates == {"PENDING", "FAILED", "SUCCEEDED", "VOIDED"}
WdStates  == {"none", "checked", "PENDING", "APPROVED", "REJECTED", "PAID"}

NoLock == [by |-> "nobody", stale |-> FALSE]

\* What an administrator's request is about to do, and what it has read.
Desk(step, what, seen, h) == [at |-> step, on |-> what, seen |-> seen, held |-> h]
AtRest == Desk("idle", "nothing", "nothing", 0)

\* Where an execution of the job stands: the events it still has to look at, and
\* the amount it has read for the first of them.
Run(step, todo, amount) == [at |-> step, todo |-> todo, amount |-> amount]
NotRunning == Run("idle", <<>>, 0)

Total(f, S) == MapThenSumSet(LAMBDA x : f[x], S)
Least(a, b) == IF a <= b THEN a ELSE b

Init ==
    /\ closed = <<>> /\ matured = 0
    /\ pay = [p \in Pays |-> "PENDING"]
    /\ reopening = {} /\ cancelled = {} /\ vaulted = {}
    /\ credited = [p \in Pays |-> 0]
    /\ reversed = [p \in Pays |-> 0]
    /\ allocated = [e \in Events |-> 0]
    /\ released = [e \in Events |-> 0]
    /\ held = 0 /\ avail = 0
    /\ wd = [w \in Withdrawals |-> "none"]
    /\ desk = [a \in Admins |-> AtRest]
    /\ lock = NoLock
    /\ run = [r \in Runs |-> NotRunning]

-----------------------------------------------------------------------------
(* Payments and events.                                                    *)

HeldPart(p) == (Net[p] * HeldBps) \div 10000

\* Mutant: the split is rounded separately for each part.
CreditSplit_RoundBoth(p) ==
    /\ held' = held + HeldPart(p)
    /\ avail' = avail + (Net[p] * (10000 - HeldBps)) \div 10000
    /\ credited' = [credited EXCEPT ![p] = @ + Net[p]]
    /\ allocated' = [allocated EXCEPT ![EventOf[p]] = @ + HeldPart(p)]

\* creditSplit: the reserve is rounded down, the rest is withdrawable.
CreditSplit(p) ==
    /\ held' = held + HeldPart(p)
    /\ avail' = avail + (Net[p] - HeldPart(p))
    /\ credited' = [credited EXCEPT ![p] = @ + Net[p]]
    /\ allocated' = [allocated EXCEPT ![EventOf[p]] = @ + HeldPart(p)]

\* applySuccess: conditional on PENDING; it looks neither at the event nor at
\* the vote's cancelledAt.
ApplyPayment(p) ==
    /\ pay[p] = "PENDING"
    /\ pay' = [pay EXCEPT ![p] = "SUCCEEDED"]
    /\ CreditSplit(p)
    /\ UNCHANGED <<closed, matured, reopening, cancelled, vaulted, reversed, released,
                   wd, desk, lock, run>>

\* The sweep gives the payment up.
AbandonPayment(p) ==
    /\ pay[p] = "PENDING"
    /\ pay' = [pay EXCEPT ![p] = "FAILED"]
    /\ UNCHANGED <<reopening, cancelled, vaulted, credited, reversed, reserves, balances,
                   wd, desk, lock, run>>

IsOpen(e) == \A i \in DOMAIN closed : closed[i] # e

\* A late confirmation locks the payment's row, then finds the event open ...
RecoverPayment(p) ==
    /\ pay[p] = "FAILED" /\ p \notin reopening
    /\ IsOpen(EventOf[p])
    /\ reopening' = reopening \cup {p}
    /\ UNCHANGED <<pay, cancelled, vaulted, credited, reversed, reserves, balances, wd,
                   desk, lock, run>>

\* ... and commits, whatever has become of the event ...
ReopenPayment(p) ==
    /\ p \in reopening
    /\ reopening' = reopening \ {p}
    /\ pay' = [pay EXCEPT ![p] = "PENDING"]
    /\ UNCHANGED <<cancelled, vaulted, credited, reversed, reserves, balances, wd,
                   desk, lock, run>>

\* ... or is rolled back.
RecoveryAborts(p) ==
    /\ p \in reopening
    /\ reopening' = reopening \ {p}
    /\ UNCHANGED <<pay, cancelled, vaulted, credited, reversed, reserves, balances, wd,
                   desk, lock, run>>

\* closeEvent claims the event while it has no closedAt.
CloseEvent(e) ==
    /\ IsOpen(e)
    /\ closed' = Append(closed, e)
    /\ UNCHANGED <<matured, allocated, released, votes, balances, wd, desk, lock, run>>

\* held_release_delay_hours pass for the oldest of the events still waiting.
Mature ==
    /\ matured < Len(closed)
    /\ matured' = matured + 1
    /\ UNCHANGED <<closed, allocated, released, votes, balances, wd, desk, lock, run>>

-----------------------------------------------------------------------------
(* Withdrawals.                                                            *)

\* requestWithdrawal reads the balance inside its transaction ...
CheckWithdrawal(w) ==
    /\ wd[w] = "none"
    /\ avail >= Amount[w]
    /\ wd' = [wd EXCEPT ![w] = "checked"]
    /\ UNCHANGED <<votes, reserves, balances, desk, lock, run>>

\* Mutant: the debit relies on the balance read before.
DebitWithdrawal_NoCas(w) ==
    /\ wd[w] = "checked"
    /\ avail' = avail - Amount[w]
    /\ wd' = [wd EXCEPT ![w] = "PENDING"]
    /\ UNCHANGED <<votes, reserves, held, desk, lock, run>>

\* ... and debits it conditionally: the request exists only with its debit.
DebitWithdrawal(w) ==
    /\ wd[w] = "checked"
    /\ IF avail >= Amount[w]
       THEN avail' = avail - Amount[w] /\ wd' = [wd EXCEPT ![w] = "PENDING"]
       ELSE wd' = [wd EXCEPT ![w] = "none"] /\ UNCHANGED avail
    /\ UNCHANGED <<votes, reserves, held, desk, lock, run>>

\* approve, reject and markPaid first read the status they expect.
Expected(step) == IF step = "pay" THEN "APPROVED" ELSE "PENDING"
OpenRequest(a, w, step) ==
    /\ desk[a] = AtRest
    /\ wd[w] = Expected(step)
    /\ desk' = [desk EXCEPT ![a] = Desk(step, w, wd[w], 0)]
    /\ UNCHANGED <<votes, reserves, balances, wd, lock, run>>

\* approve and markPaid: the transition claims the status it expects.
Transition(a) ==
    /\ desk[a].at \in {"approve", "pay"}
    /\ desk' = [desk EXCEPT ![a] = AtRest]
    /\ LET w == desk[a].on IN
         IF wd[w] = Expected(desk[a].at)
         THEN wd' = [wd EXCEPT ![w] = IF desk[a].at = "pay" THEN "PAID" ELSE "APPROVED"]
         ELSE UNCHANGED wd
    /\ UNCHANGED <<votes, reserves, balances, lock, run>>

\* Mutant: the status is not claimed again in the transaction.
Reject_NoClaim(a) ==
    /\ desk[a].at = "reject"
    /\ desk' = [desk EXCEPT ![a] = AtRest]
    /\ LET w == desk[a].on IN
         /\ wd' = [wd EXCEPT ![w] = "REJECTED"]
         /\ avail' = avail + Amount[w]
    /\ UNCHANGED <<votes, reserves, held, lock, run>>

\* reject claims the request and gives its amount back, once.
Reject(a) ==
    /\ desk[a].at = "reject"
    /\ desk' = [desk EXCEPT ![a] = AtRest]
    /\ LET w == desk[a].on IN
         IF wd[w] = "PENDING"
         THEN wd' = [wd EXCEPT ![w] = "REJECTED"] /\ avail' = avail + Amount[w]
         ELSE UNCHANGED <<wd, avail>>
    /\ UNCHANGED <<votes, reserves, held, lock, run>>

-----------------------------------------------------------------------------
(* Voiding a vote.                                                         *)

\* The vote and its payment are read before anything is written.
ReadVote(a, p) ==
    /\ desk[a] = AtRest
    /\ p \notin cancelled
    /\ desk' = [desk EXCEPT ![a] = Desk("vault", p, pay[p], 0)]
    /\ UNCHANGED <<votes, reserves, balances, wd, lock, run>>

\* The vault keeps one entry a vote, committed on its own.
VaultVote(a) ==
    /\ desk[a].at = "vault"
    /\ LET p == desk[a].on IN
         /\ vaulted' = vaulted \cup {p}
         /\ desk' = [desk EXCEPT ![a] = IF p \in vaulted THEN AtRest
                                       ELSE Desk("void", p, desk[a].seen, 0)]
    /\ UNCHANGED <<pay, reopening, cancelled, credited, reversed, reserves, balances, wd,
                   lock, run>>

\* The transaction, for a payment that had not succeeded when it was read: the
\* vote is claimed if it is not cancelled, the payment is overwritten, if it was
\* pending, as soon as no recovery holds its row.
VoidUnpaid(a) ==
    /\ desk[a].at = "void" /\ desk[a].seen # "SUCCEEDED"
    /\ desk[a].on \notin cancelled
    /\ desk[a].seen = "PENDING" => desk[a].on \notin reopening
    /\ desk' = [desk EXCEPT ![a] = AtRest]
    /\ LET p == desk[a].on IN
         /\ cancelled' = cancelled \cup {p}
         /\ pay' = IF desk[a].seen = "PENDING" THEN [pay EXCEPT ![p] = "VOIDED"] ELSE pay
    /\ UNCHANGED <<reopening, vaulted, credited, reversed, reserves, balances, wd, lock,
                   run>>

\* The transaction, for a paid vote: the balances are read ...
ReadBalances(a) ==
    /\ desk[a].at = "void" /\ desk[a].seen = "SUCCEEDED"
    /\ desk[a].on \notin cancelled
    /\ LET p == desk[a].on IN
         desk' = [desk EXCEPT ![a] =
                    IF held + avail < credited[p] THEN AtRest
                    ELSE Desk("debit", p, "SUCCEEDED", Least(held, credited[p]))]
    /\ UNCHANGED <<votes, reserves, balances, wd, lock, run>>

\* Mutant: the reserve only is taken back.
VoidPaid_HeldOnly(a) ==
    /\ desk[a].at = "debit"
    /\ desk' = [desk EXCEPT ![a] = AtRest]
    /\ LET p == desk[a].on
           fromHeld == desk[a].held
       IN  IF held >= fromHeld
           THEN /\ cancelled' = cancelled \cup {p}
                /\ pay' = [pay EXCEPT ![p] = "VOIDED"]
                /\ held' = held - fromHeld
                /\ reversed' = [reversed EXCEPT ![p] = @ + fromHeld]
           ELSE UNCHANGED <<cancelled, pay, held, reversed>>
    /\ UNCHANGED <<reopening, vaulted, credited, reserves, avail, wd, lock, run>>

\* ... and debited conditionally, the reserve first; when either balance has
\* fallen meanwhile, everything is rolled back but the vault entry.
VoidPaid(a) ==
    /\ desk[a].at = "debit"
    /\ desk' = [desk EXCEPT ![a] = AtRest]
    /\ LET p == desk[a].on
           fromHeld == desk[a].held
           fromAvail == credited[p] - fromHeld
       IN  IF held >= fromHeld /\ avail >= fromAvail
           THEN /\ cancelled' = cancelled \cup {p}
                /\ pay' = [pay EXCEPT ![p] = "VOIDED"]
                /\ held' = held - fromHeld
                /\ avail' = avail - fromAvail
                /\ reversed' = [reversed EXCEPT ![p] = @ + credited[p]]
           ELSE UNCHANGED <<cancelled, pay, held, avail, reversed>>
    /\ UNCHANGED <<reopening, vaulted, credited, reserves, wd, lock, run>>

\* The process stops, or the transaction is rolled back by the database.
DeskCrash(a) ==
    /\ desk[a] # AtRest
    /\ desk' = [desk EXCEPT ![a] = AtRest]
    /\ UNCHANGED <<votes, reserves, balances, wd, lock, run>>

-----------------------------------------------------------------------------
(* The settlement job.                                                     *)

\* acquire reads the lock's row: free, expired, or held (nothing to do).
LookAtLock(r) ==
    /\ run[r] = NotRunning
    /\ lock = NoLock \/ lock.stale
    /\ run' = [run EXCEPT ![r] = Run(IF lock = NoLock THEN "create" ELSE "take over",
                                    <<>>, 0)]
    /\ UNCHANGED <<votes, reserves, balances, wd, desk, lock>>

\* Mutant: the lock's name is not a primary key.
TakeLock_NoKey(r) ==
    /\ run[r].at \in {"create", "take over"}
    /\ lock' = [by |-> r, stale |-> FALSE]
    /\ run' = [run EXCEPT ![r] = Run("select", <<>>, 0)]
    /\ UNCHANGED <<votes, reserves, balances, wd, desk>>

\* Mutant: an expired row is never taken over.
TakeLock_NoTakeover(r) ==
    /\ run[r].at \in {"create", "take over"}
    /\ LET ok == run[r].at = "create" /\ lock = NoLock IN
         /\ lock' = IF ok THEN [by |-> r, stale |-> FALSE] ELSE lock
         /\ run' = [run EXCEPT ![r] = IF ok THEN Run("select", <<>>, 0) ELSE NotRunning]
    /\ UNCHANGED <<votes, reserves, balances, wd, desk>>

\* Then creates it (the name is a primary key) or rewrites the expired one,
\* whoever holds it by now; a row that is gone is an error.
TakeLock(r) ==
    /\ run[r].at \in {"create", "take over"}
    /\ LET ok == (run[r].at = "create") = (lock = NoLock) IN
         /\ lock' = IF ok THEN [by |-> r, stale |-> FALSE] ELSE lock
         /\ run' = [run EXCEPT ![r] = IF ok THEN Run("select", <<>>, 0) ELSE NotRunning]
    /\ UNCHANGED <<votes, reserves, balances, wd, desk>>

\* The TTL of five minutes passes, whether or not the execution has ended.
LockExpires ==
    /\ LockLapses
    /\ lock # NoLock /\ ~lock.stale
    /\ lock' = [lock EXCEPT !.stale = TRUE]
    /\ UNCHANGED <<votes, reserves, balances, wd, desk, run>>

\* The events that matured, oldest first, the first Limit of them only.
SelectMatured(r) ==
    /\ run[r].at = "select"
    /\ run' = [run EXCEPT ![r] =
                 Run("scan", SubSeq(closed, 1, Least(matured, Limit)), 0)]
    /\ UNCHANGED <<votes, reserves, balances, wd, desk, lock>>

\* The transaction of one selected event reads the entries of the event; when
\* nothing is left to release it is skipped ...
ReadReserve(r, e) ==
    /\ run[r].at = "scan"
    /\ run[r].todo # <<>> /\ e = Head(run[r].todo)
    /\ run' = [run EXCEPT ![r] =
                 IF allocated[e] > released[e]
                 THEN Run("release", run[r].todo, allocated[e] - released[e])
                 ELSE Run("scan", Tail(run[r].todo), 0)]
    /\ UNCHANGED <<votes, reserves, balances, wd, desk, lock>>

\* ... and otherwise moves the rest to the withdrawable balance, if the reserve
\* of all the events together still has it; if not, the event has failed.
ReleaseReserve(r) ==
    /\ run[r].at = "release"
    /\ run' = [run EXCEPT ![r] = Run("scan", Tail(run[r].todo), 0)]
    /\ LET x == run[r].amount IN
         IF held >= x
         THEN /\ held' = held - x
              /\ avail' = avail + x
              /\ released' = [released EXCEPT ![Head(run[r].todo)] = @ + x]
         ELSE UNCHANGED <<held, avail, released>>
    /\ UNCHANGED <<closed, matured, allocated, votes, wd, desk, lock>>

\* The list is exhausted: release deletes the row if it is still the owner's.
FinishRun(r) ==
    /\ run[r].at = "scan" /\ run[r].todo = <<>>
    /\ run' = [run EXCEPT ![r] = NotRunning]
    /\ lock' = IF lock.by = r THEN NoLock ELSE lock
    /\ UNCHANGED <<votes, reserves, balances, wd, desk>>

\* The process stops: the row stays until it expires.
RunCrash(r) ==
    /\ run[r] # NotRunning
    /\ run' = [run EXCEPT ![r] = NotRunning]
    /\ UNCHANGED <<votes, reserves, balances, wd, desk, lock>>

-----------------------------------------------------------------------------
Next ==
    \/ \E p \in Pays : \/ ApplyPayment(p) \/ AbandonPayment(p) \/ RecoverPayment(p)
                       \/ ReopenPayment(p) \/ RecoveryAborts(p)
    \/ \E e \in Events : CloseEvent(e)
    \/ Mature \/ LockExpires
    \/ \E w \in Withdrawals : CheckWithdrawal(w) \/ DebitWithdrawal(w)
    \/ \E a \in Admins :
         \/ \E w \in Withdrawals, step \in {"approve", "reject", "pay"} :
              OpenRequest(a, w, step)
         \/ \E p \in Pays : ReadVote(a, p)
         \/ Transition(a) \/ Reject(a) \/ VaultVote(a) \/ VoidUnpaid(a)
         \/ ReadBalances(a) \/ VoidPaid(a) \/ DeskCrash(a)
    \/ \E r \in Runs :
         \/ LookAtLock(r) \/ TakeLock(r) \/ SelectMatured(r) \/ ReleaseReserve(r)
         \/ FinishRun(r) \/ RunCrash(r)
         \/ \E e \in Events : ReadReserve(r, e)

Spec == Init /\ [][Next]_vars

\* The hourly scheduler starts the job again and again, and no execution is fated
\* to crash at the same place for ever.
FairSpec ==
    /\ Spec
    /\ WF_vars(Mature) /\ WF_vars(LockExpires)
    /\ \A r \in Runs :
         /\ SF_vars(LookAtLock(r)) /\ SF_vars(TakeLock(r)) /\ SF_vars(SelectMatured(r))
         /\ \A e \in Events : SF_vars(ReadReserve(r, e))
         /\ SF_vars(ReleaseReserve(r)) /\ SF_vars(FinishRun(r))

-----------------------------------------------------------------------------
(* What the wallet promises.                                               *)

\* Every variable has its column's type; amounts are database integers.
TypeOK ==
    /\ closed \in Seq(Events) /\ matured \in 0..Len(closed)
    /\ pay \in [Pays -> PayStates]
    /\ reopening \subseteq Pays /\ cancelled \subseteq Pays /\ vaulted \subseteq Pays
    /\ credited \in [Pays -> Nat] /\ reversed \in [Pays -> Nat]
    /\ allocated \in [Events -> Nat] /\ released \in [Events -> Nat]
    /\ held \in Int /\ avail \in Int
    /\ wd \in [Withdrawals -> WdStates]
    /\ lock \in [by : Runs \cup {"nobody"}, stale : BOOLEAN]

\* No interleaving of withdrawals, voids and releases makes a balance negative.
NeverOverdrawn == held >= 0 /\ avail >= 0

Live(w) == wd[w] \in {"PENDING", "APPROVED", "PAID"}

\* The two balances and the withdrawals that were not rejected always add up to
\* what payments brought in less what voids took back.
MoneyConserved ==
    held + avail + Total(Amount, {w \in Withdrawals : Live(w)})
        = Total(credited, Pays) - Total(reversed, Pays)

\* A payment is credited in full or not at all, and only once it succeeded; a
\* void takes back all of it, once, with the vote out of the ranking.
CreditMatchesPayment ==
    \A p \in Pays :
        /\ credited[p] \in {0, Net[p]}
        /\ pay[p] = "SUCCEEDED" => credited[p] = Net[p]
        /\ pay[p] \in {"PENDING", "FAILED"} => credited[p] = 0
        /\ reversed[p] # 0 => /\ reversed[p] = credited[p]
                             /\ pay[p] = "VOIDED" /\ p \in cancelled

\* An event's reserve is released once.
ReleasedOnce == \A e \in Events : released[e] <= allocated[e]

\* A withdrawal only moves forward, and a rejected or a paid one never moves.
WithdrawalsMoveForward ==
    [][\A w \in Withdrawals :
         wd[w] # wd'[w] =>
             <<wd[w], wd'[w]>> \in
                 {<<"none", "checked">>, <<"checked", "none">>, <<"checked", "PENDING">>,
                  <<"PENDING", "APPROVED">>, <<"PENDING", "REJECTED">>,
                  <<"APPROVED", "PAID">>}]_vars

\* Nothing is left to release for the event, or voids have left less than that in
\* the reserve, which is one for all the events.
Settled(e) ==
    \/ released[e] = allocated[e]
    \/ /\ \E p \in Pays : reversed[p] > 0
       /\ held < allocated[e] - released[e]

\* Again and again no matured event waits for its reserve, also after an execution
\* died with the lock.  A void may deprive an event of it for good: voidVote debits
\* the reserve first and leaves the events' entries alone, so that the release of
\* what they add up to fails each time.
ReserveReleased == []<>(\A i \in 1..matured : Settled(closed[i]))

-----------------------------------------------------------------------------
(* The abstract promise, implemented.                                      *)

\* A payment's entry in the ledger; a request that has only been checked is none.
entryOf == [p \in Pays |-> IF credited[p] = 0 THEN "none"
                           ELSE IF reversed[p] = 0 THEN "credited" ELSE "reversed"]
claimOf == [w \in Withdrawals |-> IF wd[w] = "checked" THEN "none" ELSE wd[w]]

Promise == INSTANCE WalletPromise WITH
              reserve <- held, free <- avail, entry <- entryOf, claim <- claimOf

\* Whatever the administrators, the requests and the job do at the same time, the
\* balances move as if each credit, reversal, withdrawal, rejection and release
\* were a single step, taken once: the conditional updates of WalletService and
\* the order of their checks make up for the balances read before.
ImplementsWalletPromise == Promise!Spec

\* What the pipeline of the payments sees of the wallet.
Feed == INSTANCE PaymentFeed WITH
            credit <- credited, over <- {closed[i] : i \in DOMAIN closed},
            recalled <- reopening

\* Nothing but the pipeline and a void moves a payment, and nothing but its
\* confirmation credits it: withdrawals, the closure and the settlement job leave
\* both alone.  A payment given up comes back only if its recovery found the event
\* open; the closure may be committed before the recovery is.
TakesTheFeed == Feed!Spec

-----------------------------------------------------------------------------
(* What the code's comments say and the code does not do.                  *)

\* The wallet is debited of what a voided payment had credited.
VoidedIsReversed ==
    \A p \in Pays : pay[p] = "VOIDED" => reversed[p] = credited[p]
=============================================================================
