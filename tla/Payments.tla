------------------------------ MODULE Payments ------------------------------
(***************************************************************************)
(* The life of a payment of the voting platform: the payer's request that  *)
(* creates the PaymentTransaction row and pushes the mobile-money prompt,  *)
(* the provider, the verify-by-pull pipeline run by webhooks and status    *)
(* polls (Handlers), and the reconciliation sweep (Sweepers).              *)
(*                                                                         *)
(* One action is one PostgreSQL transaction, one single statement or one   *)
(* read: everything between two of them may be interleaved with the other  *)
(* requests.  A transaction is one action when it has locked every row it  *)
(* decides on: the payment's, by a conditional UPDATE, and the ticket      *)
(* type's, by SELECT ... FOR UPDATE, for whatever takes a seat.  Nothing   *)
(* locks the event: the late recovery of a vote reads it in one action and *)
(* commits in another, the payment's row locked in between.                *)
(*                                                                         *)
(* A payment of purpose VOTE stands for VOTE and ORGANIZER_VOTE_TOPUP (the *)
(* same branches everywhere below); a payment of purpose TICKET buys one   *)
(* seat of the one ticket type of the one event.                           *)
(***************************************************************************)
EXTENDS Naturals, FiniteSets

CONSTANTS
    Pays,          \* payment attempts: each becomes at most one PaymentTransaction
    Buyers,        \* phone numbers
    Purpose,       \* [Pays -> {"VOTE", "TICKET"}]
    Provider,      \* [Pays -> {"FEDAPAY", "FEEXPAY"}]
    Buyer,         \* [Pays -> Buyers]: who asks
    Handlers,      \* concurrent verifications started by a webhook or a poll
    Sweepers,      \* concurrent runs of the reconciliation sweep
    Stock,         \* TicketType.quantity
    MaxPerPerson   \* TicketType.maxPerPerson

ASSUME PaymentsAssumption ==
    /\ IsFiniteSet(Pays)
    /\ Purpose \in [Pays -> {"VOTE", "TICKET"}]
    /\ Provider \in [Pays -> {"FEDAPAY", "FEEXPAY"}]
    /\ Buyer \in [Pays -> Buyers]
    /\ Stock \in Nat
    /\ MaxPerPerson \in Nat
    /\ Handlers \cap Sweepers = {}

Workers == Handlers \cup Sweepers

VARIABLES
    event,      \* "open" | "ended" (ACTIVE, period over) | "closed"
    req,        \* [Pays -> ReqSteps]: where the payer's HTTP request stands
    psp,        \* [Pays -> PspStates]: the provider's own record
    status,     \* [Pays -> Statuses]: PaymentTransaction.status
    ref,        \* [Pays -> BOOLEAN]: providerRef is bound
    age,        \* [Pays -> 0..2]: createdAt against the delays of the sweep
    seat,       \* [Pays -> SeatStates]: Ticket.status of a TICKET payment
    counted,    \* set of VOTE payments whose vote has paidAt
    credits,    \* [Pays -> Nat]: creditSplit calls committed for the payment
    abandoned,  \* set of payments with a timeout-abandon audit
    flags,      \* [Pays -> Nat]: late_success_needs_refund audits
    job         \* [Workers -> Jobs]: the verification each worker runs

vars == <<event, req, psp, status, ref, age, seat, counted, credits,
          abandoned, flags, job>>

Statuses   == {"ABSENT", "PENDING", "SUCCEEDED", "FAILED"}
SeatStates == {"none", "RESERVED", "PAID", "USED", "CANCELLED"}
PspStates  == {"none", "created", "prompted", "paid", "refused", "mismatch"}
ReqSteps   == {"new", "asked", "trigger", "send", "bind", "push", "fail", "done"}
JobSteps   == {"idle", "read", "pull", "fail", "recover", "reopen", "apply", "flag",
               "write", "giveup", "orphan"}

NoPay == "no payment"
Job(step, t, late, old) == [at |-> step, pay |-> t, late |-> late, old |-> old]
Idle  == Job("idle", NoPay, FALSE, FALSE)
Jobs  == [at : JobSteps, pay : Pays \cup {NoPay}, late : BOOLEAN, old : BOOLEAN]

Holding == {"RESERVED", "PAID", "USED"}
SeatHolders(seats) == {t \in Pays : seats[t] \in Holding}
HeldBy(b, seats)   == {t \in SeatHolders(seats) : Buyer[t] = b}
\* Age 1: past the delay for a ticket (15 min) or for a vote without reference
\* (60 min); age 2: past the delay for a vote with one (24 h).
MaxAge(t) == IF Purpose[t] = "TICKET" THEN 1 ELSE 2

Init ==
    /\ event = "open"
    /\ req = [t \in Pays |-> "new"]
    /\ psp = [t \in Pays |-> "none"]
    /\ status = [t \in Pays |-> "ABSENT"]
    /\ ref = [t \in Pays |-> FALSE]
    /\ age = [t \in Pays |-> 0]
    /\ seat = [t \in Pays |-> "none"]
    /\ counted = {}
    /\ credits = [t \in Pays |-> 0]
    /\ abandoned = {}
    /\ flags = [t \in Pays |-> 0]
    /\ job = [w \in Workers |-> Idle]

-----------------------------------------------------------------------------
(* Time and the event.                                                     *)

\* endsAt passes, then the organizer or the hourly job closes the event.
EventMoves ==
    /\ \/ event = "open" /\ event' = "ended"
       \/ event \in {"open", "ended"} /\ event' = "closed"
    /\ UNCHANGED <<req, psp, status, ref, age, seat, counted, credits,
                   abandoned, flags, job>>

Ageing(t) ==
    /\ status[t] # "ABSENT"
    /\ age[t] < MaxAge(t)
    /\ age' = [age EXCEPT ![t] = @ + 1]
    /\ UNCHANGED <<event, req, psp, status, ref, seat, counted, credits,
                   abandoned, flags, job>>

-----------------------------------------------------------------------------
(* The payer's request.                                                    *)

VotingOpen == event = "open"
OnSale     == event \in {"open", "ended"}

\* The event is read and checked before anything is written.
AskPayment(t) ==
    /\ req[t] = "new"
    /\ IF Purpose[t] = "VOTE" THEN VotingOpen ELSE OnSale
    /\ req' = [req EXCEPT ![t] = "asked"]
    /\ UNCHANGED <<event, psp, status, ref, age, seat, counted, credits,
                   abandoned, flags, job>>

\* initPaymentCore: one PENDING row for the vote.
CreateVotePayment(t) ==
    /\ req[t] = "asked"
    /\ Purpose[t] = "VOTE"
    /\ status' = [status EXCEPT ![t] = "PENDING"]
    /\ req' = [req EXCEPT ![t] = "trigger"]
    /\ UNCHANGED <<event, psp, ref, age, seat, counted, credits, abandoned,
                   flags, job>>

\* The buyer's own unpaid purchases that would block this one, once their
\* prompt has left; they are given up so that the new attempt can pass.
Blocking(t) ==
    \/ Cardinality(HeldBy(Buyer[t], seat)) + 1 > MaxPerPerson
    \/ Cardinality(SeatHolders(seat)) + 1 > Stock
OwnUnpaid(t) ==
    IF Blocking(t)
    THEN {u \in Pays : /\ Buyer[u] = Buyer[t]
                       /\ seat[u] = "RESERVED"
                       /\ status[u] = "PENDING"
                       /\ ref[u]}
    ELSE {}
\* Mutant: the conditional update of the tickets is forgotten.
Released_Forgotten(U) == seat
Released(U) == [u \in Pays |-> IF u \in U /\ seat[u] = "RESERVED"
                               THEN "CANCELLED" ELSE seat[u]]

\* Mutant: the replaced purchase leaves no timeout audit.
CreatePurchase_NoAudit(t) ==
    LET own  == OwnUnpaid(t)
        left == Released(own)
    IN  /\ req[t] = "asked"
        /\ Purpose[t] = "TICKET"
        /\ Cardinality(HeldBy(Buyer[t], left)) + 1 <= MaxPerPerson
        /\ Cardinality(SeatHolders(left)) + 1 <= Stock
        /\ seat' = [left EXCEPT ![t] = "RESERVED"]
        /\ status' = [u \in Pays |-> IF u = t THEN "PENDING"
                                     ELSE IF u \in own THEN "FAILED"
                                     ELSE status[u]]
        /\ req' = [req EXCEPT ![t] = "trigger"]
        /\ UNCHANGED <<event, psp, ref, age, counted, credits, abandoned,
                       flags, job>>

\* purchaseTickets' transaction, under the lock of the ticket type: the
\* limits are checked on what is left after releasing the buyer's own seats.
CreatePurchase(t) ==
    LET own  == OwnUnpaid(t)
        left == Released(own)
    IN  /\ req[t] = "asked"
        /\ Purpose[t] = "TICKET"
        /\ Cardinality(HeldBy(Buyer[t], left)) + 1 <= MaxPerPerson
        /\ Cardinality(SeatHolders(left)) + 1 <= Stock
        /\ seat' = [left EXCEPT ![t] = "RESERVED"]
        /\ status' = [u \in Pays |-> IF u = t THEN "PENDING"
                                     ELSE IF u \in own THEN "FAILED"
                                     ELSE status[u]]
        /\ abandoned' = abandoned \cup own
        /\ req' = [req EXCEPT ![t] = "trigger"]
        /\ UNCHANGED <<event, psp, ref, age, counted, credits, flags, job>>

\* triggerVotePayin reads the row: another path may have closed it meanwhile.
TriggerPayin(t) ==
    /\ req[t] = "trigger"
    /\ req' = [req EXCEPT ![t] =
                 IF ref[t] \/ status[t] # "PENDING" THEN "done" ELSE "send"]
    /\ UNCHANGED <<event, psp, status, ref, age, seat, counted, credits,
                   abandoned, flags, job>>

\* A conditional UPDATE to FAILED with the release of the reserved seats.
FailPayment(t) ==
    /\ status' = [status EXCEPT ![t] = "FAILED"]
    /\ seat' = Released({t})

\* The network or the phone number is refused before anything is sent.
RefuseNetwork(t) ==
    /\ req[t] = "send"
    /\ req' = [req EXCEPT ![t] = "done"]
    /\ IF status[t] = "PENDING" THEN FailPayment(t)
       ELSE seat' = Released({t}) /\ UNCHANGED status
    /\ UNCHANGED <<event, psp, ref, age, counted, credits, abandoned, flags, job>>

\* Mutant: FedaPay's three requests are sent before the reference is bound.
SendPayin_PushFirst(t) ==
    /\ req[t] = "send"
    /\ psp' = [psp EXCEPT ![t] = "prompted"]
    /\ \E next \in {"bind", "fail"} : req' = [req EXCEPT ![t] = next]
    /\ UNCHANGED <<event, status, ref, age, seat, counted, credits, abandoned,
                   flags, job>>

\* The first POST.  FedaPay only records the transaction and answers with its
\* id; FeexPay sends the prompt at once.  Either answer may never arrive.
SendPayin(t) ==
    /\ req[t] = "send"
    /\ \/ /\ psp' = [psp EXCEPT ![t] = IF Provider[t] = "FEDAPAY"
                                       THEN "created" ELSE "prompted"]
          /\ \E next \in {"bind", "fail"} : req' = [req EXCEPT ![t] = next]
       \/ /\ req' = [req EXCEPT ![t] = "fail"]
          /\ UNCHANGED psp
    /\ UNCHANGED <<event, status, ref, age, seat, counted, credits, abandoned,
                   flags, job>>

\* attachProviderRef, before the push for FedaPay (onReference), after it for
\* FeexPay.  It looks at the reference only, never at the status.
AttachProviderRef(t) ==
    /\ req[t] = "bind"
    /\ ref' = [ref EXCEPT ![t] = TRUE]
    /\ req' = [req EXCEPT ![t] = IF Provider[t] = "FEDAPAY" THEN "push" ELSE "done"]
    /\ UNCHANGED <<event, psp, status, age, seat, counted, credits, abandoned,
                   flags, job>>

\* FedaPay's token and push requests; a failure is seen by the caller whether
\* or not the prompt left.
PushPrompt(t) ==
    /\ req[t] = "push"
    /\ \/ /\ psp' = [psp EXCEPT ![t] = IF @ = "created" THEN "prompted" ELSE @]
          /\ \E next \in {"done", "fail"} : req' = [req EXCEPT ![t] = next]
       \/ /\ req' = [req EXCEPT ![t] = "fail"]
          /\ UNCHANGED psp
    /\ UNCHANGED <<event, status, ref, age, seat, counted, credits, abandoned,
                   flags, job>>

\* Mutant: the condition on providerRef is dropped.
FailUnsentPayment_AnyRef(t) ==
    /\ req[t] = "fail"
    /\ req' = [req EXCEPT ![t] = "done"]
    /\ IF status[t] = "PENDING" THEN FailPayment(t) ELSE UNCHANGED <<status, seat>>
    /\ UNCHANGED <<event, psp, ref, age, counted, credits, abandoned, flags, job>>

\* failUnsentPayment (repeated word for word by purchaseTickets): only a
\* payment without reference is closed.
FailUnsentPayment(t) ==
    /\ req[t] = "fail"
    /\ req' = [req EXCEPT ![t] = "done"]
    /\ IF status[t] = "PENDING" /\ ~ref[t] THEN FailPayment(t)
       ELSE UNCHANGED <<status, seat>>
    /\ UNCHANGED <<event, psp, ref, age, counted, credits, abandoned, flags, job>>

\* The process stops: whatever the request had not written is never written.
RequestCrash(t) ==
    /\ req[t] \notin {"new", "done"}
    /\ req' = [req EXCEPT ![t] = "done"]
    /\ UNCHANGED <<event, psp, status, ref, age, seat, counted, credits,
                   abandoned, flags, job>>

\* The payer confirms, declines or lets the prompt expire; an amount or a
\* currency that differs from the row's is a state of its own.
PspResolves(t) ==
    /\ \/ psp[t] = "prompted" /\ psp' \in {[psp EXCEPT ![t] = s] :
                                            s \in {"paid", "refused", "mismatch"}}
       \/ psp[t] = "created" /\ psp' = [psp EXCEPT ![t] = "refused"]
    /\ UNCHANGED <<event, req, status, ref, age, seat, counted, credits,
                   abandoned, flags, job>>

\* The ticket is scanned at the door: PAID to USED, once.
ValidateTicket(t) ==
    /\ seat[t] = "PAID"
    /\ seat' = [seat EXCEPT ![t] = "USED"]
    /\ UNCHANGED <<event, req, psp, status, ref, age, counted, credits,
                   abandoned, flags, job>>

-----------------------------------------------------------------------------
(* The verification pipeline.  It is found again by the reference only.    *)

GoTo(w, step) ==
    job' = [job EXCEPT ![w] = Job(step, job[w].pay, FALSE, job[w].old)]
EndJob(w)     == job' = [job EXCEPT ![w] = Idle]

\* A webhook (any number of times, at any moment) names a known reference.
Webhook(w, t) ==
    /\ job[w] = Idle
    /\ ref[t]
    /\ job' = [job EXCEPT ![w] = Job("read", t, FALSE, FALSE)]
    /\ UNCHANGED <<event, req, psp, status, ref, age, seat, counted, credits,
                   abandoned, flags>>

\* A status page: the row is read first, and only a PENDING one is pulled.
PollStatus(w, t) == status[t] = "PENDING" /\ Webhook(w, t)

\* Mutant: the sweep only looks at rows it can verify.
SweepRow_SkipOrphans(w, t) ==
    /\ job[w] = Idle
    /\ status[t] = "PENDING"
    /\ ref[t]
    /\ job' = [job EXCEPT ![w] = Job("read", t, FALSE, age[t] = MaxAge(t))]
    /\ UNCHANGED <<event, req, psp, status, ref, age, seat, counted, credits,
                   abandoned, flags>>

\* One row of the sweep's list, read when the sweep starts.  (The code leaves
\* rows younger than three minutes alone; here it may look at any of them.)
SweepRow(w, t) ==
    /\ job[w] = Idle
    /\ status[t] = "PENDING"
    /\ ref[t] \/ age[t] >= 1
    /\ job' = [job EXCEPT ![w] = Job(IF ref[t] THEN "read" ELSE "orphan",
                                    t, FALSE, age[t] = MaxAge(t))]
    /\ UNCHANGED <<event, req, psp, status, ref, age, seat, counted, credits,
                   abandoned, flags>>

\* verifyAndApplyByReference reads the row and, for a FAILED one, the audits.
ReadPayment(w) ==
    /\ job[w].at = "read"
    /\ LET t == job[w].pay IN
         \/ /\ \/ status[t] \in {"SUCCEEDED", "ABSENT"}
               \/ status[t] = "FAILED" /\ t \notin abandoned
            /\ EndJob(w)
         \/ /\ \/ status[t] = "PENDING"
               \/ status[t] = "FAILED" /\ t \in abandoned
            /\ job' = [job EXCEPT ![w] = Job("pull", t, status[t] = "FAILED",
                                            job[w].old)]
    /\ UNCHANGED <<event, req, psp, status, ref, age, seat, counted, credits,
                   abandoned, flags>>

\* What a pull that settles nothing leads to: the sweep may give the row up.
Unresolved(w) == IF w \in Sweepers THEN GoTo(w, "giveup") ELSE EndJob(w)

\* The provider does not answer, or answers that the payment is pending.
PullUnresolved(w) ==
    /\ job[w].at = "pull"
    /\ IF job[w].late THEN EndJob(w) ELSE Unresolved(w)
    /\ UNCHANGED <<event, req, psp, status, ref, age, seat, counted, credits,
                   abandoned, flags>>

PullRefused(w) ==
    /\ job[w].at = "pull"
    /\ psp[job[w].pay] = "refused"
    /\ IF job[w].late THEN EndJob(w) ELSE GoTo(w, "fail")
    /\ UNCHANGED <<event, req, psp, status, ref, age, seat, counted, credits,
                   abandoned, flags>>

\* Mutant: the amount is not compared.
PullMismatch_Accepted(w) ==
    /\ job[w].at = "pull"
    /\ psp[job[w].pay] = "mismatch"
    /\ GoTo(w, IF job[w].late THEN "recover" ELSE "apply")
    /\ UNCHANGED <<event, req, psp, status, ref, age, seat, counted, credits,
                   abandoned, flags>>

\* Amount or currency differ: rejected, with an audit that no code reads back.
PullMismatch(w) ==
    /\ job[w].at = "pull"
    /\ psp[job[w].pay] = "mismatch"
    /\ Unresolved(w)
    /\ UNCHANGED <<event, req, psp, status, ref, age, seat, counted, credits,
                   abandoned, flags>>

PullPaid(w) ==
    /\ job[w].at = "pull"
    /\ psp[job[w].pay] = "paid"
    /\ GoTo(w, IF job[w].late THEN "recover" ELSE "apply")
    /\ UNCHANGED <<event, req, psp, status, ref, age, seat, counted, credits,
                   abandoned, flags>>

MarkFailed(w) ==
    /\ job[w].at = "fail"
    /\ LET t == job[w].pay IN
         IF status[t] = "PENDING" THEN FailPayment(t)
         ELSE UNCHANGED <<status, seat>>
    /\ EndJob(w)
    /\ UNCHANGED <<event, req, psp, ref, age, counted, credits, abandoned, flags>>

\* What the payer paid for, and the credit of the organizer's wallet.
Honour(t) ==
    /\ status' = [status EXCEPT ![t] = "SUCCEEDED"]
    /\ counted' = IF Purpose[t] = "VOTE" THEN counted \cup {t} ELSE counted
    /\ seat' = [seat EXCEPT ![t] = IF @ = "RESERVED" THEN "PAID" ELSE @]
    /\ credits' = [credits EXCEPT ![t] = @ + 1]

\* Mutant: the transaction is not conditional on PENDING.
ApplySuccess_NoCas(w) ==
    /\ job[w].at = "apply"
    /\ Honour(job[w].pay)
    /\ EndJob(w)
    /\ UNCHANGED <<event, req, psp, ref, age, abandoned, flags>>

\* applySuccess: one transaction, conditional on PENDING.
ApplySuccess(w) ==
    /\ job[w].at = "apply"
    /\ IF status[job[w].pay] = "PENDING" THEN Honour(job[w].pay)
       ELSE UNCHANGED <<status, seat, counted, credits>>
    /\ EndJob(w)
    /\ UNCHANGED <<event, req, psp, ref, age, abandoned, flags>>

\* Mutant: the seats are taken back without counting those sold meanwhile.
LateRefusal_NoStock(t) ==
    IF Purpose[t] = "VOTE" THEN ~VotingOpen ELSE seat[t] # "CANCELLED"

\* Mutant: the period of the vote is not looked at again.
LateRefusal_AnyTime(t) ==
    /\ Purpose[t] = "TICKET"
    /\ \/ seat[t] # "CANCELLED"
       \/ Cardinality(SeatHolders(seat)) + 1 > Stock

\* The payment was given up but the provider took the money: what makes it
\* impossible to honour, for all the recovery can read.
LateRefusal(t) ==
    IF Purpose[t] = "VOTE" THEN ~VotingOpen
    ELSE \/ seat[t] # "CANCELLED"
         \/ Cardinality(SeatHolders(seat)) + 1 > Stock

\* The workers whose recovery has locked the row of a payment and not committed.
Recovering(t) == {w \in Workers : job[w].at = "reopen" /\ job[w].pay = t}

\* recoverLateSuccess' transaction, once the row of the payment is its own: the
\* refusal rolls it back and leaves the refund to be flagged; a ticket's seat is
\* taken again under the lock of its type; a vote's event is only read.
RecoverLateSuccess(w) ==
    /\ job[w].at = "recover"
    /\ Recovering(job[w].pay) = {}
    /\ LET t == job[w].pay IN
         \/ /\ status[t] # "FAILED"
            /\ EndJob(w)
            /\ UNCHANGED <<status, seat>>
         \/ /\ status[t] = "FAILED"
            /\ LateRefusal(t)
            /\ GoTo(w, "flag")
            /\ UNCHANGED <<status, seat>>
         \/ /\ status[t] = "FAILED" /\ Purpose[t] = "VOTE"
            /\ ~LateRefusal(t)
            /\ GoTo(w, "reopen")
            /\ UNCHANGED <<status, seat>>
         \/ /\ status[t] = "FAILED" /\ Purpose[t] = "TICKET"
            /\ ~LateRefusal(t)
            /\ status' = [status EXCEPT ![t] = "PENDING"]
            /\ seat' = [seat EXCEPT ![t] = "RESERVED"]
            /\ GoTo(w, "apply")
    /\ UNCHANGED <<event, req, psp, ref, age, counted, credits, abandoned, flags>>

\* The vote's recovery commits, whatever has become of the event since it was
\* read; nothing else has written the locked row.
ReopenVote(w) ==
    /\ job[w].at = "reopen"
    /\ status' = [status EXCEPT ![job[w].pay] = "PENDING"]
    /\ GoTo(w, "apply")
    /\ UNCHANGED <<event, req, psp, ref, age, seat, counted, credits, abandoned,
                   flags>>

\* flagLateSuccessForRefund: look for an earlier audit, then write one.
FlagLookup(w) ==
    /\ job[w].at = "flag"
    /\ IF flags[job[w].pay] > 0 THEN EndJob(w) ELSE GoTo(w, "write")
    /\ UNCHANGED <<event, req, psp, status, ref, age, seat, counted, credits,
                   abandoned, flags>>

FlagRefund(w) ==
    /\ job[w].at = "write"
    /\ flags' = [flags EXCEPT ![job[w].pay] = @ + 1]
    /\ EndJob(w)
    /\ UNCHANGED <<event, req, psp, status, ref, age, seat, counted, credits,
                   abandoned>>

\* A timeout that a later confirmation may still overturn.
Abandon(t) == FailPayment(t) /\ abandoned' = abandoned \cup {t}

\* abandonPending, or the touch of a row that is not old enough.
GiveUp(w) ==
    /\ job[w].at = "giveup"
    /\ IF job[w].old /\ status[job[w].pay] = "PENDING" THEN Abandon(job[w].pay)
       ELSE UNCHANGED <<status, seat, abandoned>>
    /\ EndJob(w)
    /\ UNCHANGED <<event, req, psp, ref, age, counted, credits, flags>>

ExpireOrphan(w) ==
    /\ job[w].at = "orphan"
    /\ LET t == job[w].pay IN
         IF status[t] = "PENDING" /\ ~ref[t] THEN Abandon(t)
         ELSE UNCHANGED <<status, seat, abandoned>>
    /\ EndJob(w)
    /\ UNCHANGED <<event, req, psp, ref, age, counted, credits, flags>>

\* A read or a transaction fails (lost connection, deadlock victim) and is
\* rolled back: the sweep treats the row as unresolved, a handler answers 500.
StepAborts(w) ==
    /\ job[w].at \in {"read", "fail", "recover", "reopen", "apply", "flag", "write"}
    /\ Unresolved(w)
    /\ UNCHANGED <<event, req, psp, status, ref, age, seat, counted, credits,
                   abandoned, flags>>

\* The process running the verification stops between two transactions.
WorkerCrash(w) ==
    /\ job[w] # Idle
    /\ EndJob(w)
    /\ UNCHANGED <<event, req, psp, status, ref, age, seat, counted, credits,
                   abandoned, flags>>

-----------------------------------------------------------------------------
RequestStep(t) ==
    \/ AskPayment(t) \/ CreateVotePayment(t) \/ CreatePurchase(t)
    \/ TriggerPayin(t) \/ RefuseNetwork(t) \/ SendPayin(t)
    \/ AttachProviderRef(t) \/ PushPrompt(t) \/ FailUnsentPayment(t)

WorkerStep(w) ==
    \/ ReadPayment(w) \/ PullUnresolved(w) \/ PullRefused(w) \/ PullMismatch(w)
    \/ PullPaid(w) \/ MarkFailed(w) \/ ApplySuccess(w) \/ RecoverLateSuccess(w)
    \/ ReopenVote(w) \/ FlagLookup(w) \/ FlagRefund(w) \/ GiveUp(w) \/ ExpireOrphan(w)

Next ==
    \/ EventMoves
    \/ \E t \in Pays : \/ RequestStep(t) \/ RequestCrash(t) \/ PspResolves(t)
                       \/ ValidateTicket(t) \/ Ageing(t)
    \/ \E w \in Handlers, t \in Pays : Webhook(w, t) \/ PollStatus(w, t)
    \/ \E w \in Sweepers, t \in Pays : SweepRow(w, t)
    \/ \E w \in Workers : WorkerStep(w) \/ StepAborts(w) \/ WorkerCrash(w)

Spec == Init /\ [][Next]_vars
-----------------------------------------------------------------------------
(* What the pipeline promises.                                             *)

\* Every variable has the type of the column or local it stands for.
TypeOK ==
    /\ event \in {"open", "ended", "closed"}
    /\ req \in [Pays -> ReqSteps]
    /\ psp \in [Pays -> PspStates]
    /\ status \in [Pays -> Statuses]
    /\ ref \in [Pays -> BOOLEAN]
    /\ age \in [Pays -> 0..2]
    /\ seat \in [Pays -> SeatStates]
    /\ counted \subseteq Pays
    /\ credits \in [Pays -> Nat]
    /\ abandoned \subseteq Pays
    /\ flags \in [Pays -> Nat]
    /\ job \in [Workers -> Jobs]

\* Replayed webhooks, polls and sweeps never credit a payment twice, and a
\* payment given up after all (never SUCCEEDED) is never credited.
CreditedExactlyOnce ==
    \A t \in Pays : credits[t] = IF status[t] = "SUCCEEDED" THEN 1 ELSE 0

\* The organizer is credited, the vote counted and the seat paid only with
\* money that the provider holds for this payment.
NoCreditWithoutMoney ==
    \A t \in Pays :
        credits[t] > 0 \/ t \in counted \/ seat[t] \in {"PAID", "USED"}
            => psp[t] = "paid"

\* Whatever interleaving of give-up, late recovery and confirmation occurred,
\* the payment row and what it buys agree.
GoodsFollowPayment ==
    \A t \in Pays :
        IF Purpose[t] = "VOTE"
        THEN seat[t] = "none" /\ (t \in counted <=> status[t] = "SUCCEEDED")
        ELSE /\ t \notin counted
             /\ status[t] = "ABSENT" <=> seat[t] = "none"
             /\ status[t] = "PENDING" <=> seat[t] = "RESERVED"
             /\ status[t] = "SUCCEEDED" <=> seat[t] \in {"PAID", "USED"}
             /\ status[t] = "FAILED" <=> seat[t] = "CANCELLED"

\* Neither two concurrent purchases nor a late confirmation that takes a seat
\* back sells more seats than the ticket type has.
NeverOversold == Cardinality(SeatHolders(seat)) <= Stock

\* "aucun paiement encaisse sans trace": with FedaPay the reference is bound
\* before the prompt leaves, so what the payer confirms can be verified.
FedapayPromptIsTraceable ==
    \A t \in Pays :
        Provider[t] = "FEDAPAY" /\ psp[t] \in {"prompted", "paid", "mismatch"}
            => ref[t]

MayReopen ==
    \A t \in Pays :
        /\ status[t] = "SUCCEEDED" => status'[t] = "SUCCEEDED"
        /\ status[t] = "FAILED" /\ status'[t] # "FAILED"
             => t \in abandoned /\ psp[t] = "paid" /\ status'[t] = "PENDING"

\* A closed payment is closed for good, unless a timeout closed it and the
\* provider has the money; a success is never undone.
OnlyLateMoneyReopens == [][MayReopen]_vars

-----------------------------------------------------------------------------
(* What must happen.  Only the sweep is fair: the scheduler of every       *)
(* instance fires every five minutes and each run is a fresh attempt, so a *)
(* crash or a failed statement is not repeated for ever at the same place  *)
(* (strong fairness).  Payers, providers and webhooks owe nothing.         *)

SweepFairness(w) ==
    /\ \A t \in Pays : SF_vars(SweepRow(w, t))
    /\ SF_vars(ReadPayment(w))
    /\ SF_vars(PullUnresolved(w) \/ PullRefused(w) \/ PullMismatch(w) \/ PullPaid(w))
    /\ SF_vars(MarkFailed(w))
    /\ SF_vars(RecoverLateSuccess(w))
    /\ SF_vars(ReopenVote(w))
    /\ SF_vars(FlagLookup(w))
    /\ SF_vars(FlagRefund(w))
    /\ SF_vars(ApplySuccess(w))
    /\ SF_vars(GiveUp(w))
    /\ SF_vars(ExpireOrphan(w))

FairSpec ==
    /\ Spec
    /\ \A t \in Pays : WF_vars(Ageing(t))
    /\ \A w \in Sweepers : SweepFairness(w)

\* No row stays PENDING for ever, whatever crashed, was lost or never came:
\* an unpaid reservation cannot keep its seat from the other buyers.
PendingResolves ==
    \A t \in Pays : status[t] = "PENDING" ~> status[t] # "PENDING"

\* The sweep makes up for lost webhooks: a confirmed payment still PENDING is
\* honoured, unless a timeout gave it up first.
PaidPendingIsHonoured ==
    \A t \in Pays :
        (status[t] = "PENDING" /\ ref[t] /\ psp[t] = "paid")
            ~> (status[t] = "SUCCEEDED" \/ t \in abandoned)

-----------------------------------------------------------------------------
(* What the code's comments say and the code does not do.                  *)

\* A confirmed late payment is either honoured or flagged for refund.
HonouredXorRefunded ==
    \A t \in Pays : ~(status[t] = "SUCCEEDED" /\ flags[t] > 0)

\* One buyer never holds more seats than maxPerPerson.
PersonLimit ==
    \A b \in Buyers : Cardinality(HeldBy(b, seat)) <= MaxPerPerson

\* Money the provider took under a bound reference is honoured or flagged.
PaidReferenceSettles ==
    \A t \in Pays :
        (ref[t] /\ psp[t] = "paid") ~> (status[t] = "SUCCEEDED" \/ flags[t] > 0)

-----------------------------------------------------------------------------
(* How far the code departs from its comments, and no further.             *)

\* The refund list names only payments that a timeout closed and whose money the
\* provider holds (flagLateSuccessForRefund), whatever became of them since.
RefundIsOwed == \A t \in Pays : flags[t] > 0 => t \in abandoned /\ psp[t] = "paid"

\* Without the seats that a late confirmation may have taken back, the limit per
\* person holds: purchaseTickets counts under the lock, however many purchases
\* of a buyer run at the same time.
LimitButForLate ==
    \A b \in Buyers : Cardinality(HeldBy(b, seat) \ abandoned) <= MaxPerPerson

-----------------------------------------------------------------------------
(* The abstract promise that the pipeline implements.                      *)

Life(t) ==
    IF status[t] = "ABSENT" THEN "none"
    ELSE IF status[t] = "PENDING" THEN "open"
    ELSE IF status[t] = "SUCCEEDED" THEN "honoured"
    ELSE IF t \in abandoned THEN "lapsed" ELSE "dead"

Promise == INSTANCE PaymentPromise WITH
    Tickets <- {t \in Pays : Purpose[t] = "TICKET"},
    life    <- [t \in Pays |-> Life(t)],
    money   <- {t \in Pays : psp[t] = "paid"},
    credit  <- credits

\* Every step of the pipeline is a step of the promise, or invisible to it.
ImplementsPromise == Promise!Spec

\* What the wallet sees of a vote's payment: a row that is not written yet is one
\* that waits.
Votes     == {t \in Pays : Purpose[t] = "VOTE"}
TheEvent  == "the event"

Feed == INSTANCE PaymentFeed WITH
    Pays    <- Votes,
    Events  <- {TheEvent},
    EventOf <- [t \in Votes |-> TheEvent],
    Net     <- [t \in Votes |-> 1],
    pay     <- [t \in Votes |-> IF status[t] = "ABSENT" THEN "PENDING" ELSE status[t]],
    credit  <- [t \in Votes |-> credits[t]],
    over    <- IF event = "closed" THEN {TheEvent} ELSE {},
    recalled <- {t \in Votes : Recovering(t) # {}}

\* The pipeline confirms, abandons and recovers a vote's payment as the wallet
\* takes it to: one credit with its success, and a timeout that a late answer
\* overturns only if the recovery has found the event open while it held the row
\* (recoverLateSuccess).  By the time it commits the event may be closed.
FeedsTheWallet == Feed!Spec
=============================================================================
