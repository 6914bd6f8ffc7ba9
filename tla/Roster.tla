------------------------------- MODULE Roster -------------------------------
(***************************************************************************)
(* The candidates of a contest on line, the ballots cast for them, and the *)
(* deletion of a candidate (EventsService.deleteCandidate), which takes    *)
(* the candidate's votes with it: VotesService.castVote creates an unpaid  *)
(* vote, PaymentsService.initPublicPayment a payment that names it (and    *)
(* that no foreign key ties to it), and a confirmation counts it. What the *)
(* payment goes through is the matter of Payments.tla, the effects of a    *)
(* cancellation on the wallet of Wallet.tla.                               *)
(***************************************************************************)
EXTENDS Naturals

CONSTANTS
    Candidates,   \* rows that may be created
    Ballots,      \* votes that may be cast
    Deletions,    \* requests that delete a candidate
    Nobody        \* no candidate

ASSUME RosterAssumption == Nobody \notin Candidates

VARIABLES
    roOpen,       \* the contest is ACTIVE; otherwise it is closed or archived
    roCandidates, \* the candidates that exist
    roVote,       \* [Ballots -> RoVotes]
    roPay,        \* [Ballots -> RoPayments]: the payment that names this vote
    roTaken,      \* ballots whose money the provider holds
    roLapsed,     \* payments with a "timeout" audit
    roAsk,        \* [Ballots -> RoAsks]: the voter's or the organizer's request
    roDelete,     \* [Deletions -> RoDeletes]
    roExcused     \* ghost: ballots that moved after the check of a deletion under way, or
                  \*   whose payment was created or came back after their vote was gone

roVars == <<roOpen, roCandidates, roVote, roPay, roTaken, roLapsed, roAsk, roDelete, roExcused>>

\* The vote's row: absent, cast without a payment confirmed, paid, or gone with its candidate.
RoVotes    == [row : {"none", "cast", "paid", "gone"}, cancelled : BOOLEAN,
               choice : Candidates \cup {Nobody}]
\* Of a payment that a recovery holds, the others see the status FAILED.
RoPayments == {"none", "PENDING", "SUCCEEDED", "FAILED", "held", "VOIDED"}
\* "choosing" has read the contest and the candidate, "topping" too, for the
\* organizer; "paying" is about to create the payment.
RoAsks     == {"idle", "choosing", "topping", "paying"}
RoSteps    == {"idle", "reading", "unpaid", "listed", "deleting"}
RoDeletes  == [at : RoSteps, candidate : Candidates \cup {Nobody}, votes : SUBSET Ballots]

NoDelete == [at |-> "idle", candidate |-> Nobody, votes |-> {}]
Uncast   == [row |-> "none", cancelled |-> FALSE, choice |-> Nobody]

RosterInit ==
    /\ roOpen = TRUE
    /\ roCandidates \in SUBSET Candidates
    /\ roVote = [b \in Ballots |-> Uncast]
    /\ roPay = [b \in Ballots |-> "none"]
    /\ roTaken = {}
    /\ roLapsed = {}
    /\ roAsk = [b \in Ballots |-> "idle"]
    /\ roDelete = [d \in Deletions |-> NoDelete]
    /\ roExcused = {}

Exists(b)    == roVote[b].row \in {"cast", "paid"}
VotesOf(c)   == {b \in Ballots : Exists(b) /\ roVote[b].choice = c}
\* Some deletion of b's candidate has passed the statement that looks for what
\* b does now, or b's vote is gone already.
Overtakes(b, past) ==
    roExcused' = IF \/ roVote[b].row = "gone"
                    \/ \E d \in Deletions : roDelete[d].at \in past /\ roDelete[d].candidate = roVote[b].choice
                    THEN roExcused \cup {b} ELSE roExcused

-----------------------------------------------------------------------------
\* The contest and its candidates.

CloseContest ==
    /\ roOpen
    /\ roOpen' = FALSE
    /\ UNCHANGED <<roCandidates, roVote, roPay, roTaken, roLapsed, roAsk, roDelete, roExcused>>

\* createCandidate, importCandidates: a new row, that nothing refers to yet.
CreateCandidate(c) ==
    /\ roOpen
    /\ c \notin roCandidates
    /\ \A b \in Ballots : roVote[b].choice # c
    /\ \A d \in Deletions : roDelete[d].candidate # c
    /\ roCandidates' = roCandidates \cup {c}
    /\ UNCHANGED <<roOpen, roVote, roPay, roTaken, roLapsed, roAsk, roDelete, roExcused>>

-----------------------------------------------------------------------------
\* A voter, or the organizer who tops up.

Ask(b, c, asking) ==
    /\ roAsk[b] = "idle" /\ roVote[b].row = "none"
    /\ roOpen /\ c \in roCandidates
    /\ roAsk' = [roAsk EXCEPT ![b] = asking]
    /\ roVote' = [roVote EXCEPT ![b].choice = c]
    /\ UNCHANGED <<roOpen, roCandidates, roPay, roTaken, roLapsed, roDelete, roExcused>>

\* castVote, initOrganizerTopup, up to the reading of the candidate.
ReadCandidate(b, c) == Ask(b, c, "choosing")
ReadForTopup(b, c)  == Ask(b, c, "topping")

\* The vote's foreign key refuses a candidate deleted meanwhile.
CastVote(b) ==
    /\ roAsk[b] \in {"choosing", "topping"}
    /\ IF roVote[b].choice \in roCandidates
          THEN /\ roVote' = [roVote EXCEPT ![b].row = "cast"]
               /\ roAsk' = [roAsk EXCEPT ![b] = IF @ = "topping" THEN "paying" ELSE "idle"]
               /\ Overtakes(b, {"listed", "deleting"})
          ELSE /\ roVote' = [roVote EXCEPT ![b] = Uncast]
               /\ roAsk' = [roAsk EXCEPT ![b] = "idle"]
               /\ UNCHANGED roExcused
    /\ UNCHANGED <<roOpen, roCandidates, roPay, roTaken, roLapsed, roDelete>>

\* initPublicPayment up to the reading of the vote.
ReadVote(b) ==
    /\ roAsk[b] = "idle"
    /\ roOpen /\ Exists(b)
    /\ roAsk' = [roAsk EXCEPT ![b] = "paying"]
    /\ UNCHANGED <<roOpen, roCandidates, roVote, roPay, roTaken, roLapsed, roDelete, roExcused>>

\* initPaymentCore: a vote has one payment at most; it is created whether or not
\* the vote is still there.
CreatePayment(b) ==
    /\ roAsk[b] = "paying"
    /\ roPay[b] = "none"
    /\ roPay' = [roPay EXCEPT ![b] = "PENDING"]
    /\ roAsk' = [roAsk EXCEPT ![b] = "idle"]
    /\ Overtakes(b, {"deleting"})
    /\ UNCHANGED <<roOpen, roCandidates, roVote, roTaken, roLapsed, roDelete>>

\* A request may stop, or be refused, at any of its steps.
RosterGivesUp(b) ==
    /\ roAsk[b] # "idle"
    /\ roAsk' = [roAsk EXCEPT ![b] = "idle"]
    /\ roVote' = IF roVote[b].row = "none" THEN [roVote EXCEPT ![b] = Uncast] ELSE roVote
    /\ UNCHANGED <<roOpen, roCandidates, roPay, roTaken, roLapsed, roDelete, roExcused>>

-----------------------------------------------------------------------------
\* The payment, as far as the vote is concerned.

\* The payer confirms; the provider keeps the money whatever the row has become.
ProviderTakes(b) ==
    /\ roPay[b] \in {"PENDING", "FAILED", "VOIDED"} /\ b \notin roTaken
    /\ roTaken' = roTaken \cup {b}
    /\ UNCHANGED <<roOpen, roCandidates, roVote, roPay, roLapsed, roAsk, roDelete, roExcused>>

\* applySuccess: the whole transaction fails when the vote's row is gone.
CountVote(b) ==
    /\ roPay[b] = "PENDING" /\ b \in roTaken
    /\ Exists(b)
    /\ roPay' = [roPay EXCEPT ![b] = "SUCCEEDED"]
    /\ roVote' = [roVote EXCEPT ![b].row = "paid"]
    /\ Overtakes(b, {"unpaid", "listed", "deleting"})
    /\ UNCHANGED <<roOpen, roCandidates, roTaken, roLapsed, roAsk, roDelete>>

\* The sweep gives the payment up, or the provider refused it.
EndPayment(b) ==
    /\ roPay[b] = "PENDING"
    /\ roPay' = [roPay EXCEPT ![b] = "FAILED"]
    /\ \/ roLapsed' = roLapsed \cup {b}
       \/ b \notin roTaken /\ UNCHANGED roLapsed
    /\ UNCHANGED <<roOpen, roCandidates, roVote, roTaken, roAsk, roDelete, roExcused>>

\* recoverLateSuccess locks the payment and looks at the contest, not at the vote ...
RecoverPayment(b) ==
    /\ roPay[b] = "FAILED" /\ b \in roLapsed /\ b \in roTaken
    /\ roOpen
    /\ roPay' = [roPay EXCEPT ![b] = "held"]
    /\ UNCHANGED <<roOpen, roCandidates, roVote, roTaken, roLapsed, roAsk, roDelete, roExcused>>

\* ... then commits, even if the contest has been closed meanwhile, or is rolled back.
ReopenPayment(b) ==
    /\ roPay[b] = "held"
    /\ roPay' = [roPay EXCEPT ![b] = "PENDING"]
    /\ Overtakes(b, {"deleting"})
    /\ UNCHANGED <<roOpen, roCandidates, roVote, roTaken, roLapsed, roAsk, roDelete>>

RecoveryAborts(b) ==
    /\ roPay[b] = "held"
    /\ roPay' = [roPay EXCEPT ![b] = "FAILED"]
    /\ UNCHANGED <<roOpen, roCandidates, roVote, roTaken, roLapsed, roAsk, roDelete, roExcused>>

\* voidVote, in one step: the vote leaves the ranking, its payment is reversed.
VoidBallot(b) ==
    /\ Exists(b) /\ ~roVote[b].cancelled
    /\ roVote' = [roVote EXCEPT ![b].cancelled = TRUE]
    /\ roPay' = [roPay EXCEPT ![b] = IF @ \in {"PENDING", "SUCCEEDED"} THEN "VOIDED" ELSE @]
    /\ UNCHANGED <<roOpen, roCandidates, roTaken, roLapsed, roAsk, roDelete, roExcused>>

-----------------------------------------------------------------------------
\* deleteCandidate.

DeleteStep(d, from, to, condition) ==
    /\ roDelete[d].at = from
    /\ roDelete' = [roDelete EXCEPT ![d] = IF condition THEN [@ EXCEPT !.at = to] ELSE NoDelete]
    /\ UNCHANGED <<roOpen, roCandidates, roVote, roPay, roTaken, roLapsed, roAsk, roExcused>>

ReadForDeletion(d, c) ==
    /\ roDelete[d].at = "idle"
    /\ roOpen /\ c \in roCandidates
    /\ roDelete' = [roDelete EXCEPT ![d] = [NoDelete EXCEPT !.at = "reading", !.candidate = c]]
    /\ UNCHANGED <<roOpen, roCandidates, roVote, roPay, roTaken, roLapsed, roAsk, roExcused>>

PaidVotes(c) == {b \in VotesOf(c) : roVote[b].row = "paid" /\ ~roVote[b].cancelled}

CountPaidVotes(d) ==
    DeleteStep(d, "reading", "unpaid", PaidVotes(roDelete[d].candidate) = {})

ListVotes(d) ==
    /\ roDelete[d].at = "unpaid"
    /\ roDelete' = [roDelete EXCEPT ![d].at = "listed", ![d].votes = VotesOf(roDelete[d].candidate)]
    /\ UNCHANGED <<roOpen, roCandidates, roVote, roPay, roTaken, roLapsed, roAsk, roExcused>>

\* Mutant: a payment that the provider has not confirmed yet does not stand in the way.
CountPendingPayments_Unconfirmed(d) ==
    DeleteStep(d, "listed", "deleting", \A b \in roDelete[d].votes : roPay[b] # "PENDING" \/ b \notin roTaken)

CountPendingPayments(d) ==
    DeleteStep(d, "listed", "deleting", \A b \in roDelete[d].votes : roPay[b] # "PENDING")

\* The deletion takes the votes with it (onDelete: Cascade), or finds no row and fails.
DeleteCandidate(d) ==
    LET c == roDelete[d].candidate IN
    /\ roDelete[d].at = "deleting"
    /\ roCandidates' = roCandidates \ {c}
    /\ roVote' = [b \in Ballots |-> IF b \in VotesOf(c) THEN [roVote[b] EXCEPT !.row = "gone"]
                                    ELSE roVote[b]]
    /\ roDelete' = [roDelete EXCEPT ![d] = NoDelete]
    /\ UNCHANGED <<roOpen, roPay, roTaken, roLapsed, roAsk, roExcused>>

DeletionStops(d) == roDelete[d].at # "idle" /\ DeleteStep(d, roDelete[d].at, "idle", FALSE)

\* computeResults: the votes that the ranking counts for a candidate.
Ranked(c) == {b \in VotesOf(c) : c \in roCandidates /\ roVote[b].row = "paid" /\ ~roVote[b].cancelled}

RosterNext ==
    \/ CloseContest
    \/ \E c \in Candidates : CreateCandidate(c)
    \/ \E b \in Ballots :
        \/ \E c \in Candidates : ReadCandidate(b, c) \/ ReadForTopup(b, c)
        \/ CastVote(b) \/ ReadVote(b) \/ CreatePayment(b) \/ RosterGivesUp(b)
        \/ ProviderTakes(b) \/ CountVote(b) \/ EndPayment(b) \/ VoidBallot(b)
        \/ RecoverPayment(b) \/ ReopenPayment(b) \/ RecoveryAborts(b)
    \/ \E d \in Deletions :
        \/ \E c \in Candidates : ReadForDeletion(d, c)
        \/ CountPaidVotes(d) \/ ListVotes(d) \/ CountPendingPayments(d) \/ DeleteCandidate(d)
        \/ DeletionStops(d)

RosterSpec == RosterInit /\ [][RosterNext]_roVars

-----------------------------------------------------------------------------
RosterTypeOK ==
    /\ roOpen \in BOOLEAN /\ roCandidates \subseteq Candidates
    /\ roVote \in [Ballots -> RoVotes] /\ roPay \in [Ballots -> RoPayments]
    /\ roTaken \subseteq Ballots /\ roLapsed \subseteq Ballots /\ roExcused \subseteq Ballots
    /\ roAsk \in [Ballots -> RoAsks] /\ roDelete \in [Deletions -> RoDeletes]

\* The ranking counts paid votes and no others; a payment under way still has its
\* vote, and a successful one is in the ranking, whatever candidates are deleted:
\* the deletion counts paid votes, lists the votes and counts pending payments in
\* separate statements (events.service.ts: the voter's money would be taken with
\* no vote to count). The last two leave out the ballots that moved between these
\* statements, and payments given up by a timeout that come back after the
\* deletion, which do break them; a cancelled vote does not count anyway.
MoneyKeepsItsVote ==
    \A b \in Ballots :
        /\ b \in Ranked(roVote[b].choice) => roPay[b] = "SUCCEEDED"
        /\ b \notin roExcused /\ ~roVote[b].cancelled =>
              /\ roPay[b] = "PENDING" => Exists(b)
              /\ roPay[b] = "SUCCEEDED" => b \in Ranked(roVote[b].choice)
=============================================================================
