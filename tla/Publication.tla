---------------------------- MODULE Publication ----------------------------
(***************************************************************************)
(* Publishing one contest: its draft is edited, contracts are generated    *)
(* from it, a code is sent, and the signature of a contract publishes it   *)
(* with the rates of the contract; then it is closed and archived. An      *)
(* archived contest is kept, a draft that was never published is deleted.  *)
(*                                                                         *)
(* One action is one statement or one transaction: an update reads the     *)
(* contest first and writes it afterwards, whatever it has become.         *)
(***************************************************************************)
EXTENDS Integers, FiniteSets

CONSTANTS
    PubRequests,   \* concurrent requests about the contest
    Terms,         \* what a contract says of the contest: name, dates, price of a vote
    Rates,         \* commissions
    MaxContracts,  \* bound: contracts generated
    MaxSent        \* bound: signature codes sent

ASSUME PubAssumption ==
    /\ MaxContracts \in Nat /\ MaxSent \in Nat
    /\ Terms # {} /\ Rates # {}

VARIABLES
    pubStatus,     \* Event.status, or "deleted"
    pubTerms,      \* the contest's terms
    pubRate,       \* the contest's commission (resolveCommissionBps)
    pubOwn,        \* it is Event.commissionBps; else the organizer's, or the platform's
    pubContract,   \* [Contracts -> Papers]
    pubSent,       \* how many codes were sent
    pubCode,       \* codes that have not been consumed
    pubSpent,      \* codes that a signature consumed
    pubReq,        \* [PubRequests -> PubReqs]
    pubDrifted,    \* the terms were edited while a signature was between its
                   \* reading of the contest and its transaction
    pubStale       \* a request wrote the contest in another status than it had read

ghosts  == <<pubDrifted, pubStale>>
pubVars == <<pubStatus, pubTerms, pubRate, pubOwn, pubContract, pubSent, pubCode,
             pubSpent, pubReq, ghosts>>

rates  == <<pubRate, pubOwn>>
codes  == <<pubSent, pubCode, pubSpent>>

Contracts == 1..MaxContracts
PaperStates == {"none", "PENDING", "SIGNED", "SUPERSEDED", "deleted"}
PubStates == {"DRAFT", "ACTIVE", "CLOSED", "ARCHIVED", "deleted"}

Paper(state, terms, rate) == [state |-> state, terms |-> terms, rate |-> rate]
Unread == "-"
Blank == Paper("none", Unread, Unread)
Signed == {c \in Contracts : pubContract[c].state = "SIGNED"}

\* A request: its next step, the status and the terms it has read, the contract
\* and the code it is about, and what it will write.
PubReq(step, status, terms, c, code, new) ==
    [at |-> step, status |-> status, terms |-> terms, contract |-> c, code |-> code, new |-> new]
NoPub == PubReq("idle", "DRAFT", Unread, 0, 0, "nothing")

PubAt(r, step) == pubReq[r].at = step
PubSet(r, q)   == pubReq' = [pubReq EXCEPT ![r] = q]
PubTo(r, step) == pubReq' = [pubReq EXCEPT ![r].at = step]
PubDone(r)     == PubSet(r, NoPub)

\* Steps of a signature that come after its reading of the contest.
Signing == {"signing", "comparing", "stale", "coding", "publishing"}

PubInit ==
    /\ pubStatus = "DRAFT"
    /\ pubTerms \in Terms /\ pubRate \in Rates /\ pubOwn = FALSE
    /\ pubContract = [c \in Contracts |-> Blank]
    /\ pubSent = 0 /\ pubCode = {} /\ pubSpent = {}
    /\ pubReq = [r \in PubRequests |-> NoPub]
    /\ pubDrifted = FALSE /\ pubStale = FALSE

\* A rate negotiated with the organizer, or a setting of the platform, is the
\* contest's as long as it has none of its own; it never loses the one it has.
SetBaseRate ==
    /\ ~pubOwn
    /\ pubRate' \in Rates
    /\ UNCHANGED <<pubStatus, pubTerms, pubOwn, pubContract, codes, pubReq, ghosts>>

\* generate: what is missing from a draft is not modelled, the draft is complete.
ReadDraft(r) ==
    /\ PubAt(r, "idle") /\ pubStatus = "DRAFT"
    /\ PubSet(r, [NoPub EXCEPT !.at = "drafting", !.terms = pubTerms])
    /\ UNCHANGED <<pubStatus, pubTerms, rates, pubContract, codes, ghosts>>

ReadRates(r) ==
    /\ PubAt(r, "drafting")
    /\ PubSet(r, [pubReq[r] EXCEPT !.at = "generating", !.new = pubRate])
    /\ UNCHANGED <<pubStatus, pubTerms, rates, pubContract, codes, ghosts>>

\* The transaction fails when the contest was deleted (foreign key).
Generate(r) ==
    LET q == pubReq[r]
    IN  /\ PubAt(r, "generating")
        /\ IF pubStatus = "deleted"
           THEN UNCHANGED pubContract
           ELSE \E c \in Contracts :
                   /\ pubContract[c].state = "none"
                   /\ \A b \in 1..(c - 1) : pubContract[b].state # "none"
                   /\ pubContract' = [b \in Contracts |->
                          IF b = c THEN Paper("PENDING", q.terms, q.new)
                          ELSE IF pubContract[b].state = "PENDING"
                          THEN [pubContract[b] EXCEPT !.state = "SUPERSEDED"]
                          ELSE pubContract[b]]
        /\ PubDone(r)
        /\ UNCHANGED <<pubStatus, pubTerms, rates, codes, ghosts>>

\* The new code voids the others (createAndSendOtp; OneTimeCode has its steps).
SendSignatureCode ==
    /\ \E c \in Contracts : pubContract[c].state = "PENDING"
    /\ pubSent < MaxSent
    /\ pubSent' = pubSent + 1
    /\ pubCode' = {pubSent'}
    /\ UNCHANGED <<pubStatus, pubTerms, rates, pubContract, pubSpent, pubReq, ghosts>>

\* sign: the contest, then the contract.
ReadContest(r) ==
    /\ PubAt(r, "idle") /\ pubStatus = "DRAFT"
    /\ PubSet(r, [NoPub EXCEPT !.at = "signing", !.terms = pubTerms])
    /\ UNCHANGED <<pubStatus, pubTerms, rates, pubContract, codes, ghosts>>

ReadContract(r, c) ==
    /\ PubAt(r, "signing") /\ pubContract[c].state = "PENDING"
    /\ PubSet(r, [pubReq[r] EXCEPT !.at = "comparing", !.contract = c])
    /\ UNCHANGED <<pubStatus, pubTerms, rates, pubContract, codes, ghosts>>

\* Mutant: only the commission is compared with the contract's.
CompareText_RateOnly(r) ==
    LET paper == pubContract[pubReq[r].contract]
    IN  /\ PubAt(r, "comparing")
        /\ PubSet(r, [pubReq[r] EXCEPT !.terms = Unread, !.at =
               IF paper.rate = pubRate THEN "coding" ELSE "stale"])
        /\ UNCHANGED <<pubStatus, pubTerms, rates, pubContract, codes, ghosts>>

\* The contract that would be written now: of the contest as it was read.
CompareText(r) ==
    LET paper == pubContract[pubReq[r].contract]
    IN  /\ PubAt(r, "comparing")
        /\ PubSet(r, [pubReq[r] EXCEPT !.terms = Unread, !.at =
               IF paper.terms = pubReq[r].terms /\ paper.rate = pubRate THEN "coding" ELSE "stale"])
        /\ UNCHANGED <<pubStatus, pubTerms, rates, pubContract, codes, ghosts>>

SupersedeStale(r) ==
    LET c == pubReq[r].contract
    IN  /\ PubAt(r, "stale")
        /\ pubContract' = IF pubContract[c].state = "PENDING"
                          THEN [pubContract EXCEPT ![c].state = "SUPERSEDED"] ELSE pubContract
        /\ PubDone(r)
        /\ UNCHANGED <<pubStatus, pubTerms, rates, codes, ghosts>>

CheckCode(r) ==
    /\ PubAt(r, "coding")
    /\ \E k \in pubCode : PubSet(r, [pubReq[r] EXCEPT !.at = "publishing", !.code = k])
    /\ UNCHANGED <<pubStatus, pubTerms, rates, pubContract, codes, ghosts>>

\* Mutant: the code is consumed before the transaction, which may then fail.
SignAndPublish_CodeFirst(r) ==
    LET q == pubReq[r]
        Ready == pubContract[q.contract].state = "PENDING" /\ pubStatus = "DRAFT"
    IN  /\ PubAt(r, "publishing") /\ q.code \in pubCode
        /\ pubCode' = pubCode \ {q.code}
        /\ pubSpent' = pubSpent \cup {q.code}
        /\ IF Ready
           THEN /\ pubContract' = [pubContract EXCEPT ![q.contract].state = "SIGNED"]
                /\ pubStatus' = "ACTIVE"
                /\ pubRate' = pubContract[q.contract].rate
                /\ pubOwn' = TRUE
           ELSE UNCHANGED <<pubStatus, rates, pubContract>>
        /\ PubDone(r)
        /\ UNCHANGED <<pubTerms, pubSent, ghosts>>

\* Mutant: the rates of the contract are not written into the contest.
SignAndPublish_RateKept(r) ==
    LET q == pubReq[r]
        Ready == /\ q.code \in pubCode
                 /\ pubContract[q.contract].state = "PENDING"
                 /\ pubStatus = "DRAFT"
    IN  /\ PubAt(r, "publishing")
        /\ IF Ready
           THEN /\ pubCode' = pubCode \ {q.code}
                /\ pubSpent' = pubSpent \cup {q.code}
                /\ pubContract' = [pubContract EXCEPT ![q.contract].state = "SIGNED"]
                /\ pubStatus' = "ACTIVE"
                /\ UNCHANGED rates
           ELSE UNCHANGED <<pubStatus, rates, pubContract, pubCode, pubSpent>>
        /\ PubDone(r)
        /\ UNCHANGED <<pubTerms, pubSent, ghosts>>

\* The transaction: the code, the contract and the contest, or none of them.
SignAndPublish(r) ==
    LET q == pubReq[r]
        Ready == /\ q.code \in pubCode
                 /\ pubContract[q.contract].state = "PENDING"
                 /\ pubStatus = "DRAFT"
    IN  /\ PubAt(r, "publishing")
        /\ IF Ready
           THEN /\ pubCode' = pubCode \ {q.code}
                /\ pubSpent' = pubSpent \cup {q.code}
                /\ pubContract' = [pubContract EXCEPT ![q.contract].state = "SIGNED"]
                /\ pubStatus' = "ACTIVE"
                /\ pubRate' = pubContract[q.contract].rate
                /\ pubOwn' = TRUE
           ELSE UNCHANGED <<pubStatus, rates, pubContract, pubCode, pubSpent>>
        /\ PubDone(r)
        /\ UNCHANGED <<pubTerms, pubSent, ghosts>>

\* updateEvent: the terms of a draft; a status, the one it has or ARCHIVED.
ReadUpdate(r) ==
    /\ PubAt(r, "idle") /\ pubStatus # "deleted"
    /\ \/ /\ pubStatus = "DRAFT"
          /\ \E t \in Terms : PubSet(r, PubReq("retitling", pubStatus, t, 0, 0, "nothing"))
       \/ \E s \in {pubStatus} \cup (IF pubStatus = "ACTIVE" THEN {} ELSE {"ARCHIVED"}) :
             PubSet(r, PubReq("moving", pubStatus, Unread, 0, 0, s))
    /\ UNCHANGED <<pubStatus, pubTerms, rates, pubContract, codes, ghosts>>

\* The row is updated by its id: the status is not looked at again.
WritesContest(r) ==
    /\ pubStatus # "deleted"
    /\ pubStale' = (pubStale \/ pubStatus # pubReq[r].status)
    /\ PubDone(r)

WriteTerms(r) ==
    /\ PubAt(r, "retitling")
    /\ WritesContest(r)
    /\ pubTerms' = pubReq[r].terms
    /\ pubDrifted' = (pubDrifted \/ \E s \in PubRequests : pubReq[s].at \in Signing)
    /\ UNCHANGED <<pubStatus, rates, pubContract, codes>>

WriteStatus(r) ==
    /\ PubAt(r, "moving")
    /\ WritesContest(r)
    /\ pubStatus' = pubReq[r].new
    /\ UNCHANGED <<pubTerms, rates, pubContract, codes, pubDrifted>>

\* setEventCommission.
ReadOverride(r) ==
    /\ PubAt(r, "idle") /\ pubStatus = "DRAFT"
    /\ \E b \in Rates : PubSet(r, PubReq("pricing", pubStatus, Unread, 0, 0, b))
    /\ UNCHANGED <<pubStatus, pubTerms, rates, pubContract, codes, ghosts>>

WriteOverride(r) ==
    /\ PubAt(r, "pricing")
    /\ WritesContest(r)
    /\ pubRate' = pubReq[r].new
    /\ pubOwn' = TRUE
    /\ UNCHANGED <<pubStatus, pubTerms, pubContract, codes, pubDrifted>>

\* deleteEvent: the status, then the signed contracts, then the writing.
ReadDeletion(r) ==
    /\ PubAt(r, "idle") /\ pubStatus \in {"DRAFT", "CLOSED"}
    /\ PubSet(r, PubReq("counting", pubStatus, Unread, 0, 0, "ARCHIVED"))
    /\ UNCHANGED <<pubStatus, pubTerms, rates, pubContract, codes, ghosts>>

CountSigned(r) ==
    /\ PubAt(r, "counting")
    /\ PubTo(r, IF pubReq[r].status = "CLOSED" \/ Signed # {} THEN "moving" ELSE "deleting")
    /\ UNCHANGED <<pubStatus, pubTerms, rates, pubContract, codes, ghosts>>

\* A contract signed in between keeps the contest: the foreign key rolls back.
DeleteEvent(r) ==
    /\ PubAt(r, "deleting")
    /\ IF Signed = {} /\ pubStatus # "deleted"
       THEN /\ pubStatus' = "deleted"
            /\ pubContract' = [c \in Contracts |->
                   IF pubContract[c].state = "none" THEN pubContract[c]
                   ELSE [pubContract[c] EXCEPT !.state = "deleted"]]
       ELSE UNCHANGED <<pubStatus, pubContract>>
    /\ PubDone(r)
    /\ UNCHANGED <<pubTerms, rates, codes, ghosts>>

CloseEvent ==
    /\ pubStatus = "ACTIVE"
    /\ pubStatus' = "CLOSED"
    /\ UNCHANGED <<pubTerms, rates, pubContract, codes, pubReq, ghosts>>

\* A refusal on the way, or the end of the process.
PubStops(r) ==
    /\ ~PubAt(r, "idle")
    /\ PubDone(r)
    /\ UNCHANGED <<pubStatus, pubTerms, rates, pubContract, codes, ghosts>>

PubNext ==
    \/ SetBaseRate \/ SendSignatureCode \/ CloseEvent
    \/ \E r \in PubRequests :
          \/ ReadDraft(r) \/ ReadRates(r) \/ Generate(r)
          \/ ReadContest(r) \/ CompareText(r) \/ SupersedeStale(r) \/ CheckCode(r)
          \/ SignAndPublish(r)
          \/ ReadUpdate(r) \/ WriteTerms(r) \/ WriteStatus(r)
          \/ ReadOverride(r) \/ WriteOverride(r)
          \/ ReadDeletion(r) \/ CountSigned(r) \/ DeleteEvent(r) \/ PubStops(r)
          \/ \E c \in Contracts : ReadContract(r, c)

PubSpec == PubInit /\ [][PubNext]_pubVars

-----------------------------------------------------------------------------
PubTypeOK ==
    /\ pubStatus \in PubStates
    /\ pubTerms \in Terms /\ pubRate \in Rates /\ pubOwn \in BOOLEAN
    /\ pubContract \in [Contracts -> [state : PaperStates, terms : Terms \cup {Unread},
                                    rate : Rates \cup {Unread}]]
    /\ pubSent \in 0..MaxSent /\ pubCode \subseteq 1..MaxSent /\ pubSpent \subseteq 1..MaxSent
    /\ {pubDrifted, pubStale} \subseteq BOOLEAN

\* A code is consumed by a signature that published the contest, and by no other:
\* a signature that fails, even in its last statement, leaves the code usable
\* (« si celle-ci échoue, le code reste utilisable », ContractsService.sign).
CodeSpentBySignature == Cardinality(pubSpent) = Cardinality(Signed)

\* The name, the dates and the price of a published contest are those of its
\* signed contract, unless an edit fell between the signer's reading of the
\* contest and the transaction, or had read the draft before and was written
\* after: neither transaction looks at what it had read again.
PublishedAsSigned ==
    pubStatus \in {"ACTIVE", "CLOSED"} /\ ~pubDrifted /\ ~pubStale =>
        \A c \in Signed : pubContract[c].terms = pubTerms

\* The life of the contest is the one promised, until a request writes it in
\* another status than it read: one signature publishes it, and its rate is then
\* the contract's whatever is negotiated later.
RateOf(offer) == offer[2]
Life == INSTANCE EventLife WITH
            Offers    <- Contracts \X Rates,
            status    <- pubStatus,
            signed    <- {<<c, pubContract[c].rate>> : c \in Signed},
            charged   <- pubRate,
            overtaken <- pubStale

ImplementsEventLife == Life!LifeSpec
=============================================================================
