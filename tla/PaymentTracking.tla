-------------------------- MODULE PaymentTracking --------------------------
(***************************************************************************)
(* How the voting page follows a payment (usePublicVotePayment): the       *)
(* server's event stream first, a poll every three seconds when the stream *)
(* breaks, and the payment kept in the tab's storage so that a reload      *)
(* takes it up again.                                                      *)
(*                                                                         *)
(* The effect that tracks a payment is torn down when another payment      *)
(* begins or the language changes; its polls in flight are not cancelled,  *)
(* and the callbacks that receive them still write to the page.            *)
(***************************************************************************)
EXTENDS Integers, FiniteSets

CONSTANTS
    MaxPayments,    \* bound: payments asked for in a behaviour
    Polls,          \* bound: polls in flight at once
    MaxPollErrors,  \* MAX_POLL_ERRORS
    MaxRounds       \* maxAttempts

ASSUME TrackingAssumption ==
    /\ MaxPayments \in Nat
    /\ MaxPollErrors \in Nat \ {0}
    /\ MaxRounds \in Nat \ {0}

VARIABLES
    ptAsked,      \* payments the server created: payment n is the n-th
    ptFinals,     \* payments whose status at the server is final
    ptSubmitting, \* isSubmitting
    ptPayment,    \* paymentResult: the payment being tracked, 0 for none
    ptShown,      \* livePaymentStatus
    ptStored,     \* the payment in sessionStorage, 0 for none
    ptSaid,       \* an error is on the page
    ptFinal,      \* hasFinalStatus, of the effect that runs
    ptStream,     \* its EventSource is open
    ptTimer,      \* its interval runs
    ptRounds,     \* attempts
    ptErrors,     \* consecutiveErrors
    ptPolls,      \* [Polls -> Answers]: the polls in flight
    ptStray       \* polls were in flight when the tracking they belong to ended

ptEffect == <<ptFinal, ptStream, ptTimer, ptRounds, ptErrors>>
ptVars == <<ptAsked, ptFinals, ptSubmitting, ptPayment, ptShown, ptStored, ptSaid,
            ptEffect, ptPolls, ptStray>>

None       == 0
PtPayments == 1..MaxPayments
NothingShown == [payment |-> None, final |-> FALSE]
Shown   == [payment : PtPayments \cup {None}, final : BOOLEAN]
\* A poll: its payment, what the server answered, and whether its effect is gone.
Answers == [payment : PtPayments \cup {None}, answer : {"none", "pending", "final"}, old : BOOLEAN]
NoPoll  == [payment |-> None, answer |-> "none", old |-> FALSE]
Flying  == {q \in Polls : ptPolls[q] # NoPoll}

PtInit ==
    /\ ptAsked = 0 /\ ptFinals = {}
    /\ ptSubmitting = FALSE
    /\ ptPayment = None /\ ptShown = NothingShown /\ ptStored = None
    /\ ptSaid = FALSE
    /\ ptFinal = FALSE /\ ptStream = FALSE /\ ptTimer = FALSE
    /\ ptRounds = 0 /\ ptErrors = 0
    /\ ptPolls = [q \in Polls |-> NoPoll]
    /\ ptStray = FALSE

\* The effect begins (a stream is opened) or is torn down.
EffectBegins(open) ==
    /\ ptFinal' = FALSE /\ ptStream' = open /\ ptTimer' = FALSE
    /\ ptRounds' = 0 /\ ptErrors' = 0
EffectLeaves ==
    ptPolls' = [q \in Polls |-> IF q \in Flying THEN [ptPolls[q] EXCEPT !.old = TRUE] ELSE NoPoll]

PaymentEnds(p) ==
    /\ p <= ptAsked
    /\ ptFinals' = ptFinals \cup {p}
    /\ UNCHANGED <<ptAsked, ptSubmitting, ptPayment, ptShown, ptStored, ptSaid, ptEffect,
                   ptPolls, ptStray>>

Cleared ==
    /\ ptPayment' = None /\ ptShown' = NothingShown /\ ptStored' = None /\ ptSaid' = FALSE
    /\ EffectBegins(FALSE)
    /\ EffectLeaves
    /\ ptStray' = (Flying # {})

\* The form is there when no payment is tracked.
Submit ==
    /\ ~ptSubmitting /\ ptPayment = None
    /\ ptSubmitting' = TRUE
    /\ Cleared
    /\ UNCHANGED <<ptAsked, ptFinals>>

\* reset: the page offers it once a payment has failed (how a payment ends is
\* left out).
Retry ==
    /\ ptPayment # None /\ ptShown.final
    /\ Cleared
    /\ UNCHANGED <<ptAsked, ptFinals, ptSubmitting>>

\* Mutant: the payment is not kept for a reload.
InitAnswered_NotStored ==
    /\ ptSubmitting
    /\ ptAsked < MaxPayments
    /\ ptAsked' = ptAsked + 1
    /\ ptSubmitting' = FALSE
    /\ ptPayment' = ptAsked'
    /\ ptShown' = [payment |-> ptAsked', final |-> FALSE]
    /\ EffectBegins(TRUE)
    /\ UNCHANGED <<ptFinals, ptStored, ptSaid, ptPolls, ptStray>>

InitAnswered ==
    /\ ptSubmitting
    /\ ptAsked < MaxPayments
    /\ ptAsked' = ptAsked + 1
    /\ ptSubmitting' = FALSE
    /\ ptPayment' = ptAsked'
    /\ ptShown' = [payment |-> ptAsked', final |-> FALSE]
    /\ ptStored' = ptAsked'
    /\ EffectBegins(TRUE)
    /\ UNCHANGED <<ptFinals, ptSaid, ptPolls, ptStray>>

SubmitFails ==
    /\ ptSubmitting
    /\ ptSubmitting' = FALSE
    /\ ptSaid' = TRUE
    /\ UNCHANGED <<ptAsked, ptFinals, ptPayment, ptShown, ptStored, ptEffect, ptPolls, ptStray>>

\* The page is loaded again: its memory is lost, its polls with it.
Reload ==
    /\ ptSubmitting' = FALSE
    /\ ptPayment' = ptStored
    /\ ptShown' = NothingShown
    /\ ptSaid' = FALSE
    /\ EffectBegins(ptStored # None)
    /\ ptPolls' = [q \in Polls |-> NoPoll]
    /\ ptStray' = FALSE
    /\ UNCHANGED <<ptAsked, ptFinals, ptStored>>

\* The language is a dependency of the effect.
ChangeLanguage ==
    /\ ptPayment # None
    /\ EffectBegins(TRUE)
    /\ EffectLeaves
    /\ ptStray' = (ptStray \/ Flying # {})
    /\ UNCHANGED <<ptAsked, ptFinals, ptSubmitting, ptPayment, ptShown, ptStored, ptSaid>>

\* applyStatus: what any callback that receives a status writes to the page.
ShowStatus(p, final) ==
    /\ ptShown' = [payment |-> p, final |-> final]
    /\ ptStored' = IF final THEN None ELSE ptStored

StreamMessage ==
    /\ ptStream
    /\ ShowStatus(ptPayment, ptPayment \in ptFinals)
    /\ IF ptPayment \in ptFinals
          THEN /\ ptFinal' = TRUE /\ ptStream' = FALSE /\ ptTimer' = FALSE
               /\ ptStray' = (ptStray \/ Flying # {})
          ELSE UNCHANGED <<ptFinal, ptStream, ptTimer, ptStray>>
    /\ UNCHANGED <<ptAsked, ptFinals, ptSubmitting, ptPayment, ptSaid, ptRounds, ptErrors, ptPolls>>

\* The network, or the longest a stream may last: polls take over.
StreamBreaks ==
    /\ ptStream
    /\ ptStream' = FALSE
    /\ ptTimer' = ~ptFinal
    /\ UNCHANGED <<ptAsked, ptFinals, ptSubmitting, ptPayment, ptShown, ptStored, ptSaid,
                   ptFinal, ptRounds, ptErrors, ptPolls, ptStray>>

\* The interval's callback: a poll, and the end of the interval at its last round.
Tick(q) ==
    /\ ptTimer
    /\ q \notin Flying
    /\ ptPolls' = [ptPolls EXCEPT ![q] = [payment |-> ptPayment, answer |-> "none", old |-> FALSE]]
    /\ ptRounds' = ptRounds + 1
    /\ ptTimer' = (ptRounds' < MaxRounds)
    /\ ptSaid' = (ptSaid \/ ~ptTimer')
    /\ UNCHANGED <<ptAsked, ptFinals, ptSubmitting, ptPayment, ptShown, ptStored, ptFinal,
                   ptStream, ptErrors, ptStray>>

\* The server reads the payment; its answer is still on its way.
ServerAnswers(q) ==
    /\ q \in Flying
    /\ ptPolls[q].answer = "none"
    /\ ptPolls' = [ptPolls EXCEPT ![q].answer = IF ptPolls[q].payment \in ptFinals
                                             THEN "final" ELSE "pending"]
    /\ UNCHANGED <<ptAsked, ptFinals, ptSubmitting, ptPayment, ptShown, ptStored, ptSaid,
                   ptEffect, ptStray>>

PollArrives(q) ==
    LET poll == ptPolls[q]
        final == poll.answer = "final"
    IN  /\ poll.answer # "none"
        /\ ShowStatus(poll.payment, final)
        /\ ptPolls' = [ptPolls EXCEPT ![q] = NoPoll]
        /\ IF poll.old THEN UNCHANGED <<ptFinal, ptTimer, ptErrors>>
           ELSE /\ ptErrors' = 0
                /\ ptFinal' = (ptFinal \/ final)
                /\ ptTimer' = (ptTimer /\ ~ptFinal')
        /\ ptStray' = (ptStray \/ (final /\ Flying # {q}))
        /\ UNCHANGED <<ptAsked, ptFinals, ptSubmitting, ptPayment, ptSaid, ptStream, ptRounds>>

\* Mutant: the polls stop after too many errors without a word.
PollFails_Silent(q) ==
    /\ q \in Flying
    /\ ptPolls' = [ptPolls EXCEPT ![q] = NoPoll]
    /\ IF ptPolls[q].old THEN UNCHANGED <<ptErrors, ptTimer>>
       ELSE /\ ptErrors' = IF ptErrors < MaxPollErrors THEN ptErrors + 1 ELSE ptErrors
            /\ ptTimer' = (ptTimer /\ ptErrors' < MaxPollErrors)
    /\ UNCHANGED <<ptAsked, ptFinals, ptSubmitting, ptPayment, ptShown, ptStored, ptSaid,
                   ptFinal, ptStream, ptRounds, ptStray>>

\* Of an effect that is gone the errors are no longer counted: one may be the last.
PollFails(q) ==
    /\ q \in Flying
    /\ ptPolls' = [ptPolls EXCEPT ![q] = NoPoll]
    /\ \/ /\ ptPolls[q].old
          /\ ptSaid' \in {ptSaid, TRUE}
          /\ UNCHANGED <<ptErrors, ptTimer>>
       \/ /\ ~ptPolls[q].old
          /\ ptErrors' = IF ptErrors < MaxPollErrors THEN ptErrors + 1 ELSE ptErrors
          /\ ptTimer' = (ptTimer /\ ptErrors' < MaxPollErrors)
          /\ ptSaid' = (ptSaid \/ ptErrors' >= MaxPollErrors)
    /\ UNCHANGED <<ptAsked, ptFinals, ptSubmitting, ptPayment, ptShown, ptStored, ptFinal,
                   ptStream, ptRounds, ptStray>>

PtNext ==
    \/ \E p \in PtPayments : PaymentEnds(p)
    \/ Submit \/ Retry \/ InitAnswered \/ SubmitFails \/ Reload \/ ChangeLanguage
    \/ StreamMessage \/ StreamBreaks
    \/ \E q \in Polls : Tick(q) \/ ServerAnswers(q) \/ PollArrives(q) \/ PollFails(q)

PtSpec == PtInit /\ [][PtNext]_ptVars

-----------------------------------------------------------------------------
PtTypeOK ==
    /\ ptAsked \in 0..MaxPayments /\ ptFinals \subseteq PtPayments
    /\ {ptPayment, ptStored} \subseteq PtPayments \cup {None}
    /\ ptShown \in Shown
    /\ {ptSubmitting, ptSaid, ptFinal, ptStream, ptTimer, ptStray} \subseteq BOOLEAN
    /\ ptRounds \in 0..MaxRounds /\ ptErrors \in 0..MaxPollErrors
    /\ ptPolls \in [Polls -> Answers]

\* A payment whose end the page has not seen is followed, by the stream or by
\* the polls, or the page says that it no longer is: no break of the stream, no
\* failed poll and no last round leaves the voter waiting in silence.
NeverSilent ==
    ptPayment # None /\ ~ptFinal => ptStream \/ ptTimer \/ ptSaid

\* As long as no poll outlived the tracking it belongs to, the page shows the
\* payment it tracks, a final status stays on the page, and a payment whose end
\* was not seen is in the tab's storage, where a reload finds it.
ShownIsTracked ==
    ptPayment # None /\ ~ptStray =>
        /\ ptShown = NothingShown \/ ptShown.payment = ptPayment
        /\ ptFinal => ptShown.final
        /\ IF ptShown.final THEN ptPayment \in ptFinals ELSE ptStored = ptPayment
=============================================================================
