----------------------------- MODULE PaymentFeed -----------------------------
(***************************************************************************)
(* What the pipeline of the payments and the organizer's wallet show each  *)
(* other of a paid vote: its payment is credited once and in full when it  *)
(* succeeds, never otherwise; given up, it comes back only by a recovery   *)
(* that has found its event open, and the event may be closed before the   *)
(* recovery commits; voided, it is over.  Payments (the pipeline) and      *)
(* Wallet (what becomes of the money) both implement it, so that what each *)
(* assumes of the other is what the other does.                            *)
(***************************************************************************)
EXTENDS Naturals

CONSTANTS Pays,      \* the payments of votes
          Events,    \* the events they are for
          EventOf,   \* [Pays -> Events]
          Net        \* [Pays -> Nat]: what a payment brings to the wallet

VARIABLES pay,       \* [Pays -> {"PENDING", "FAILED", "SUCCEEDED", "VOIDED"}]
          credit,    \* [Pays -> Nat]: credited to the wallet for the payment
          over,      \* the events that are closed
          recalled   \* payments whose recovery holds the row and has not committed

vars == <<pay, credit, over, recalled>>

Init ==
    /\ pay = [p \in Pays |-> "PENDING"]
    /\ credit = [p \in Pays |-> 0]
    /\ over = {}
    /\ recalled = {}

Become(p, s) == pay' = [pay EXCEPT ![p] = s] /\ UNCHANGED over

Confirm(p) ==
    /\ pay[p] = "PENDING"
    /\ Become(p, "SUCCEEDED")
    /\ credit' = [credit EXCEPT ![p] = @ + Net[p]]
    /\ UNCHANGED recalled

GiveUp(p) ==
    /\ pay[p] = "PENDING"
    /\ Become(p, "FAILED")
    /\ UNCHANGED <<credit, recalled>>

\* A recovery locks the payment, then finds its event open ...
Recall(p) ==
    /\ pay[p] = "FAILED" /\ p \notin recalled
    /\ EventOf[p] \notin over
    /\ recalled' = recalled \cup {p}
    /\ UNCHANGED <<pay, credit, over>>

\* ... and commits, or is rolled back.
ComeBack(p) ==
    /\ pay[p] = "FAILED" /\ p \in recalled
    /\ Become(p, "PENDING")
    /\ recalled' = recalled \ {p}
    /\ UNCHANGED credit

Forget(p) ==
    /\ p \in recalled
    /\ recalled' = recalled \ {p}
    /\ UNCHANGED <<pay, credit, over>>

\* Whatever the payment has become, a void may overwrite it, once no recovery
\* holds it.
Void(p) ==
    /\ p \notin recalled
    /\ Become(p, "VOIDED")
    /\ UNCHANGED <<credit, recalled>>

Close(e) == over' = over \cup {e} /\ UNCHANGED <<pay, credit, recalled>>

Next ==
    \/ \E p \in Pays : \/ Confirm(p) \/ GiveUp(p) \/ Void(p)
                       \/ Recall(p) \/ ComeBack(p) \/ Forget(p)
    \/ \E e \in Events : Close(e)

Spec == Init /\ [][Next]_vars
=============================================================================
