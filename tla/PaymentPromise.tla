--------------------------- MODULE PaymentPromise ---------------------------
(***************************************************************************)
(* What the platform promises about payments, without requests, providers, *)
(* webhooks or sweeps.  A payment is open, then honoured (goods delivered  *)
(* and organizer credited once), dead, or lapsed: given up for lack of an  *)
(* answer in time.  Only a lapsed payment whose money did arrive may be    *)
(* opened again.  Open and honoured ticket payments hold a seat, and there *)
(* are never more of them than seats.                                      *)
(***************************************************************************)
EXTENDS Naturals, FiniteSets

CONSTANTS Pays,     \* the payments
          Tickets,  \* those that buy a seat
          Stock     \* seats on sale

VARIABLES life,     \* [Pays -> Lives]
          money,    \* the payments whose money the provider holds
          credit    \* [Pays -> Nat]: credits of the organizer's wallet

vars  == <<life, money, credit>>
Lives == {"none", "open", "honoured", "lapsed", "dead"}

Seated(l) == {t \in Tickets : l[t] \in {"open", "honoured"}}
Fits(l)   == Cardinality(Seated(l)) <= Stock

Init ==
    /\ life = [t \in Pays |-> "none"]
    /\ money = {}
    /\ credit = [t \in Pays |-> 0]

\* A new payment, which may take the place of open ones (given up).
Open(t, given) ==
    /\ life[t] = "none"
    /\ \A u \in given : life[u] = "open"
    /\ life' = [u \in Pays |-> IF u = t THEN "open"
                               ELSE IF u \in given THEN "lapsed" ELSE life[u]]
    /\ t \in Tickets => Fits(life')
    /\ UNCHANGED <<money, credit>>

MoneyArrives(t) ==
    /\ money' = money \cup {t}
    /\ UNCHANGED <<life, credit>>

Honour(t) ==
    /\ life[t] = "open"
    /\ t \in money
    /\ life' = [life EXCEPT ![t] = "honoured"]
    /\ credit' = [credit EXCEPT ![t] = @ + 1]
    /\ UNCHANGED money

GiveUp(t) ==
    /\ life[t] = "open"
    /\ life' \in {[life EXCEPT ![t] = l] : l \in {"lapsed", "dead"}}
    /\ UNCHANGED <<money, credit>>

Reopen(t) ==
    /\ life[t] = "lapsed"
    /\ t \in money
    /\ life' = [life EXCEPT ![t] = "open"]
    /\ t \in Tickets => Fits(life')
    /\ UNCHANGED <<money, credit>>

Next ==
    \E t \in Pays :
        \/ \E given \in SUBSET (Pays \ {t}) : Open(t, given)
        \/ MoneyArrives(t) \/ Honour(t) \/ GiveUp(t) \/ Reopen(t)

Spec == Init /\ [][Next]_vars
=============================================================================
