----------------------------- MODULE MCPayments -----------------------------
(* Small instances of Payments for TLC. *)
EXTENDS Payments, TLC

CONSTANTS p1, p2, b1, b2, h1, s1

OneBuyer      == [t \in Pays |-> b1]
OnlyTickets   == [t \in Pays |-> "TICKET"]
OnlyVotes     == [t \in Pays |-> "VOTE"]
OnlyFedapay   == [t \in Pays |-> "FEDAPAY"]
TwoProviders  == (p1 :> "FEDAPAY") @@ (p2 :> "FEEXPAY")
=============================================================================
