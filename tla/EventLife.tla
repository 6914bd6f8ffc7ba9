----------------------------- MODULE EventLife -----------------------------
(***************************************************************************)
(* What the platform promises about a contest: it goes on line by the      *)
(* signature of one contract and in no other way, never comes back to      *)
(* draft, is archived only from draft or once closed, disappears only if   *)
(* nothing was signed for it, and once a contract is signed the commission *)
(* charged is the one written in it (the head of event-lifecycle.ts, and   *)
(* ContractsService.sign). Publication implements it.                      *)
(*                                                                         *)
(* Nothing is promised any more of a contest that was overtaken: one that  *)
(* a request wrote in another status than the one it had read.             *)
(***************************************************************************)
CONSTANTS Offers,       \* the contracts that may be signed
          RateOf(_),    \* the commission written in a contract
          Rates

VARIABLES status, signed, charged, overtaken

lifeVars == <<status, signed, charged, overtaken>>

LifeInit ==
    /\ status = "DRAFT" /\ signed = {} /\ charged \in Rates
    /\ overtaken = FALSE

\* Whatever sets the commission before a contract is signed.
Negotiate ==
    /\ signed = {}
    /\ charged' \in Rates
    /\ UNCHANGED <<status, signed>>

Publish ==
    /\ status = "DRAFT" /\ signed = {}
    /\ \E c \in Offers : signed' = {c} /\ charged' = RateOf(c)
    /\ status' = "ACTIVE"

Close ==
    /\ status = "ACTIVE" /\ status' = "CLOSED"
    /\ UNCHANGED <<signed, charged>>

Archive ==
    /\ status \in {"DRAFT", "CLOSED"} /\ status' = "ARCHIVED"
    /\ UNCHANGED <<signed, charged>>

Delete ==
    /\ status \in {"DRAFT", "ARCHIVED"} /\ signed = {}
    /\ status' = "deleted"
    /\ UNCHANGED <<signed, charged>>

LifeNext ==
    \/ ~overtaken' /\ (Negotiate \/ Publish \/ Close \/ Archive \/ Delete)
    \/ overtaken'

LifeSpec == LifeInit /\ [][LifeNext]_lifeVars
=============================================================================
