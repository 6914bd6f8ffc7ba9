---------------------------- MODULE WalletPromise ----------------------------
(***************************************************************************)
(* What the platform promises an organizer about money, without requests,  *)
(* transactions, locks or events.  A payment is credited at most once, in  *)
(* full, and taken back at most once, in full.  A withdrawal is made of    *)
(* money that is free; it ends rejected, its amount given back once, or    *)
(* paid.  Money in reserve may only become free.                           *)
(***************************************************************************)
EXTENDS Integers

CONSTANTS Pays,         \* the payments
          Net,          \* [Pays -> Nat]: what each one brings in
          Withdrawals,  \* the withdrawal requests
          Amount        \* [Withdrawals -> Nat]

VARIABLES reserve,  \* the money that is held
          free,     \* the money that can be withdrawn
          entry,    \* [Pays -> Entries]
          claim     \* [Withdrawals -> Claims]

vars == <<reserve, free, entry, claim>>

Entries == {"none", "credited", "reversed"}
Claims  == {"none", "PENDING", "APPROVED", "REJECTED", "PAID"}

Init ==
    /\ reserve = 0 /\ free = 0
    /\ entry = [p \in Pays |-> "none"]
    /\ claim = [w \in Withdrawals |-> "none"]

\* Some part of the net goes to the reserve, the rest is free.
Credit(p) ==
    /\ entry[p] = "none"
    /\ entry' = [entry EXCEPT ![p] = "credited"]
    /\ \E part \in 0..Net[p] :
         /\ reserve' = reserve + part
         /\ free' = free + (Net[p] - part)
    /\ UNCHANGED claim

\* All of the net goes back, from both balances as far as they reach.
TakeBack(p) ==
    /\ entry[p] = "credited"
    /\ entry' = [entry EXCEPT ![p] = "reversed"]
    /\ \E part \in 0..Net[p] :
         /\ reserve >= part /\ reserve' = reserve - part
         /\ free >= Net[p] - part /\ free' = free - (Net[p] - part)
    /\ UNCHANGED claim

Move(w, from, to) == claim[w] = from /\ claim' = [claim EXCEPT ![w] = to]

Withdraw(w) ==
    /\ Move(w, "none", "PENDING")
    /\ free >= Amount[w]
    /\ free' = free - Amount[w]
    /\ UNCHANGED <<reserve, entry>>

Decide(w) ==
    /\ Move(w, "PENDING", "APPROVED") \/ Move(w, "APPROVED", "PAID")
    /\ UNCHANGED <<reserve, free, entry>>

Reject(w) ==
    /\ Move(w, "PENDING", "REJECTED")
    /\ free' = free + Amount[w]
    /\ UNCHANGED <<reserve, entry>>

Release ==
    /\ \E part \in 1..reserve : reserve' = reserve - part /\ free' = free + part
    /\ UNCHANGED <<entry, claim>>

Next ==
    \/ \E p \in Pays : Credit(p) \/ TakeBack(p)
    \/ \E w \in Withdrawals : Withdraw(w) \/ Decide(w) \/ Reject(w)
    \/ Release

Spec == Init /\ [][Next]_vars
=============================================================================
