------------------------------ MODULE MCWallet ------------------------------
(* Small instances of Wallet for TLC. *)
EXTENDS Wallet, TLC

CONSTANTS e1, e2, p1, p2, w1, w2, a1, a2, r1, r2

\* An odd net: its half is rounded.
EachOwnEvent == (p1 :> e1) @@ (p2 :> e2)
OneEvent     == [p \in Pays |-> e1]
OddNets      == [p \in Pays |-> 3]
\* Administrators are interchangeable.
Symmetry     == Permutations(Admins) \cup Permutations(Withdrawals)
Withdraw2    == [w \in Withdrawals |-> 2]
=============================================================================
