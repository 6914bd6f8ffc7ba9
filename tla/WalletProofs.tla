---------------------------- MODULE WalletProofs ----------------------------
(***************************************************************************)
(* Proofs about Wallet, for any events, payments, withdrawals, amounts,    *)
(* administrators and executions of the job.  The inductive invariant adds *)
(* to the properties what an administrator's request and an execution of   *)
(* the job know about the rows they have read.                             *)
(***************************************************************************)
EXTENDS Wallet, FiniteSetTheorems, TLAPS

DeskSteps == {"idle", "approve", "reject", "pay", "vault", "void", "debit"}
RunSteps  == {"idle", "create", "take over", "select", "scan", "release"}
Desks == [at : DeskSteps, on : Pays \cup Withdrawals \cup {"nothing"},
          seen : PayStates \cup WdStates \cup {"nothing"}, held : Nat]
RunStates == [at : RunSteps, todo : Seq(Events), amount : Nat]

\* A void past its vault entry is the only one of its vote, which no one has
\* cancelled; what was read SUCCEEDED has succeeded, so that no recovery holds it.
DeskFine(d) ==
    /\ d \in Desks
    /\ d.at \in {"approve", "reject", "pay"} => d.on \in Withdrawals
    /\ d.at \in {"vault", "void", "debit"} => d.on \in Pays
    /\ d.at \in {"void", "debit"} => d.on \in vaulted /\ d.on \notin cancelled
    /\ d.at \in {"vault", "void", "debit"} /\ d.seen = "SUCCEEDED"
         => pay[d.on] \in {"SUCCEEDED", "VOIDED"}
    /\ d.at = "debit" => d.seen = "SUCCEEDED"

Voiding(a) == desk[a].at \in {"void", "debit"}

DeskInv ==
    /\ desk \in [Admins -> Desks]
    /\ \A a \in Admins : DeskFine(desk[a])
    /\ \A a, b \in Admins :
         a # b /\ Voiding(a) /\ Voiding(b) => desk[a].on # desk[b].on

\* What only the rows of votes and payments decide; a voided payment's vote is
\* out of the ranking, and was put into the vault; the row that a recovery holds
\* stays FAILED.
VoteInv ==
    /\ pay \in [Pays -> PayStates]
    /\ reopening \subseteq Pays /\ cancelled \subseteq Pays /\ vaulted \subseteq Pays
    /\ \A p \in reopening : pay[p] = "FAILED"
    /\ credited \in [Pays -> Nat] /\ reversed \in [Pays -> Nat]
    /\ CreditMatchesPayment
    /\ cancelled \subseteq vaulted
    /\ \A p \in Pays : pay[p] = "VOIDED" => p \in cancelled

EventInv   == closed \in Seq(Events) /\ matured \in 0..Len(closed)
ReserveInv == allocated \in [Events -> Nat] /\ released \in [Events -> Nat]
BalanceInv == held \in Nat /\ avail \in Nat
WdInv      == wd \in [Withdrawals -> WdStates]
LockType   == lock \in [by : Runs \cup {"nobody"}, stale : BOOLEAN]

RunInv ==
    /\ run \in [Runs -> RunStates]
    /\ \A r \in Runs : run[r].at = "release" => run[r].todo # <<>>

IInv ==
    /\ EventInv /\ VoteInv /\ ReserveInv /\ BalanceInv /\ WdInv
    /\ LockType /\ DeskInv /\ RunInv

-----------------------------------------------------------------------------
(* Sums over a finite set. The induction is on the subsets of the set, for a *)
(* set of them that have the property: it needs no induction over a formula.  *)

\* The element that a sum over a set adds first, and the equation of its loop.
Pick(s) == CHOOSE x \in s : TRUE
Adds(g, f, S) ==
    g = [s \in SUBSET S |-> IF s = {} THEN 0 ELSE f[Pick(s)] + g[s \ {Pick(s)}]]
Loop(f, S) == CHOOSE g : Adds(g, f, S)

\* Total is the last value of a loop that adds one element after the other.
LEMMA TotalIsLoop == \A f, S : Total(f, S) = Loop(f, S)[S]
BY DEF Total, Loop, Adds, Pick, MapThenSumSet, MapThenFoldSet

LEMMA Picks == \A s : s # {} => Pick(s) \in s
BY DEF Pick

\* Induction over a finite set, for the set G of its subsets that have some
\* property: a minimal subset outside G would be in G.
LEMMA SubsetInduction ==
    ASSUME NEW S, IsFiniteSet(S), NEW G,
           \A T \in SUBSET S :
              IsFiniteSet(T) /\ (\A U \in SUBSET T : U # T => U \in G) => T \in G
    PROVE  S \in G
<1> DEFINE B == {T \in SUBSET S : T \notin G}
<1>1. SUFFICES ASSUME B # {} PROVE FALSE
  <2>1. S \in SUBSET S
    OBVIOUS
  <2> QED BY <2>1
<1>2. B \subseteq SUBSET S /\ \A T \in SUBSET S : T \in B <=> T \notin G
  OBVIOUS
<1> HIDE DEF B
<1>3. IsWellFoundedOn(StrictSubsetOrdering(S), SUBSET S)
  BY FS_FiniteSubsetsOfFinite, FS_StrictSubsetOrderingWellFounded, Zenon
<1>4. PICK T \in B : \A U \in B : <<U, T>> \notin StrictSubsetOrdering(S)
  BY <1>1, <1>2, <1>3, WFMin, Zenon
<1>5. T \in SUBSET S /\ T \notin G /\ IsFiniteSet(T)
  BY <1>2, <1>4, FS_Subset
<1>6. \A U \in SUBSET T : U # T => U \in G
  BY <1>2, <1>4, <1>5 DEF StrictSubsetOrdering
<1> QED BY <1>5, <1>6

\* Two such loops agree on the sets that both reach.
LEMMA LoopsAgree ==
    ASSUME NEW f, NEW S, IsFiniteSet(S), NEW V \in SUBSET S,
           NEW g, Adds(g, f, S), NEW h, Adds(h, f, V)
    PROVE  g[V] = h[V]
<1> DEFINE G == {s \in SUBSET V : g[s] = h[s]}
<1>1. ASSUME NEW T \in SUBSET V, \A U \in SUBSET T : U # T => U \in G
      PROVE  g[T] = h[T]
  <2>1. CASE T = {}
    BY <2>1 DEF Adds
  <2>2. CASE T # {}
    <3>1. g[T \ {Pick(T)}] = h[T \ {Pick(T)}]
      BY <1>1, <2>2, Picks
    <3>2. g[T] = f[Pick(T)] + g[T \ {Pick(T)}] /\ h[T] = f[Pick(T)] + h[T \ {Pick(T)}]
      BY <1>1, <2>2 DEF Adds
    <3> QED BY <3>1, <3>2
  <2> QED BY <2>1, <2>2
<1>2. \A T \in SUBSET V : (\A U \in SUBSET T : U # T => U \in G) => T \in G
  BY <1>1
<1>3. IsFiniteSet(V) /\ (V \in G => g[V] = h[V])
  BY FS_Subset
<1> HIDE DEF G
<1> QED BY <1>2, <1>3, SubsetInduction

\* The loop is well defined on every finite set.
LEMMA LoopAdds ==
    ASSUME NEW f, NEW S, IsFiniteSet(S) PROVE Adds(Loop(f, S), f, S)
<1> DEFINE G == {s \in SUBSET S : Adds(Loop(f, s), f, s)}
<1>1. ASSUME NEW T \in SUBSET S, IsFiniteSet(T), \A U \in SUBSET T : U # T => U \in G
      PROVE  Adds(Loop(f, T), f, T)
  <2> DEFINE last(u) == Loop(f, u)[u]
             step(u) == IF u = {} THEN 0 ELSE f[Pick(u)] + last(u \ {Pick(u)})
             h == [u \in SUBSET T |-> step(u)]
  <2>1. \A U \in SUBSET T : U # T => Adds(Loop(f, U), f, U)
    BY <1>1
  <2>2. ASSUME NEW W \in SUBSET T, W # T PROVE last(W) = step(W)
    <3>1. Adds(Loop(f, W), f, W)
      BY <2>1, <2>2
    <3>2. CASE W = {}
      BY <3>1, <3>2 DEF Adds
    <3>3. CASE W # {}
      <4> DEFINE X == W \ {Pick(W)}
      <4>1. X \in SUBSET T /\ X # T /\ X \in SUBSET W
        BY <2>2
      <4>2. IsFiniteSet(W) /\ Adds(Loop(f, X), f, X)
        BY <1>1, <2>1, <4>1, FS_Subset
      <4> HIDE DEF X
      <4>3. Loop(f, W)[X] = Loop(f, X)[X]
        BY <3>1, <4>1, <4>2, LoopsAgree
      <4>4. Loop(f, W)[W] = f[Pick(W)] + Loop(f, W)[X]
        BY <3>1, <3>3 DEF Adds, X
      <4> QED BY <3>3, <4>3, <4>4 DEF X
    <3> QED BY <3>2, <3>3
  <2>3. \A u \in SUBSET T : u # {} => h[u \ {Pick(u)}] = last(u \ {Pick(u)})
    <3> HIDE DEF last, step
    <3>1. \A u \in SUBSET T : u # {} => u \ {Pick(u)} \in SUBSET T /\ u \ {Pick(u)} # T
      BY Picks
    <3> QED BY <2>2, <3>1
  <2>4. \A u \in SUBSET T :
           step(u) = IF u = {} THEN 0 ELSE f[Pick(u)] + h[u \ {Pick(u)}]
    <3> HIDE DEF last, h
    <3> QED BY <2>3
  <2>5. Adds(h, f, T)
    <3> HIDE DEF step
    <3> QED BY <2>4 DEF Adds
  <2> HIDE DEF h
  <2> QED BY <2>5 DEF Loop
<1>2. \A T \in SUBSET S :
         IsFiniteSet(T) /\ (\A U \in SUBSET T : U # T => U \in G) => T \in G
  BY <1>1
<1>3. S \in G => Adds(Loop(f, S), f, S)
  OBVIOUS
<1> HIDE DEF G
<1> QED BY <1>2, <1>3, SubsetInduction

\* The sum over no element, and the sum in the order of the loop.
LEMMA TotalSteps ==
    ASSUME NEW f, NEW S, IsFiniteSet(S)
    PROVE  /\ S = {} => Total(f, S) = 0
           /\ S # {} => Total(f, S) = f[Pick(S)] + Total(f, S \ {Pick(S)})
<1> DEFINE W == S \ {Pick(S)}
<1>1. W \in SUBSET S /\ IsFiniteSet(W)
  BY FS_Subset
<1>2. Adds(Loop(f, S), f, S)
  BY LoopAdds
<1>3. /\ S = {} => Loop(f, S)[S] = 0
      /\ S # {} => Loop(f, S)[S] = f[Pick(S)] + Loop(f, S)[W]
  BY <1>2 DEF Adds
<1> HIDE DEF W
<1>4. Loop(f, S)[W] = Loop(f, W)[W]
  BY <1>1, <1>2, LoopAdds, LoopsAgree
<1> QED BY <1>3, <1>4, TotalIsLoop DEF W

\* A sum of integers is an integer.
LEMMA TotalInt ==
    ASSUME NEW S, IsFiniteSet(S), NEW f, \A x \in S : f[x] \in Int
    PROVE  Total(f, S) \in Int
<1> DEFINE G == {s \in SUBSET S : Total(f, s) \in Int}
<1>1. ASSUME NEW T \in SUBSET S, IsFiniteSet(T), \A U \in SUBSET T : U # T => U \in G
      PROVE  Total(f, T) \in Int
  <2>1. CASE T = {}
    <3>1. Total(f, T) = 0
      BY <1>1, <2>1, TotalSteps
    <3> QED BY <3>1
  <2>2. CASE T # {}
    <3>1. f[Pick(T)] \in Int /\ Total(f, T \ {Pick(T)}) \in Int
      BY <1>1, <2>2, Picks
    <3>2. Total(f, T) = f[Pick(T)] + Total(f, T \ {Pick(T)})
      BY <1>1, <2>2, TotalSteps
    <3> QED BY <3>1, <3>2
  <2> QED BY <2>1, <2>2
<1>2. \A T \in SUBSET S :
         IsFiniteSet(T) /\ (\A U \in SUBSET T : U # T => U \in G) => T \in G
  BY <1>1
<1>3. S \in G => Total(f, S) \in Int
  OBVIOUS
<1> HIDE DEF G
<1> QED BY <1>2, <1>3, SubsetInduction

\* Any element may be the first to be added.
LEMMA TotalTakes ==
    ASSUME NEW S, IsFiniteSet(S), NEW f, \A x \in S : f[x] \in Int, NEW e \in S
    PROVE  Total(f, S) = f[e] + Total(f, S \ {e})
<1> DEFINE Apart(T) == \A x \in T : Total(f, T) = f[x] + Total(f, T \ {x})
           G == {s \in SUBSET S : Apart(s)}
<1>1. ASSUME NEW T \in SUBSET S, IsFiniteSet(T), \A U \in SUBSET T : U # T => U \in G,
             NEW x \in T
      PROVE  Total(f, T) = f[x] + Total(f, T \ {x})
  <2> DEFINE c == Pick(T)
             W == (T \ {x}) \ {c}
  <2>1. c \in T /\ Total(f, T) = f[c] + Total(f, T \ {c})
    BY <1>1, TotalSteps, Picks
  <2>2. CASE c = x
    BY <2>1, <2>2
  <2>3. CASE c # x
    <3>1. Apart(T \ {c}) /\ Apart(T \ {x})
      <4> HIDE DEF Apart
      <4> QED BY <1>1, <2>1
    <3>2. (T \ {c}) \ {x} = W
      OBVIOUS
    <3> HIDE DEF c
    <3>3. Total(f, T \ {c}) = f[x] + Total(f, W) /\ Total(f, T \ {x}) = f[c] + Total(f, W)
      BY <1>1, <2>1, <2>3, <3>1, <3>2
    <3>4. W \in SUBSET S /\ IsFiniteSet(W) /\ f[x] \in Int /\ f[c] \in Int
      BY <1>1, <2>1, FS_Subset
    <3>5. Total(f, W) \in Int
      BY <3>4, TotalInt
    <3> HIDE DEF W
    <3> QED BY <2>1, <3>3, <3>4, <3>5
  <2> QED BY <2>2, <2>3
<1>2. \A T \in SUBSET S :
         IsFiniteSet(T) /\ (\A U \in SUBSET T : U # T => U \in G) => T \in G
  BY <1>1
<1>3. S \in G => Apart(S)
  OBVIOUS
<1>4. S \in G
  <2> HIDE DEF G
  <2> QED BY <1>2, SubsetInduction
<1> QED BY <1>3, <1>4

\* The sum looks at the elements of the set only.
LEMMA TotalSame ==
    ASSUME NEW S, IsFiniteSet(S), NEW f, NEW g, \A x \in S : f[x] = g[x]
    PROVE  Total(f, S) = Total(g, S)
<1> DEFINE G == {s \in SUBSET S : Total(f, s) = Total(g, s)}
<1>1. ASSUME NEW T \in SUBSET S, IsFiniteSet(T), \A U \in SUBSET T : U # T => U \in G
      PROVE  Total(f, T) = Total(g, T)
  <2>1. CASE T = {}
    BY <1>1, <2>1, TotalSteps
  <2>2. CASE T # {}
    <3>1. /\ f[Pick(T)] = g[Pick(T)]
          /\ Total(f, T \ {Pick(T)}) = Total(g, T \ {Pick(T)})
      BY <1>1, <2>2, Picks
    <3>2. /\ Total(f, T) = f[Pick(T)] + Total(f, T \ {Pick(T)})
          /\ Total(g, T) = g[Pick(T)] + Total(g, T \ {Pick(T)})
      BY <1>1, <2>2, TotalSteps
    <3> QED BY <3>1, <3>2
  <2> QED BY <2>1, <2>2
<1>2. \A T \in SUBSET S :
         IsFiniteSet(T) /\ (\A U \in SUBSET T : U # T => U \in G) => T \in G
  BY <1>1
<1>3. S \in G => Total(f, S) = Total(g, S)
  OBVIOUS
<1> HIDE DEF G
<1> QED BY <1>2, <1>3, SubsetInduction

\* An amount that is added to one entry is added to the sum.
LEMMA TotalGrows ==
    ASSUME NEW S, IsFiniteSet(S), NEW f \in [S -> Int], NEW e \in S, NEW n \in Int
    PROVE  Total([f EXCEPT ![e] = @ + n], S) = Total(f, S) + n
<1> DEFINE g == [f EXCEPT ![e] = @ + n]
<1>1. g \in [S -> Int] /\ g[e] = f[e] + n /\ \A x \in S \ {e} : g[x] = f[x]
  OBVIOUS
<1> HIDE DEF g
<1>2. IsFiniteSet(S \ {e})
  BY FS_Subset
<1>3. Total(f, S) = f[e] + Total(f, S \ {e}) /\ Total(g, S) = g[e] + Total(g, S \ {e})
  BY <1>1, TotalTakes
<1>4. Total(g, S \ {e}) = Total(f, S \ {e})
  BY <1>1, <1>2, TotalSame
<1>5. Total(f, S \ {e}) \in Int
  BY <1>2, TotalInt
<1>6. Total(g, S) = Total(f, S) + n
  BY <1>1, <1>3, <1>4, <1>5
<1> QED BY <1>6 DEF g

\* A sum of zeros is zero.
LEMMA TotalZero ==
    ASSUME NEW S, IsFiniteSet(S), NEW f, \A x \in S : f[x] = 0
    PROVE  Total(f, S) = 0
<1> DEFINE G == {s \in SUBSET S : Total(f, s) = 0}
<1>1. ASSUME NEW T \in SUBSET S, IsFiniteSet(T), \A U \in SUBSET T : U # T => U \in G
      PROVE  Total(f, T) = 0
  <2>1. CASE T = {}
    BY <1>1, <2>1, TotalSteps
  <2>2. CASE T # {}
    <3>1. f[Pick(T)] = 0 /\ Total(f, T \ {Pick(T)}) = 0
      BY <1>1, <2>2, Picks
    <3>2. Total(f, T) = f[Pick(T)] + Total(f, T \ {Pick(T)})
      BY <1>1, <2>2, TotalSteps
    <3> QED BY <3>1, <3>2
  <2> QED BY <2>1, <2>2
<1>2. \A T \in SUBSET S :
         IsFiniteSet(T) /\ (\A U \in SUBSET T : U # T => U \in G) => T \in G
  BY <1>1
<1>3. S \in G => Total(f, S) = 0
  OBVIOUS
<1> HIDE DEF G
<1> QED BY <1>2, <1>3, SubsetInduction

-----------------------------------------------------------------------------
(* Lemmas: the split of a payment, and what keeps the parts of IInv.       *)

ShareOf(n, h) == (n * h) \div 10000

\* A share in 1/10000 of an amount is at most the amount.
LEMMA ShareBound ==
    \A n, h \in Nat : h <= 10000 => ShareOf(n, h) \in Nat /\ ShareOf(n, h) <= n
<1> SUFFICES ASSUME NEW n \in Nat, NEW h \in Nat, h <= 10000
             PROVE  ShareOf(n, h) \in Nat /\ ShareOf(n, h) <= n
  OBVIOUS
<1> DEFINE x == n * h
           y == n * (10000 - h)
<1>1. x \in Nat /\ y \in Nat
  OBVIOUS
<1>2. x + y = n * 10000
  OBVIOUS
<1> HIDE DEF x, y
<1>3. x \div 10000 \in Nat /\ x \div 10000 <= n
  BY <1>1, <1>2
<1> QED
  BY <1>3 DEF x, ShareOf

\* The reserve of a payment is a part of its net amount.
LEMMA SplitBound ==
    ASSUME WalletAssumption, NEW p \in Pays
    PROVE  /\ Net[p] \in Nat /\ HeldPart(p) \in Nat
           /\ HeldPart(p) <= Net[p]
<1>1. Net[p] \in Nat /\ HeldBps \in Nat /\ HeldBps <= 10000
  BY DEF WalletAssumption
<1>2. HeldPart(p) = ShareOf(Net[p], HeldBps)
  BY DEF HeldPart, ShareOf
<1>3. ShareOf(Net[p], HeldBps) \in Nat /\ ShareOf(Net[p], HeldBps) <= Net[p]
  BY <1>1, ShareBound
<1> QED
  BY <1>1, <1>2, <1>3

\* The invariant gives the checked properties.
LEMMA Parts == IInv => TypeOK /\ NeverOverdrawn /\ CreditMatchesPayment
<1> SUFFICES ASSUME IInv PROVE TypeOK /\ NeverOverdrawn /\ CreditMatchesPayment
  OBVIOUS
<1>1. NeverOverdrawn /\ held \in Int /\ avail \in Int
  BY DEF IInv, BalanceInv, NeverOverdrawn
<1>2. TypeOK
  BY <1>1 DEF IInv, EventInv, VoteInv, ReserveInv, WdInv, LockType, TypeOK
<1> QED BY <1>1, <1>2 DEF IInv, VoteInv

\* A part of the invariant stays when the variables it reads do.
LEMMA Frames ==
    ASSUME IInv
    PROVE  /\ UNCHANGED <<closed, matured>> => EventInv'
           /\ UNCHANGED votes => VoteInv'
           /\ UNCHANGED <<allocated, released>> => ReserveInv'
           /\ UNCHANGED balances => BalanceInv'
           /\ UNCHANGED wd => WdInv'
           /\ UNCHANGED lock => LockType'
           /\ UNCHANGED votes /\ UNCHANGED desk => DeskInv'
           /\ UNCHANGED run => RunInv'
<1>1. UNCHANGED <<closed, matured>> => EventInv'
  BY DEF IInv, EventInv
<1>2. UNCHANGED votes => VoteInv'
  BY DEF IInv, VoteInv, CreditMatchesPayment, votes
<1>3. UNCHANGED <<allocated, released>> => ReserveInv'
  BY DEF IInv, ReserveInv
<1>4. UNCHANGED balances => BalanceInv'
  BY DEF IInv, BalanceInv, balances
<1>5. (UNCHANGED wd => WdInv') /\ (UNCHANGED lock => LockType')
  BY DEF IInv, WdInv, LockType
<1>6. UNCHANGED votes /\ UNCHANGED desk => DeskInv'
  BY DEF IInv, DeskInv, DeskFine, Voiding, votes
<1>7. UNCHANGED run => RunInv'
  BY DEF IInv, RunInv
<1> QED BY <1>1, <1>2, <1>3, <1>4, <1>5, <1>6, <1>7

\* A request that moves without touching votes keeps DeskInv if its own next
\* state is fine and it starts no second void.
LEMMA DeskMoves ==
    ASSUME IInv, NEW a \in Admins, NEW d, DeskFine(d),
           desk' = [desk EXCEPT ![a] = d],
           d.at \in {"void", "debit"} => Voiding(a) /\ d.on = desk[a].on,
           UNCHANGED votes
    PROVE  DeskInv'
<1>1. desk' \in [Admins -> Desks]
  BY DEF IInv, DeskInv, DeskFine
<1>2. \A b \in Admins : DeskFine(desk[b])'
  BY DEF IInv, DeskInv, DeskFine, votes
<1>3. \A b, c \in Admins :
        b # c /\ Voiding(b)' /\ Voiding(c)' => desk'[b].on # desk'[c].on
  BY DEF IInv, DeskInv, Voiding
<1> QED BY <1>1, <1>2, <1>3 DEF DeskInv

\* A request that ends is fine.
LEMMA AtRestFine == DeskFine(AtRest) /\ AtRest.at = "idle"
BY DEF DeskFine, AtRest, Desk, Desks, DeskSteps

\* A request ends, whatever it wrote elsewhere.
LEMMA DeskEnds ==
    ASSUME IInv, NEW a \in Admins, desk' = [desk EXCEPT ![a] = AtRest],
           UNCHANGED votes
    PROVE  DeskInv'
<1>1. AtRest.at \notin {"void", "debit"}
  BY AtRestFine
<1> QED BY <1>1, AtRestFine, DeskMoves

\* An execution of the job moves.
LEMMA RunMoves ==
    ASSUME IInv, NEW r \in Runs, NEW s \in RunStates,
           s.at = "release" => s.todo # <<>>,
           run' = [run EXCEPT ![r] = s]
    PROVE  RunInv'
BY DEF IInv, RunInv

\* The fields of an execution's state.
LEMMA RunState ==
    ASSUME NEW step \in RunSteps, NEW todo \in Seq(Events), NEW amount \in Nat
    PROVE  /\ Run(step, todo, amount) \in RunStates
           /\ Run(step, todo, amount).at = step
           /\ Run(step, todo, amount).todo = todo
           /\ Run(step, todo, amount).amount = amount
BY DEF Run, RunStates

\* An execution that ends is fine.
LEMMA NotRunningFine == NotRunning \in RunStates /\ NotRunning.at = "idle"
BY DEF NotRunning, Run, RunStates, RunSteps

\* A payment moves among the states that no void has written: what a request
\* has seen succeed stays as it is.
LEMMA PaymentMoves ==
    ASSUME IInv, NEW p \in Pays, NEW s \in PayStates \ {"VOIDED"},
           pay[p] \in {"PENDING", "FAILED"}, pay' = [pay EXCEPT ![p] = s],
           UNCHANGED <<cancelled, vaulted, desk>>
    PROVE  DeskInv'
<1>1. \A q \in Pays : pay[q] \in {"SUCCEEDED", "VOIDED"} => pay'[q] = pay[q]
  BY DEF IInv, VoteInv
<1>2. \A a \in Admins : DeskFine(desk[a])'
  BY <1>1 DEF IInv, DeskInv, DeskFine
<1> QED BY <1>2 DEF IInv, DeskInv, Voiding

-----------------------------------------------------------------------------
(* Payments and events.                                                    *)

\* A confirmed payment, credited from zero, splits into reserve and disposable.
LEMMA Applies == ASSUME IInv, NEW p \in Pays, ApplyPayment(p) PROVE IInv'
<1>1. /\ pay[p] = "PENDING" /\ pay' = [pay EXCEPT ![p] = "SUCCEEDED"]
      /\ UNCHANGED <<closed, matured, reopening, cancelled, vaulted, reversed,
                     released, wd, desk, lock, run>>
      /\ held' = held + HeldPart(p) /\ avail' = avail + (Net[p] - HeldPart(p))
      /\ credited' = [credited EXCEPT ![p] = @ + Net[p]]
      /\ allocated' = [allocated EXCEPT ![EventOf[p]] = @ + HeldPart(p)]
  BY DEF ApplyPayment, CreditSplit
<1>2. Net[p] \in Nat /\ HeldPart(p) \in Nat /\ HeldPart(p) <= Net[p]
  BY SplitBound, WalletAssumption
<1>3. VoteInv'
  <2>1. credited[p] = 0 /\ reversed[p] = 0
    BY <1>1 DEF IInv, VoteInv, CreditMatchesPayment
  <2> credited[p] + Net[p] = Net[p]
    BY <1>2, <2>1
  <2>2. credited' = [credited EXCEPT ![p] = Net[p]]
    BY <1>1
  <2>3. CreditMatchesPayment'
    BY <1>1, <2>1, <2>2 DEF IInv, VoteInv, CreditMatchesPayment
  <2> QED
    BY <1>1, <1>2, <2>2, <2>3 DEF IInv, VoteInv, PayStates
<1>4. ReserveInv'
  <2>1. EventOf[p] \in Events
    BY WalletAssumption DEF WalletAssumption
  <2>2. allocated[EventOf[p]] + HeldPart(p) \in Nat
    BY <1>2, <2>1 DEF IInv, ReserveInv
  <2> QED
    BY <1>1, <2>1, <2>2 DEF IInv, ReserveInv
<1>5. BalanceInv'
  BY <1>1, <1>2 DEF IInv, BalanceInv
<1>6. DeskInv'
  BY <1>1, PaymentMoves DEF PayStates
<1> QED
  BY <1>1, <1>3, <1>4, <1>5, <1>6, Frames DEF IInv

\* A recovery takes the row, or leaves it as it is: RecoverPayment, RecoveryAborts.
LEMMA RowTaken ==
    ASSUME IInv, NEW p \in Pays, RecoverPayment(p) \/ RecoveryAborts(p)
    PROVE  IInv'
<1>1. /\ UNCHANGED <<pay, cancelled, vaulted, credited, reversed, closed, matured,
                     allocated, released, wd, desk, lock, run>>
      /\ UNCHANGED balances
  BY DEF RecoverPayment, RecoveryAborts, reserves
<1>2. reopening' \subseteq Pays /\ \A q \in reopening' : pay[q] = "FAILED"
  BY DEF RecoverPayment, RecoveryAborts, IInv, VoteInv
<1>3. VoteInv'
  BY <1>1, <1>2 DEF IInv, VoteInv, CreditMatchesPayment
<1>4. DeskInv'
  BY <1>1 DEF IInv, DeskInv, DeskFine, Voiding
<1> QED BY <1>1, <1>3, <1>4, Frames DEF IInv

\* AbandonPayment and ReopenPayment.
LEMMA LateMoves ==
    ASSUME IInv, NEW p \in Pays, AbandonPayment(p) \/ ReopenPayment(p)
    PROVE  IInv'
<1>1. /\ pay[p] \in {"PENDING", "FAILED"}
      /\ \/ reopening' = reopening /\ pay[p] = "PENDING"
         \/ reopening' = reopening \ {p}
      /\ \E s \in {"PENDING", "FAILED"} : pay' = [pay EXCEPT ![p] = s]
      /\ UNCHANGED <<cancelled, vaulted, credited, reversed, closed, matured,
                     allocated, released, wd, desk, lock, run>>
      /\ UNCHANGED balances
  BY DEF AbandonPayment, ReopenPayment, reserves, IInv, VoteInv
<1>2. PICK s \in {"PENDING", "FAILED"} : pay' = [pay EXCEPT ![p] = s]
  BY <1>1
<1>3. VoteInv'
  BY <1>1, <1>2 DEF IInv, VoteInv, CreditMatchesPayment, PayStates
<1>4. DeskInv'
  BY <1>1, <1>2, PaymentMoves DEF PayStates
<1> QED
  BY <1>1, <1>3, <1>4, Frames DEF IInv

\* CloseEvent and Mature.
LEMMA EventMoves ==
    ASSUME IInv, (\E e \in Events : CloseEvent(e)) \/ Mature
    PROVE  IInv'
<1>1. EventInv'
  <2>1. CASE Mature
    BY <2>1 DEF Mature, IInv, EventInv
  <2>2. ASSUME NEW e \in Events, CloseEvent(e) PROVE EventInv'
    <3>1. closed' \in Seq(Events) /\ Len(closed') = Len(closed) + 1
      BY <2>2 DEF CloseEvent, IInv, EventInv
    <3> QED BY <2>2, <3>1 DEF CloseEvent, IInv, EventInv
  <2> QED BY <2>1, <2>2
<1>2. /\ UNCHANGED <<allocated, released, wd, desk, lock, run>>
      /\ UNCHANGED votes /\ UNCHANGED balances
  BY DEF CloseEvent, Mature
<1> QED BY <1>1, <1>2, Frames DEF IInv

\* The lock's TTL passes.
LEMMA Expires == ASSUME IInv, LockExpires PROVE IInv'
<1>1. LockType'
  BY DEF LockExpires, IInv, LockType
<1>2. /\ UNCHANGED <<closed, matured, allocated, released, wd, desk, run>>
      /\ UNCHANGED votes /\ UNCHANGED balances
  BY DEF LockExpires, reserves
<1> QED BY <1>1, <1>2, Frames DEF IInv

-----------------------------------------------------------------------------
(* Withdrawals.                                                            *)

\* CheckWithdrawal and DebitWithdrawal: only the conditional debit counts.
LEMMA WithdrawalMoves ==
    ASSUME IInv, NEW w \in Withdrawals, CheckWithdrawal(w) \/ DebitWithdrawal(w)
    PROVE  IInv'
<1>1. Amount[w] \in Nat
  BY WalletAssumption DEF WalletAssumption
<1>2. BalanceInv'
  BY <1>1 DEF CheckWithdrawal, DebitWithdrawal, IInv, BalanceInv, balances
<1>3. WdInv'
  BY DEF CheckWithdrawal, DebitWithdrawal, IInv, WdInv, WdStates
<1>4. /\ UNCHANGED <<closed, matured, allocated, released, desk, lock, run>>
      /\ UNCHANGED votes
  BY DEF CheckWithdrawal, DebitWithdrawal, reserves
<1> QED BY <1>2, <1>3, <1>4, Frames DEF IInv

\* An administrator opens a withdrawal that exists.
LEMMA RequestOpens ==
    ASSUME IInv, NEW a \in Admins, NEW w \in Withdrawals,
           NEW step \in {"approve", "reject", "pay"}, OpenRequest(a, w, step)
    PROVE  IInv'
<1> DEFINE d == Desk(step, w, wd[w], 0)
<1>1. DeskFine(d) /\ d.at \notin {"void", "debit"}
  BY DEF DeskFine, Desk, Desks, DeskSteps, IInv, WdInv
<1>2. desk' = [desk EXCEPT ![a] = d] /\ UNCHANGED votes
  BY DEF OpenRequest
<1> HIDE DEF d
<1>3. DeskInv'
  BY <1>1, <1>2, DeskMoves
<1>4. /\ UNCHANGED <<closed, matured, allocated, released, wd, lock, run>>
      /\ UNCHANGED votes /\ UNCHANGED balances
  BY DEF OpenRequest, reserves
<1> QED BY <1>3, <1>4, Frames DEF IInv

\* Transition and Reject: a request is claimed, and a rejected amount returns.
LEMMA RequestEnds ==
    ASSUME IInv, NEW a \in Admins, Transition(a) \/ Reject(a)
    PROVE  IInv'
<1>1. desk[a].on \in Withdrawals
  BY DEF Transition, Reject, IInv, DeskInv, DeskFine
<1>2. Amount[desk[a].on] \in Nat
  BY <1>1, WalletAssumption DEF WalletAssumption
<1>3. /\ desk' = [desk EXCEPT ![a] = AtRest]
      /\ UNCHANGED <<closed, matured, allocated, released, lock, run>>
      /\ UNCHANGED votes
  BY DEF Transition, Reject, reserves
<1>4. BalanceInv'
  BY <1>1, <1>2 DEF Transition, Reject, IInv, BalanceInv, balances
<1>5. WdInv'
  BY <1>1 DEF Transition, Reject, IInv, WdInv, WdStates
<1>6. DeskInv'
  BY <1>3, DeskEnds
<1> QED BY <1>3, <1>4, <1>5, <1>6, Frames DEF IInv

-----------------------------------------------------------------------------
(* Voiding a vote.                                                         *)

\* A void starts: what it has seen is the payment's present status.
LEMMA VoteRead ==
    ASSUME IInv, NEW a \in Admins, NEW p \in Pays, ReadVote(a, p)
    PROVE  IInv'
<1> DEFINE d == Desk("vault", p, pay[p], 0)
<1>1. DeskFine(d) /\ d.at \notin {"void", "debit"}
  BY DEF DeskFine, Desk, Desks, DeskSteps, IInv, VoteInv
<1>2. desk' = [desk EXCEPT ![a] = d] /\ UNCHANGED votes
  BY DEF ReadVote
<1> HIDE DEF d
<1>3. DeskInv'
  BY <1>1, <1>2, DeskMoves
<1>4. /\ UNCHANGED <<closed, matured, allocated, released, wd, lock, run>>
      /\ UNCHANGED votes /\ UNCHANGED balances
  BY DEF ReadVote, reserves
<1> QED BY <1>3, <1>4, Frames DEF IInv

\* The unique vault entry makes this void the only one of its vote.
LEMMA Vaults == ASSUME IInv, NEW a \in Admins, VaultVote(a) PROVE IInv'
<1> DEFINE p == desk[a].on
           d == Desk("void", p, desk[a].seen, 0)
<1>1. /\ desk[a].at = "vault" /\ vaulted' = vaulted \cup {p}
      /\ desk' = [desk EXCEPT ![a] = IF p \in vaulted THEN AtRest ELSE d]
      /\ UNCHANGED <<pay, reopening, cancelled, credited, reversed, closed, matured,
                     allocated, released, wd, lock, run>>
      /\ UNCHANGED balances
  BY DEF VaultVote, reserves
<1>2. p \in Pays /\ DeskFine(desk[a])
  BY <1>1 DEF IInv, DeskInv, DeskFine
<1>3. VoteInv'
  BY <1>1, <1>2 DEF IInv, VoteInv, CreditMatchesPayment
<1>4. \A b \in Admins : DeskFine(desk[b])'
  <2>1. p \notin vaulted => d \in Desks /\ d.at = "void" /\ d.on = p
                           /\ d.seen = desk[a].seen
    BY <1>2 DEF Desk, Desks, DeskFine, DeskSteps
  <2>2. p \notin vaulted => p \notin cancelled
    BY DEF IInv, VoteInv
  <2> HIDE DEF d
  <2>3. DeskFine(desk[a])'
    <3>1. CASE p \in vaulted
      <4>1. desk'[a] = AtRest
        BY <1>1, <3>1 DEF IInv, DeskInv
      <4> QED BY <4>1 DEF DeskFine, AtRest, Desk, Desks, DeskSteps
    <3>2. CASE p \notin vaulted
      <4>1. desk'[a] = d
        BY <1>1, <3>2 DEF IInv, DeskInv
      <4> QED BY <1>1, <1>2, <2>1, <2>2, <3>2, <4>1 DEF DeskFine
    <3> QED BY <3>1, <3>2
  <2>4. ASSUME NEW b \in Admins, b # a PROVE DeskFine(desk[b])'
    <3>1. desk'[b] = desk[b] /\ DeskFine(desk[b])
      BY <1>1, <2>4 DEF IInv, DeskInv
    <3> QED BY <1>1, <3>1 DEF DeskFine
  <2> QED BY <2>3, <2>4
<1>5. \A b, c \in Admins :
        b # c /\ Voiding(b)' /\ Voiding(c)' => desk'[b].on # desk'[c].on
  <2>1. \A b \in Admins : b # a => desk'[b] = desk[b]
    BY <1>1 DEF IInv, DeskInv
  <2>2. \A b \in Admins : Voiding(b) => desk[b].on \in vaulted
    BY DEF IInv, DeskInv, DeskFine, Voiding
  <2>3. Voiding(a)' => p \notin vaulted /\ desk'[a].on = p
    BY <1>1 DEF IInv, DeskInv, Voiding, AtRest, Desk
  <2>4. \A b, c \in Admins :
          b # c /\ Voiding(b) /\ Voiding(c) => desk[b].on # desk[c].on
    BY DEF IInv, DeskInv
  <2> HIDE DEF p, d
  <2> QED BY <2>1, <2>2, <2>3, <2>4 DEF Voiding
<1>6. desk' \in [Admins -> Desks]
  BY <1>1, <1>4 DEF IInv, DeskInv, DeskFine
<1> QED BY <1>1, <1>3, <1>4, <1>5, <1>6, Frames DEF IInv, DeskInv

\* A void computes its two debits, or finds that the money is gone.
LEMMA BalancesRead ==
    ASSUME IInv, NEW a \in Admins, ReadBalances(a)
    PROVE  IInv'
<1> DEFINE p == desk[a].on
           h == Least(held, credited[p])
           d == Desk("debit", p, "SUCCEEDED", h)
<1>1. /\ desk[a].at = "void" /\ desk[a].seen = "SUCCEEDED"
      /\ desk' = [desk EXCEPT ![a] = IF held + avail < credited[p] THEN AtRest
                                    ELSE d]
      /\ UNCHANGED votes
  BY DEF ReadBalances
<1>2. p \in Pays /\ DeskFine(desk[a])
  BY <1>1 DEF IInv, DeskInv, DeskFine
<1>3. h \in Nat
  BY <1>2 DEF IInv, BalanceInv, VoteInv, Least
<1> HIDE DEF h
<1>4. DeskFine(d) /\ d.at = "debit" /\ d.on = p
  BY <1>1, <1>2, <1>3 DEF DeskFine, Desk, Desks, DeskSteps, PayStates
<1> HIDE DEF d
<1>5. DeskInv'
  <2>1. CASE held + avail < credited[p]
    BY <1>1, <2>1, DeskEnds
  <2>2. CASE ~(held + avail < credited[p])
    <3>1. Voiding(a) /\ desk' = [desk EXCEPT ![a] = d]
      BY <1>1, <2>2 DEF Voiding
    <3> QED BY <1>1, <1>4, <3>1, DeskMoves
  <2> QED BY <2>1, <2>2
<1>6. /\ UNCHANGED <<closed, matured, allocated, released, wd, lock, run>>
      /\ UNCHANGED balances
  BY DEF ReadBalances, reserves
<1> QED BY <1>1, <1>5, <1>6, Frames DEF IInv

\* VoidUnpaid and VoidPaid, if the latter's debits pass: the one void of its
\* vote takes the vote out of the ranking.  Other requests are about other votes.
LEMMA Cancels ==
    ASSUME IInv, NEW a \in Admins, Voiding(a),
           desk' = [desk EXCEPT ![a] = AtRest],
           cancelled' = cancelled \cup {desk[a].on},
           \/ UNCHANGED pay
           \/ pay' = [pay EXCEPT ![desk[a].on] = "VOIDED"],
           UNCHANGED vaulted
    PROVE  DeskInv'
<1>1. \A b \in Admins : b # a => desk'[b] = desk[b]
  BY DEF IInv, DeskInv
<1>2. desk'[a] = AtRest
  BY DEF IInv, DeskInv
<1>3. \A b \in Admins : DeskFine(desk[b])'
  <2>1. DeskFine(desk[a])'
    BY <1>2 DEF DeskFine, AtRest, Desk, Desks, DeskSteps
  <2>2. ASSUME NEW b \in Admins, b # a PROVE DeskFine(desk[b])'
    <3>1. desk'[b] = desk[b] /\ DeskFine(desk[b])
      BY <1>1, <2>2 DEF IInv, DeskInv
    <3>2. Voiding(b) => desk[b].on # desk[a].on
      BY <2>2 DEF IInv, DeskInv
    <3>3. \A q \in Pays : pay[q] \in {"SUCCEEDED", "VOIDED"}
                            => pay'[q] \in {"SUCCEEDED", "VOIDED"}
      BY DEF IInv, VoteInv
    <3> QED BY <3>1, <3>2, <3>3 DEF DeskFine, Voiding
  <2> QED BY <2>1, <2>2
<1>4. desk' \in [Admins -> Desks]
  BY <1>3 DEF IInv, DeskInv, DeskFine
<1>5. ~Voiding(a)'
  BY <1>2, AtRestFine DEF Voiding
<1>6. \A b, c \in Admins :
        b # c /\ Voiding(b)' /\ Voiding(c)' => desk'[b].on # desk'[c].on
  BY <1>1, <1>5 DEF IInv, DeskInv, Voiding
<1> QED BY <1>3, <1>4, <1>6 DEF DeskInv

\* A vote not paid when it was read: nothing was credited back or forth.
LEMMA VoidsUnpaid == ASSUME IInv, NEW a \in Admins, VoidUnpaid(a) PROVE IInv'
<1> DEFINE p == desk[a].on
<1>1. /\ desk[a].at = "void" /\ p \notin cancelled
      /\ desk' = [desk EXCEPT ![a] = AtRest]
      /\ cancelled' = cancelled \cup {p}
      /\ \/ pay' = pay
         \/ pay' = [pay EXCEPT ![p] = "VOIDED"] /\ p \notin reopening
      /\ UNCHANGED <<reopening, vaulted, credited, reversed, closed, matured,
                     allocated, released, wd, lock, run>>
      /\ UNCHANGED balances
  BY DEF VoidUnpaid, reserves
<1>2. p \in Pays /\ p \in vaulted
  BY <1>1 DEF IInv, DeskInv, DeskFine
<1>3. VoteInv'
  BY <1>1, <1>2 DEF IInv, VoteInv, CreditMatchesPayment, PayStates
<1>4. DeskInv'
  BY <1>1, Cancels DEF Voiding
<1> QED BY <1>1, <1>3, <1>4, Frames DEF IInv

\* A paid vote: both debits pass and the credit is reversed once, or nothing.
LEMMA VoidsPaid == ASSUME IInv, NEW a \in Admins, VoidPaid(a) PROVE IInv'
<1> DEFINE p == desk[a].on
           fromHeld == desk[a].held
           fromAvail == credited[p] - fromHeld
<1>1. /\ desk[a].at = "debit" /\ desk' = [desk EXCEPT ![a] = AtRest]
      /\ UNCHANGED <<reopening, vaulted, credited, closed, matured, allocated,
                     released, wd, lock, run>>
  BY DEF VoidPaid, reserves
<1>2. /\ p \in Pays /\ p \in vaulted /\ p \notin cancelled
      /\ pay[p] \in {"SUCCEEDED", "VOIDED"} /\ fromHeld \in Nat
  BY <1>1 DEF IInv, DeskInv, DeskFine, Desks
<1>3. CASE held >= fromHeld /\ avail >= fromAvail
  <2>1. /\ cancelled' = cancelled \cup {p} /\ pay' = [pay EXCEPT ![p] = "VOIDED"]
        /\ held' = held - fromHeld /\ avail' = avail - fromAvail
        /\ reversed' = [reversed EXCEPT ![p] = @ + credited[p]]
    BY <1>3 DEF VoidPaid
  <2>2. pay[p] = "SUCCEEDED" /\ reversed[p] = 0 /\ credited[p] \in Nat
    BY <1>2 DEF IInv, VoteInv, CreditMatchesPayment
  <2>3. reversed[p] + credited[p] = credited[p]
    BY <2>2
  <2>4. reversed' = [reversed EXCEPT ![p] = credited[p]]
    BY <2>1, <2>3
  <2>5. VoteInv'
    BY <1>1, <1>2, <2>1, <2>2, <2>4
       DEF IInv, VoteInv, CreditMatchesPayment, PayStates
  <2>6. BalanceInv'
    BY <1>2, <1>3, <2>1, <2>2 DEF IInv, BalanceInv
  <2>7. DeskInv'
    BY <1>1, <2>1, Cancels DEF Voiding
  <2> QED BY <1>1, <2>5, <2>6, <2>7, Frames DEF IInv
<1>4. CASE ~(held >= fromHeld /\ avail >= fromAvail)
  <2>1. UNCHANGED votes /\ UNCHANGED balances
    BY <1>1, <1>4 DEF VoidPaid, votes, balances
  <2>2. DeskInv'
    BY <1>1, <2>1, DeskEnds
  <2> QED BY <1>1, <2>1, <2>2, Frames DEF IInv
<1> QED BY <1>3, <1>4

\* A request stops and leaves the rows as they are.
LEMMA DeskStops == ASSUME IInv, NEW a \in Admins, DeskCrash(a) PROVE IInv'
<1>1. /\ UNCHANGED <<closed, matured, allocated, released, wd, lock, run>>
      /\ UNCHANGED votes /\ UNCHANGED balances
      /\ desk' = [desk EXCEPT ![a] = AtRest]
  BY DEF DeskCrash, reserves
<1>2. DeskInv'
  BY <1>1, DeskEnds
<1> QED BY <1>1, <1>2, Frames DEF IInv

-----------------------------------------------------------------------------
(* The settlement job.                                                     *)

\* What every step of the job but the release leaves alone.
LEMMA JobFrame ==
    ASSUME IInv, RunInv', LockType',
           UNCHANGED <<closed, matured, allocated, released, wd, desk>>,
           UNCHANGED votes, UNCHANGED balances
    PROVE  IInv'
BY Frames DEF IInv

\* LookAtLock, TakeLock, FinishRun and RunCrash.
LEMMA LockMoves ==
    ASSUME IInv, NEW r \in Runs,
           LookAtLock(r) \/ TakeLock(r) \/ FinishRun(r) \/ RunCrash(r)
    PROVE  IInv'
<1>1. <<>> \in Seq(Events)
  OBVIOUS
<1>2. \A step \in {"create", "take over", "select"} :
        /\ Run(step, <<>>, 0) \in RunStates
        /\ Run(step, <<>>, 0).at = step
  BY <1>1 DEF Run, RunStates, RunSteps
<1>3. PICK s \in RunStates :
        s.at # "release" /\ run' = [run EXCEPT ![r] = s]
  <2>1. CASE LookAtLock(r)
    BY <1>2, <2>1 DEF LookAtLock
  <2>2. CASE TakeLock(r)
    BY <1>2, <2>2, NotRunningFine DEF TakeLock
  <2>3. CASE FinishRun(r) \/ RunCrash(r)
    BY <2>3, NotRunningFine DEF FinishRun, RunCrash
  <2> QED BY <2>1, <2>2, <2>3
<1>4. RunInv'
  BY <1>3, RunMoves
<1>5. LockType'
  <2>1. lock' \in {lock, NoLock, [by |-> r, stale |-> FALSE]}
    BY DEF LookAtLock, TakeLock, FinishRun, RunCrash
  <2> DEFINE Locks == [by : Runs \cup {"nobody"}, stale : BOOLEAN]
             mine  == [by |-> r, stale |-> FALSE]
  <2>2. NoLock \in Locks
    BY DEF NoLock
  <2>3. mine \in Locks
    OBVIOUS
  <2>4. lock \in Locks
    BY DEF IInv, LockType
  <2> HIDE DEF Locks, mine
  <2>5. lock' \in Locks
    BY <2>1, <2>2, <2>3, <2>4 DEF mine
  <2> QED BY <2>5 DEF LockType, Locks
<1>6. /\ UNCHANGED <<closed, matured, allocated, released, wd, desk>>
      /\ UNCHANGED votes /\ UNCHANGED balances
  BY DEF LookAtLock, TakeLock, FinishRun, RunCrash, reserves
<1> QED BY <1>4, <1>5, <1>6, JobFrame

\* The list of an execution is a prefix of the closed events.
LEMMA Selects == ASSUME IInv, NEW r \in Runs, SelectMatured(r) PROVE IInv'
<1> DEFINE list == SubSeq(closed, 1, Least(matured, Limit))
<1>1. list \in Seq(Events)
  <2>1. Least(matured, Limit) \in 0..Len(closed)
    BY WalletAssumption DEF WalletAssumption, IInv, EventInv, Least
  <2> QED BY <2>1 DEF IInv, EventInv
<1> HIDE DEF list
<1>2. Run("scan", list, 0) \in RunStates /\ Run("scan", list, 0).at = "scan"
  BY <1>1 DEF Run, RunStates, RunSteps
<1>3. run' = [run EXCEPT ![r] = Run("scan", list, 0)]
  BY DEF SelectMatured, list
<1>4. RunInv'
  BY <1>2, <1>3, RunMoves
<1>5. /\ UNCHANGED <<closed, matured, allocated, released, wd, desk, lock>>
      /\ UNCHANGED votes /\ UNCHANGED balances
  BY DEF SelectMatured, reserves
<1> QED BY <1>4, <1>5, Frames, JobFrame

\* An execution reads what is left of an event's reserve, or skips it.
LEMMA ReserveRead ==
    ASSUME IInv, NEW r \in Runs, NEW e \in Events, ReadReserve(r, e)
    PROVE  IInv'
<1> DEFINE todo == run[r].todo
           x == allocated[e] - released[e]
<1>1. todo \in Seq(Events) /\ todo # <<>>
  BY DEF ReadReserve, IInv, RunInv, RunStates
<1>2. Tail(todo) \in Seq(Events)
  BY <1>1
<1>3. allocated[e] > released[e] => x \in Nat
  BY DEF IInv, ReserveInv
<1>4. run' = [run EXCEPT ![r] = IF allocated[e] > released[e]
                                THEN Run("release", todo, x)
                                ELSE Run("scan", Tail(todo), 0)]
  BY DEF ReadReserve
<1> HIDE DEF todo, x
<1>5. RunInv'
  <2>1. CASE allocated[e] > released[e]
    <3>1. /\ Run("release", todo, x) \in RunStates
          /\ Run("release", todo, x).todo # <<>>
      BY <1>1, <1>3, <2>1, RunState DEF RunSteps
    <3> QED BY <1>4, <2>1, <3>1, RunMoves
  <2>2. CASE ~(allocated[e] > released[e])
    <3>1. /\ Run("scan", Tail(todo), 0) \in RunStates
          /\ Run("scan", Tail(todo), 0).at = "scan"
      BY <1>2 DEF Run, RunStates, RunSteps
    <3> QED BY <1>4, <2>2, <3>1, RunMoves
  <2> QED BY <2>1, <2>2
<1>6. /\ UNCHANGED <<closed, matured, allocated, released, wd, desk, lock>>
      /\ UNCHANGED votes /\ UNCHANGED balances
  BY DEF ReadReserve, reserves
<1> QED BY <1>5, <1>6, Frames, JobFrame

\* A release moves an amount between the balances only if the reserve has it.
LEMMA Releases == ASSUME IInv, NEW r \in Runs, ReleaseReserve(r) PROVE IInv'
<1> DEFINE todo == run[r].todo
           x == run[r].amount
<1>1. todo \in Seq(Events) /\ todo # <<>> /\ x \in Nat
  BY DEF ReleaseReserve, IInv, RunInv, RunStates
<1>2. Tail(todo) \in Seq(Events) /\ Head(todo) \in Events
  BY <1>1
<1>3. run' = [run EXCEPT ![r] = Run("scan", Tail(todo), 0)]
  BY DEF ReleaseReserve
<1>4. \/ /\ held >= x /\ held' = held - x /\ avail' = avail + x
         /\ released' = [released EXCEPT ![Head(todo)] = @ + x]
      \/ UNCHANGED <<held, avail, released>>
  BY DEF ReleaseReserve
<1> HIDE DEF todo, x
<1>5. RunInv'
  <2>1. /\ Run("scan", Tail(todo), 0) \in RunStates
        /\ Run("scan", Tail(todo), 0).at = "scan"
    BY <1>2 DEF Run, RunStates, RunSteps
  <2> QED BY <1>3, <2>1, RunMoves
<1>6. UNCHANGED <<closed, matured, allocated, wd, desk, lock>> /\ UNCHANGED votes
  BY DEF ReleaseReserve
<1>7. BalanceInv'
  BY <1>1, <1>4 DEF IInv, BalanceInv
<1>8. ReserveInv'
  <2>1. released[Head(todo)] + x \in Nat
    BY <1>1, <1>2 DEF IInv, ReserveInv
  <2> QED BY <1>2, <1>4, <1>6, <2>1 DEF IInv, ReserveInv
<1> QED BY <1>5, <1>6, <1>7, <1>8, Frames DEF IInv

-----------------------------------------------------------------------------
(* The invariant, and the properties it gives.                             *)

\* The initial state satisfies the invariant.
LEMMA InitInv == Init => IInv
<1> SUFFICES ASSUME Init PROVE IInv
  OBVIOUS
<1>1. EventInv /\ ReserveInv /\ BalanceInv /\ WdInv /\ LockType
  BY DEF Init, EventInv, ReserveInv, BalanceInv, WdInv, LockType, WdStates, NoLock
<1>2. VoteInv
  BY DEF Init, VoteInv, CreditMatchesPayment, PayStates
<1>3. DeskInv
  <2>1. \A a \in Admins : desk[a] = AtRest
    BY DEF Init
  <2>2. AtRest \in Desks
    BY AtRestFine DEF DeskFine
  <2>3. desk \in [Admins -> Desks]
    BY <2>2 DEF Init
  <2> QED BY <2>1, <2>3, AtRestFine DEF DeskInv, Voiding
<1>4. RunInv
  BY NotRunningFine DEF Init, RunInv
<1> QED BY <1>1, <1>2, <1>3, <1>4 DEF IInv

\* Every step keeps the invariant.
LEMMA NextInv == IInv /\ [Next]_vars => IInv'
<1> SUFFICES ASSUME IInv, [Next]_vars PROVE IInv'
  OBVIOUS
<1>1. ASSUME NEW p \in Pays,
             \/ ApplyPayment(p) \/ AbandonPayment(p) \/ RecoverPayment(p)
             \/ ReopenPayment(p) \/ RecoveryAborts(p)
      PROVE  IInv'
  BY <1>1, Applies, LateMoves, RowTaken
<1>2. CASE (\E e \in Events : CloseEvent(e)) \/ Mature \/ LockExpires
  BY <1>2, EventMoves, Expires
<1>3. ASSUME NEW w \in Withdrawals, CheckWithdrawal(w) \/ DebitWithdrawal(w)
      PROVE  IInv'
  BY <1>3, WithdrawalMoves
<1>4. ASSUME NEW a \in Admins, NEW w \in Withdrawals,
             NEW step \in {"approve", "reject", "pay"}, OpenRequest(a, w, step)
      PROVE  IInv'
  BY <1>4, RequestOpens
<1>5. ASSUME NEW a \in Admins, NEW p \in Pays, ReadVote(a, p) PROVE IInv'
  BY <1>5, VoteRead
<1>6. ASSUME NEW a \in Admins,
             \/ Transition(a) \/ Reject(a) \/ VaultVote(a) \/ VoidUnpaid(a)
             \/ ReadBalances(a) \/ VoidPaid(a) \/ DeskCrash(a)
      PROVE  IInv'
  BY <1>6, RequestEnds, Vaults, VoidsUnpaid, BalancesRead, VoidsPaid, DeskStops
<1>7. ASSUME NEW r \in Runs,
             \/ LookAtLock(r) \/ TakeLock(r) \/ SelectMatured(r)
             \/ ReleaseReserve(r) \/ FinishRun(r) \/ RunCrash(r)
      PROVE  IInv'
  BY <1>7, LockMoves, Selects, Releases
<1>8. ASSUME NEW r \in Runs, NEW e \in Events, ReadReserve(r, e) PROVE IInv'
  BY <1>8, ReserveRead
<1>9. CASE UNCHANGED vars
  BY <1>9, Frames DEF vars, votes, balances, IInv
<1> QED
  BY <1>1, <1>2, <1>3, <1>4, <1>5, <1>6, <1>7, <1>8, <1>9 DEF Next

\* The inductive invariant holds throughout.
THEOREM Invariance == Spec => []IInv
BY InitInv, NextInv, PTL DEF Spec

\* Every variable keeps the type of its column.
THEOREM TypeCorrect == Spec => []TypeOK
BY Invariance, Parts, PTL

\* Withdrawals, voids and releases never make a balance negative, whatever was
\* committed between what they read and what they write.
THEOREM NoOverdraft == Spec => []NeverOverdrawn
BY Invariance, Parts, PTL

\* A payment is credited in full and once, and reversed in full and once.
THEOREM CreditsMatch == Spec => []CreditMatchesPayment
BY Invariance, Parts, PTL

\* Two administrators cannot both move a withdrawal out of one state.
THEOREM ForwardOnly == Spec => WithdrawalsMoveForward
<1> DEFINE Forward ==
      \A w \in Withdrawals :
         wd[w] # wd'[w] =>
             <<wd[w], wd'[w]>> \in
                 {<<"none", "checked">>, <<"checked", "none">>, <<"checked", "PENDING">>,
                  <<"PENDING", "APPROVED">>, <<"PENDING", "REJECTED">>,
                  <<"APPROVED", "PAID">>}
<1>1. IInv /\ [Next]_vars => [Forward]_vars
  <2> SUFFICES ASSUME IInv, [Next]_vars PROVE Forward
    OBVIOUS
  <2>1. wd \in [Withdrawals -> WdStates]
    BY DEF IInv, WdInv
  <2>2. ASSUME NEW w \in Withdrawals, CheckWithdrawal(w) \/ DebitWithdrawal(w)
        PROVE  Forward
    BY <2>1, <2>2 DEF CheckWithdrawal, DebitWithdrawal
  <2>3. ASSUME NEW a \in Admins, Transition(a) \/ Reject(a) PROVE Forward
    BY <2>1, <2>3 DEF Transition, Reject, Expected
  <2>4. CASE UNCHANGED wd
    BY <2>4
  <2>5. \/ UNCHANGED wd
        \/ \E w \in Withdrawals : CheckWithdrawal(w) \/ DebitWithdrawal(w)
        \/ \E a \in Admins : Transition(a) \/ Reject(a)
    BY DEF Next, vars, ApplyPayment, AbandonPayment, RecoverPayment, ReopenPayment,
         RecoveryAborts, CloseEvent,
           Mature, LockExpires, OpenRequest, ReadVote, VaultVote, VoidUnpaid,
           ReadBalances, VoidPaid, DeskCrash, LookAtLock, TakeLock, SelectMatured,
           ReadReserve, ReleaseReserve, FinishRun, RunCrash
  <2> QED BY <2>2, <2>3, <2>4, <2>5
<1> QED BY <1>1, Invariance, PTL DEF Spec, WithdrawalsMoveForward

-----------------------------------------------------------------------------
(* The balances, the withdrawals and the entries of the ledger add up.     *)

Claims == Total(Amount, {w \in Withdrawals : Live(w)})

\* The three sums are numbers.
LEMMA SumsAreInts ==
    ASSUME IInv
    PROVE  /\ Claims \in Int /\ held \in Int /\ avail \in Int
           /\ Total(credited, Pays) \in Int /\ Total(reversed, Pays) \in Int
<1>1. IsFiniteSet(Pays) /\ IsFiniteSet({w \in Withdrawals : Live(w)})
  BY WalletAssumption, FS_Subset DEF WalletAssumption
<1>2. Claims \in Int
  <2>1. \A w \in {x \in Withdrawals : Live(x)} : Amount[w] \in Int
    BY WalletAssumption DEF WalletAssumption
  <2> QED BY <1>1, <2>1, TotalInt DEF Claims
<1>3. \A p \in Pays : credited[p] \in Int /\ reversed[p] \in Int
  BY DEF IInv, VoteInv
<1>4. Total(credited, Pays) \in Int /\ Total(reversed, Pays) \in Int
  BY <1>1, <1>3, TotalInt
<1> QED BY <1>2, <1>4 DEF IInv, BalanceInv

\* A withdrawal that becomes live, or stops being live, adds or takes its amount.
LEMMA ClaimMoves ==
    ASSUME IInv, NEW w \in Withdrawals, NEW s \in WdStates,
           wd' = [wd EXCEPT ![w] = s]
    PROVE  /\ ~Live(w) /\ s = "PENDING" => Claims' = Claims + Amount[w]
           /\ Live(w) /\ s = "REJECTED" => Claims' = Claims - Amount[w]
           /\ (Live(w) <=> s \in {"PENDING", "APPROVED", "PAID"}) => Claims' = Claims
<1> DEFINE now == {x \in Withdrawals : Live(x)}
           next == {x \in Withdrawals : Live(x)'}
           lives == s \in {"PENDING", "APPROVED", "PAID"}
<1>1. \A x \in Withdrawals : Live(x)' <=> IF x = w THEN lives ELSE Live(x)
  BY DEF Live, IInv, WdInv
<1>2. /\ IsFiniteSet(now) /\ IsFiniteSet(next)
      /\ \A x \in Withdrawals : Amount[x] \in Int
  BY WalletAssumption, FS_Subset DEF WalletAssumption
<1>3. Claims = Total(Amount, now) /\ Claims' = Total(Amount, next)
  BY DEF Claims
<1>4. Claims \in Int
  BY SumsAreInts
<1>5. ASSUME ~Live(w), lives PROVE Claims' = Claims + Amount[w]
  <2>1. w \in next /\ next \ {w} = now
    BY <1>1, <1>5
  <2>2. \A x \in next : Amount[x] \in Int
    BY <1>2
  <2> HIDE DEF now, next
  <2>3. Total(Amount, next) = Amount[w] + Total(Amount, now)
    BY <1>2, <2>1, <2>2, TotalTakes
  <2> QED BY <1>2, <1>3, <1>4, <2>3
<1>6. ASSUME Live(w), ~lives PROVE Claims' = Claims - Amount[w]
  <2>1. w \in now /\ now \ {w} = next
    BY <1>1, <1>6
  <2>2. \A x \in now : Amount[x] \in Int
    BY <1>2
  <2>3. IsFiniteSet(next) /\ \A x \in next : Amount[x] \in Int
    BY <1>2
  <2> HIDE DEF now, next
  <2>4. Total(Amount, now) = Amount[w] + Total(Amount, next)
    BY <1>2, <2>1, <2>2, TotalTakes
  <2>5. Total(Amount, next) \in Int
    BY <2>3, TotalInt
  <2> QED BY <1>2, <1>3, <2>4, <2>5
<1>7. ASSUME Live(w) <=> lives PROVE Claims' = Claims
  <2>1. next = now
    BY <1>1, <1>7
  <2> QED BY <1>3, <2>1
<1> QED BY <1>5, <1>6, <1>7

\* A step that only moves money between the balances keeps the sum.
LEMMA MoneyStays ==
    ASSUME IInv, MoneyConserved, IInv', UNCHANGED <<credited, reversed>>,
           held' + avail' = held + avail, Claims' = Claims
    PROVE  MoneyConserved'
BY DEF MoneyConserved, Claims

\* Every step keeps the sum.
LEMMA MoneyNext ==
    ASSUME IInv, MoneyConserved, [Next]_vars, IInv' PROVE MoneyConserved'
<1>1. ASSUME NEW p \in Pays, ApplyPayment(p) PROVE MoneyConserved'
  <2>1. /\ held' = held + HeldPart(p) /\ avail' = avail + (Net[p] - HeldPart(p))
        /\ credited' = [credited EXCEPT ![p] = @ + Net[p]]
        /\ UNCHANGED <<reversed, wd>>
    BY <1>1 DEF ApplyPayment, CreditSplit
  <2>2. Net[p] \in Int /\ HeldPart(p) \in Int
    BY SplitBound, WalletAssumption
  <2>3. IsFiniteSet(Pays) /\ credited \in [Pays -> Int]
    BY WalletAssumption DEF WalletAssumption, IInv, VoteInv
  <2>4. Total(credited', Pays) = Total(credited, Pays) + Net[p]
    BY <2>1, <2>2, <2>3, TotalGrows
  <2>5. Claims' = Claims
    BY <2>1 DEF Claims, Live
  <2> QED BY <2>1, <2>2, <2>4, <2>5, SumsAreInts DEF MoneyConserved, Claims
<1>2. ASSUME NEW w \in Withdrawals, CheckWithdrawal(w) \/ DebitWithdrawal(w)
      PROVE  MoneyConserved'
  <2>1. UNCHANGED <<held, credited, reversed>> /\ Amount[w] \in Int
    BY <1>2, WalletAssumption
    DEF WalletAssumption, CheckWithdrawal, DebitWithdrawal, votes, balances
  <2>2. CASE avail' = avail
    <3>1. PICK s \in {"none", "checked"} : wd' = [wd EXCEPT ![w] = s] /\ ~Live(w)
      BY <1>2, <2>2, SumsAreInts, WalletAssumption
      DEF WalletAssumption, CheckWithdrawal, DebitWithdrawal, Live
    <3>2. Claims' = Claims
      BY <3>1, ClaimMoves DEF WdStates
    <3> QED BY <2>1, <2>2, <3>2, MoneyStays
  <2>3. CASE avail' # avail
    <3>1. /\ avail' = avail - Amount[w] /\ ~Live(w)
          /\ wd' = [wd EXCEPT ![w] = "PENDING"]
      BY <1>2, <2>3 DEF CheckWithdrawal, DebitWithdrawal, balances, Live
    <3>2. Claims' = Claims + Amount[w]
      BY <3>1, ClaimMoves DEF WdStates
    <3> QED BY <2>1, <3>1, <3>2, SumsAreInts DEF MoneyConserved, Claims
  <2> QED BY <2>2, <2>3
<1>3. ASSUME NEW a \in Admins, Transition(a) PROVE MoneyConserved'
  <2> DEFINE w == desk[a].on
  <2>1. w \in Withdrawals /\ UNCHANGED <<held, avail, credited, reversed>>
    BY <1>3 DEF Transition, IInv, DeskInv, DeskFine, votes, balances
  <2>2. \/ \E s \in {"PAID", "APPROVED"} : wd' = [wd EXCEPT ![w] = s] /\ Live(w)
        \/ wd' = wd
    BY <1>3 DEF Transition, Expected, Live
  <2> HIDE DEF w
  <2>3. CASE wd' = wd
    BY <2>1, <2>3, MoneyStays DEF Claims, Live
  <2>4. ASSUME NEW s \in {"PAID", "APPROVED"}, wd' = [wd EXCEPT ![w] = s], Live(w)
        PROVE  MoneyConserved'
    <3>1. Claims' = Claims
      BY <2>1, <2>4, ClaimMoves DEF WdStates
    <3> QED BY <2>1, <3>1, MoneyStays
  <2> QED BY <2>2, <2>3, <2>4
<1>4. ASSUME NEW a \in Admins, Reject(a) PROVE MoneyConserved'
  <2> DEFINE w == desk[a].on
  <2>1. w \in Withdrawals /\ UNCHANGED <<held, credited, reversed>>
    BY <1>4 DEF Reject, IInv, DeskInv, DeskFine, votes
  <2>2. \/ /\ Live(w) /\ wd' = [wd EXCEPT ![w] = "REJECTED"]
           /\ avail' = avail + Amount[w]
        \/ wd' = wd /\ avail' = avail
    BY <1>4 DEF Reject, Live
  <2>3. Amount[w] \in Int
    BY <2>1, WalletAssumption DEF WalletAssumption
  <2> HIDE DEF w
  <2>4. CASE wd' = wd /\ avail' = avail
    BY <2>1, <2>4, MoneyStays DEF Claims, Live
  <2>5. CASE Live(w) /\ wd' = [wd EXCEPT ![w] = "REJECTED"] /\ avail' = avail + Amount[w]
    <3>1. Claims' = Claims - Amount[w]
      BY <2>1, <2>5, ClaimMoves DEF WdStates
    <3> QED BY <2>1, <2>3, <2>5, <3>1, SumsAreInts DEF MoneyConserved, Claims
  <2> QED BY <2>2, <2>4, <2>5
<1>5. ASSUME NEW a \in Admins, VoidPaid(a) PROVE MoneyConserved'
  <2> DEFINE p == desk[a].on
             x == desk[a].held
  <2>1. p \in Pays /\ x \in Int /\ UNCHANGED <<credited, wd>>
    BY <1>5 DEF VoidPaid, IInv, DeskInv, DeskFine, Desks
  <2>2. \/ /\ held' = held - x /\ avail' = avail - (credited[p] - x)
           /\ reversed' = [reversed EXCEPT ![p] = @ + credited[p]]
        \/ UNCHANGED <<held, avail, reversed>>
    BY <1>5 DEF VoidPaid
  <2>3. Claims' = Claims
    BY <2>1 DEF Claims, Live
  <2>4. /\ IsFiniteSet(Pays) /\ reversed \in [Pays -> Int] /\ credited[p] \in Int
    BY <2>1, WalletAssumption DEF WalletAssumption, IInv, VoteInv
  <2> HIDE DEF p, x
  <2>5. CASE UNCHANGED <<held, avail, reversed>>
    BY <2>1, <2>3, <2>5, MoneyStays
  <2>6. CASE /\ held' = held - x /\ avail' = avail - (credited[p] - x)
             /\ reversed' = [reversed EXCEPT ![p] = @ + credited[p]]
    <3>1. Total(reversed', Pays) = Total(reversed, Pays) + credited[p]
      BY <2>1, <2>4, <2>6, TotalGrows
    <3>2. held' + avail' = held + avail - credited[p]
      BY <2>1, <2>4, <2>6, SumsAreInts
    <3>3. credited' = credited /\ Claims' = Claims
      BY <2>1, <2>3
    <3> QED BY <2>4, <3>1, <3>2, <3>3, SumsAreInts DEF MoneyConserved, Claims
  <2> QED BY <2>2, <2>5, <2>6
<1>6. ASSUME NEW r \in Runs, ReleaseReserve(r) PROVE MoneyConserved'
  <2>1. run[r].amount \in Int /\ UNCHANGED <<credited, reversed, wd>>
    BY <1>6 DEF ReleaseReserve, votes, IInv, RunInv, RunStates
  <2>2. held' + avail' = held + avail
    BY <1>6, <2>1, SumsAreInts DEF ReleaseReserve
  <2> QED BY <2>1, <2>2, MoneyStays DEF Claims, Live
<1>7. CASE UNCHANGED <<held, avail, credited, reversed, wd>>
  BY <1>7, MoneyStays DEF Claims, Live
<1>8. \/ UNCHANGED <<held, avail, credited, reversed, wd>>
      \/ \E p \in Pays : ApplyPayment(p)
      \/ \E w \in Withdrawals : CheckWithdrawal(w) \/ DebitWithdrawal(w)
      \/ \E a \in Admins : Transition(a) \/ Reject(a) \/ VoidPaid(a)
      \/ \E r \in Runs : ReleaseReserve(r)
  BY DEF Next, vars, AbandonPayment, RecoverPayment, ReopenPayment,
         RecoveryAborts, CloseEvent, Mature, LockExpires,
         OpenRequest, ReadVote, VaultVote, VoidUnpaid, ReadBalances, DeskCrash,
         LookAtLock, TakeLock, SelectMatured, ReadReserve, FinishRun, RunCrash,
         votes, balances
<1> QED BY <1>1, <1>2, <1>3, <1>4, <1>5, <1>6, <1>7, <1>8

\* No interleaving of payments, withdrawals, decisions of administrators, voids
\* and releases creates or loses money.
THEOREM Conservation == Spec => []MoneyConserved
<1>1. Init => MoneyConserved
  <2> SUFFICES ASSUME Init PROVE MoneyConserved
    OBVIOUS
  <2>1. \A w \in Withdrawals : ~Live(w)
    BY DEF Init, Live
  <2>2. {w \in Withdrawals : Live(w)} = {}
    BY <2>1
  <2>3. Total(Amount, {}) = 0
    BY FS_EmptySet, TotalSteps
  <2>4. Total(credited, Pays) = 0 /\ Total(reversed, Pays) = 0
    BY TotalZero, WalletAssumption DEF Init, WalletAssumption
  <2>5. held = 0 /\ avail = 0
    BY DEF Init
  <2> QED BY <2>2, <2>3, <2>4, <2>5 DEF MoneyConserved
<1>2. IInv /\ IInv' /\ MoneyConserved /\ [Next]_vars => MoneyConserved'
  BY MoneyNext
<1> QED BY <1>1, <1>2, Invariance, PTL DEF Spec

-----------------------------------------------------------------------------
(* The wallet implements WalletPromise.                                    *)

\* A void takes from the reserve no more than the payment brought in: what is
\* left to take from the withdrawable balance is not negative.
PartInv == \A a \in Admins : desk[a].at = "debit" => desk[a].held <= Net[desk[a].on]

\* Only ReadBalances decides that part.
LEMMA PartNext == ASSUME IInv, PartInv, [Next]_vars PROVE PartInv'
<1>1. desk \in [Admins -> Desks]
  BY DEF IInv, DeskInv
<1>2. ASSUME NEW a \in Admins, NEW d, d.at # "debit", desk' = [desk EXCEPT ![a] = d]
      PROVE  PartInv'
  BY <1>1, <1>2 DEF PartInv
<1>3. ASSUME NEW a \in Admins, ReadBalances(a) PROVE PartInv'
  <2> DEFINE p == desk[a].on
             d == Desk("debit", p, "SUCCEEDED", Least(held, credited[p]))
  <2>1. p \in Pays /\ desk[a].seen = "SUCCEEDED" /\ p \notin cancelled
    BY <1>3 DEF ReadBalances, IInv, DeskInv, DeskFine
  <2>2. pay[p] = "SUCCEEDED"
    BY <1>3, <2>1 DEF ReadBalances, IInv, DeskInv, DeskFine, VoteInv
  <2>3. credited[p] = Net[p] /\ Net[p] \in Nat
    BY <2>1, <2>2, WalletAssumption
    DEF WalletAssumption, IInv, VoteInv, CreditMatchesPayment
  <2>4. d.held <= Net[p] /\ d.on = p
    BY <2>3 DEF Least, Desk, IInv, BalanceInv
  <2>5. desk' = [desk EXCEPT ![a] = AtRest] \/ desk' = [desk EXCEPT ![a] = d]
    BY <1>3 DEF ReadBalances
  <2>6. CASE desk' = [desk EXCEPT ![a] = AtRest]
    BY <1>2, <2>6, AtRestFine
  <2> HIDE DEF d
  <2>7. CASE desk' = [desk EXCEPT ![a] = d]
    BY <1>1, <2>4, <2>7 DEF PartInv
  <2> QED BY <2>5, <2>6, <2>7
<1>4. ASSUME NEW a \in Admins,
             \/ \E w \in Withdrawals, step \in {"approve", "reject", "pay"} :
                  OpenRequest(a, w, step)
             \/ \E p \in Pays : ReadVote(a, p)
             \/ VaultVote(a)
      PROVE  PartInv'
  <2>1. PICK d : d.at # "debit" /\ desk' = [desk EXCEPT ![a] = d]
    BY <1>4, AtRestFine DEF OpenRequest, ReadVote, VaultVote, Desk
  <2> QED BY <1>2, <2>1
<1>5. ASSUME NEW a \in Admins,
             Transition(a) \/ Reject(a) \/ VoidUnpaid(a) \/ VoidPaid(a) \/ DeskCrash(a)
      PROVE  PartInv'
  <2>1. desk' = [desk EXCEPT ![a] = AtRest]
    BY <1>5 DEF Transition, Reject, VoidUnpaid, VoidPaid, DeskCrash
  <2> QED BY <1>2, <2>1, AtRestFine
<1>6. CASE UNCHANGED desk
  BY <1>6 DEF PartInv
<1>7. \/ UNCHANGED desk
      \/ \E a \in Admins :
           \/ \E w \in Withdrawals, step \in {"approve", "reject", "pay"} :
                OpenRequest(a, w, step)
           \/ \E p \in Pays : ReadVote(a, p)
           \/ Transition(a) \/ Reject(a) \/ VaultVote(a) \/ VoidUnpaid(a)
           \/ ReadBalances(a) \/ VoidPaid(a) \/ DeskCrash(a)
  BY DEF Next, vars, ApplyPayment, AbandonPayment, RecoverPayment, ReopenPayment,
         RecoveryAborts, CloseEvent, Mature,
         LockExpires, CheckWithdrawal, DebitWithdrawal, LookAtLock, TakeLock,
         SelectMatured, ReadReserve, ReleaseReserve, FinishRun, RunCrash
<1> QED BY <1>3, <1>4, <1>5, <1>6, <1>7

\* What a withdrawal's row is in the promise.
LEMMA ClaimOf ==
    ASSUME IInv, NEW w \in Withdrawals, NEW s \in WdStates, wd' = [wd EXCEPT ![w] = s]
    PROVE  /\ claimOf' = [claimOf EXCEPT ![w] = IF s = "checked" THEN "none" ELSE s]
           /\ claimOf[w] = IF wd[w] = "checked" THEN "none" ELSE wd[w]
BY DEF claimOf, IInv, WdInv

\* What a payment's entries are in the promise, and how one of them moves.
LEMMA EntryOf ==
    ASSUME NEW p \in Pays, NEW c, NEW r,
           \A q \in Pays \ {p} : credited'[q] = credited[q] /\ reversed'[q] = reversed[q],
           credited'[p] = c, reversed'[p] = r
    PROVE  entryOf' = [entryOf EXCEPT ![p] = IF c = 0 THEN "none"
                                            ELSE IF r = 0 THEN "credited" ELSE "reversed"]
BY DEF entryOf

\* A confirmed payment is Credit.
LEMMA ApplyIsCredit ==
    ASSUME IInv, NEW p \in Pays, ApplyPayment(p) PROVE Promise!Credit(p)
<1>1. /\ held' = held + HeldPart(p) /\ avail' = avail + (Net[p] - HeldPart(p))
      /\ credited' = [credited EXCEPT ![p] = @ + Net[p]]
      /\ reversed' = reversed /\ wd' = wd /\ pay[p] = "PENDING"
  BY DEF ApplyPayment, CreditSplit
<1>2. /\ Net[p] \in Nat \ {0} /\ HeldPart(p) \in 0..Net[p]
      /\ credited \in [Pays -> Nat] /\ credited[p] = 0 /\ reversed[p] = 0
  <2>1. HeldPart(p) \in Nat /\ HeldPart(p) <= Net[p]
    BY SplitBound, WalletAssumption
  <2>2. Net[p] \in Nat \ {0}
    BY WalletAssumption DEF WalletAssumption
  <2>3. credited \in [Pays -> Nat] /\ credited[p] = 0 /\ reversed[p] = 0
    BY <1>1 DEF IInv, VoteInv, CreditMatchesPayment
  <2> QED BY <2>1, <2>2, <2>3
<1>3. \A q \in Pays \ {p} : credited'[q] = credited[q] /\ reversed'[q] = reversed[q]
  BY <1>1, <1>2
<1>4. credited'[p] = Net[p] /\ reversed'[p] = 0
  BY <1>1, <1>2
<1>5. entryOf' = [entryOf EXCEPT ![p] = "credited"]
  BY <1>2, <1>3, <1>4, EntryOf
<1>6. entryOf[p] = "none" /\ claimOf' = claimOf
  BY <1>1, <1>2 DEF entryOf, claimOf
<1> QED BY <1>1, <1>2, <1>5, <1>6 DEF Promise!Credit

\* A void that debits the balances is TakeBack; one that is rolled back shows
\* nothing.
LEMMA VoidIsTakeBack ==
    ASSUME IInv, PartInv, NEW a \in Admins, VoidPaid(a)
    PROVE  Promise!TakeBack(desk[a].on) \/ UNCHANGED <<held, avail, credited, reversed, wd>>
<1> DEFINE p == desk[a].on
           x == desk[a].held
<1>1. desk[a].at = "debit" /\ credited' = credited /\ wd' = wd
  BY DEF VoidPaid
<1>2. p \in Pays /\ x \in Nat /\ pay[p] = "SUCCEEDED" /\ x <= Net[p]
  BY <1>1 DEF IInv, DeskInv, DeskFine, Desks, VoteInv, PartInv
<1>3. /\ Net[p] \in Nat \ {0} /\ credited[p] = Net[p] /\ reversed[p] = 0
      /\ reversed \in [Pays -> Nat]
  BY <1>2, WalletAssumption DEF WalletAssumption, IInv, VoteInv, CreditMatchesPayment
<1>4. \/ /\ held >= x /\ avail >= Net[p] - x
         /\ held' = held - x /\ avail' = avail - (Net[p] - x)
         /\ reversed' = [reversed EXCEPT ![p] = @ + Net[p]]
      \/ UNCHANGED <<held, avail, reversed>>
  BY <1>3 DEF VoidPaid
<1> HIDE DEF p, x
<1>5. CASE UNCHANGED <<held, avail, reversed>>
  BY <1>1, <1>5
<1>6. CASE /\ held >= x /\ avail >= Net[p] - x
           /\ held' = held - x /\ avail' = avail - (Net[p] - x)
           /\ reversed' = [reversed EXCEPT ![p] = @ + Net[p]]
  <2>1. \A q \in Pays \ {p} : credited'[q] = credited[q] /\ reversed'[q] = reversed[q]
    BY <1>1, <1>3, <1>6
  <2>2. credited'[p] = Net[p] /\ reversed'[p] = Net[p]
    BY <1>1, <1>2, <1>3, <1>6
  <2>3. entryOf' = [entryOf EXCEPT ![p] = "reversed"]
    BY <1>2, <1>3, <2>1, <2>2, EntryOf
  <2>4. entryOf[p] = "credited" /\ claimOf' = claimOf
    BY <1>1, <1>2, <1>3 DEF entryOf, claimOf
  <2>5. x \in 0..Net[p]
    BY <1>2, <1>3
  <2>6. Promise!TakeBack(p)
    BY <1>6, <2>3, <2>4, <2>5 DEF Promise!TakeBack
  <2> QED BY <2>6 DEF p
<1> QED BY <1>4, <1>5, <1>6

\* Every step from a reachable state is a step of the promise or leaves its
\* variables as they are.
LEMMA StepPromised ==
    ASSUME IInv, PartInv, [Next]_vars PROVE [Promise!Next]_(Promise!vars)
<1> DEFINE Goal == [Promise!Next]_(Promise!vars)
<1>1. ASSUME UNCHANGED <<held, avail, credited, reversed>>, claimOf' = claimOf PROVE Goal
  BY <1>1 DEF Promise!vars, entryOf
<1>2. ASSUME UNCHANGED <<held, avail, credited, reversed, wd>> PROVE Goal
  BY <1>1, <1>2 DEF claimOf
<1>3. ASSUME NEW p \in Pays, ApplyPayment(p) PROVE Goal
  BY <1>3, ApplyIsCredit DEF Promise!Next
<1>4. ASSUME NEW w \in Withdrawals, CheckWithdrawal(w) PROVE Goal
  <2>1. /\ wd' = [wd EXCEPT ![w] = "checked"] /\ wd[w] = "none"
        /\ UNCHANGED <<held, avail, credited, reversed>>
    BY <1>4 DEF CheckWithdrawal, votes, balances
  <2>2. claimOf' = claimOf
    BY <2>1 DEF claimOf, IInv, WdInv
  <2> QED BY <1>1, <2>1, <2>2
<1>5. ASSUME NEW w \in Withdrawals, DebitWithdrawal(w) PROVE Goal
  <2>1. wd[w] = "checked" /\ UNCHANGED <<held, credited, reversed>>
    BY <1>5 DEF DebitWithdrawal, votes
  <2>2. \/ wd' = [wd EXCEPT ![w] = "none"] /\ avail' = avail
        \/ /\ wd' = [wd EXCEPT ![w] = "PENDING"]
           /\ avail >= Amount[w] /\ avail' = avail - Amount[w]
    BY <1>5 DEF DebitWithdrawal
  <2>3. CASE wd' = [wd EXCEPT ![w] = "none"] /\ avail' = avail
    <3>1. claimOf' = claimOf
      BY <2>1, <2>3 DEF claimOf, IInv, WdInv
    <3> QED BY <1>1, <2>1, <2>3, <3>1
  <2>4. CASE /\ wd' = [wd EXCEPT ![w] = "PENDING"]
             /\ avail >= Amount[w] /\ avail' = avail - Amount[w]
    <3>1. claimOf[w] = "none" /\ claimOf' = [claimOf EXCEPT ![w] = "PENDING"]
      BY <2>1, <2>4, ClaimOf DEF WdStates
    <3>2. entryOf' = entryOf
      BY <2>1 DEF entryOf
    <3>3. Promise!Withdraw(w)
      BY <2>1, <2>4, <3>1, <3>2 DEF Promise!Withdraw, Promise!Move
    <3> QED BY <3>3 DEF Promise!Next
  <2> QED BY <2>2, <2>3, <2>4
<1>6. ASSUME NEW a \in Admins, Transition(a) PROVE Goal
  <2> DEFINE w == desk[a].on
  <2>1. w \in Withdrawals /\ UNCHANGED <<held, avail, credited, reversed>>
    BY <1>6 DEF Transition, IInv, DeskInv, DeskFine, votes, balances
  <2>2. \/ wd[w] = "PENDING" /\ wd' = [wd EXCEPT ![w] = "APPROVED"]
        \/ wd[w] = "APPROVED" /\ wd' = [wd EXCEPT ![w] = "PAID"]
        \/ wd' = wd
    BY <1>6 DEF Transition, Expected
  <2> HIDE DEF w
  <2>3. CASE wd' = wd
    BY <1>2, <2>1, <2>3
  <2>4. CASE \/ wd[w] = "PENDING" /\ wd' = [wd EXCEPT ![w] = "APPROVED"]
             \/ wd[w] = "APPROVED" /\ wd' = [wd EXCEPT ![w] = "PAID"]
    <3>1. \/ claimOf[w] = "PENDING" /\ claimOf' = [claimOf EXCEPT ![w] = "APPROVED"]
          \/ claimOf[w] = "APPROVED" /\ claimOf' = [claimOf EXCEPT ![w] = "PAID"]
      BY <2>1, <2>4, ClaimOf DEF WdStates
    <3>2. entryOf' = entryOf
      BY <2>1 DEF entryOf
    <3>3. Promise!Decide(w)
      BY <2>1, <3>1, <3>2 DEF Promise!Decide, Promise!Move
    <3> QED BY <2>1, <3>3 DEF Promise!Next
  <2> QED BY <2>2, <2>3, <2>4
<1>7. ASSUME NEW a \in Admins, Reject(a) PROVE Goal
  <2> DEFINE w == desk[a].on
  <2>1. w \in Withdrawals /\ UNCHANGED <<held, credited, reversed>>
    BY <1>7 DEF Reject, IInv, DeskInv, DeskFine, votes
  <2>2. \/ /\ wd[w] = "PENDING" /\ wd' = [wd EXCEPT ![w] = "REJECTED"]
           /\ avail' = avail + Amount[w]
        \/ wd' = wd /\ avail' = avail
    BY <1>7 DEF Reject
  <2> HIDE DEF w
  <2>3. CASE wd' = wd /\ avail' = avail
    BY <1>2, <2>1, <2>3
  <2>4. CASE /\ wd[w] = "PENDING" /\ wd' = [wd EXCEPT ![w] = "REJECTED"]
             /\ avail' = avail + Amount[w]
    <3>1. claimOf[w] = "PENDING" /\ claimOf' = [claimOf EXCEPT ![w] = "REJECTED"]
      BY <2>1, <2>4, ClaimOf DEF WdStates
    <3>2. entryOf' = entryOf
      BY <2>1 DEF entryOf
    <3>3. Promise!Reject(w)
      BY <2>1, <2>4, <3>1, <3>2 DEF Promise!Reject, Promise!Move
    <3> QED BY <2>1, <3>3 DEF Promise!Next
  <2> QED BY <2>2, <2>3, <2>4
<1>8. ASSUME NEW a \in Admins, VoidPaid(a) PROVE Goal
  <2>1. CASE UNCHANGED <<held, avail, credited, reversed, wd>>
    BY <1>2, <2>1
  <2>2. CASE Promise!TakeBack(desk[a].on)
    <3>1. desk[a].on \in Pays
      BY <1>8 DEF VoidPaid, IInv, DeskInv, DeskFine
    <3> QED BY <2>2, <3>1 DEF Promise!Next
  <2> QED BY <1>8, <2>1, <2>2, VoidIsTakeBack
<1>9. ASSUME NEW r \in Runs, ReleaseReserve(r) PROVE Goal
  <2> DEFINE x == run[r].amount
  <2>1. x \in Nat /\ held \in Nat /\ avail \in Nat /\ UNCHANGED <<credited, reversed, wd>>
    BY <1>9 DEF ReleaseReserve, votes, IInv, RunInv, RunStates, BalanceInv
  <2>2. \/ UNCHANGED <<held, avail>>
        \/ held >= x /\ held' = held - x /\ avail' = avail + x
    BY <1>9 DEF ReleaseReserve
  <2> HIDE DEF x
  <2>3. CASE UNCHANGED <<held, avail>>
    BY <1>2, <2>1, <2>3
  <2>4. CASE held >= x /\ held' = held - x /\ avail' = avail + x /\ x # 0
    <3>1. x \in 1..held
      BY <2>1, <2>4
    <3>2. entryOf' = entryOf /\ claimOf' = claimOf
      BY <2>1 DEF entryOf, claimOf
    <3> QED BY <2>4, <3>1, <3>2 DEF Promise!Release, Promise!Next
  <2>5. CASE x = 0 /\ held' = held - x /\ avail' = avail + x
    <3>1. UNCHANGED <<held, avail>>
      BY <2>1, <2>5
    <3> QED BY <2>3, <3>1
  <2> QED BY <2>2, <2>3, <2>4, <2>5
<1>10. \/ UNCHANGED <<held, avail, credited, reversed, wd>>
       \/ \E p \in Pays : ApplyPayment(p)
       \/ \E w \in Withdrawals : CheckWithdrawal(w) \/ DebitWithdrawal(w)
       \/ \E a \in Admins : Transition(a) \/ Reject(a) \/ VoidPaid(a)
       \/ \E r \in Runs : ReleaseReserve(r)
  BY DEF Next, vars, AbandonPayment, RecoverPayment, ReopenPayment,
         RecoveryAborts, CloseEvent, Mature, LockExpires,
         OpenRequest, ReadVote, VaultVote, VoidUnpaid, ReadBalances, DeskCrash,
         LookAtLock, TakeLock, SelectMatured, ReadReserve, FinishRun, RunCrash,
         votes, balances
<1> HIDE DEF Goal
<1>11. Goal
  BY <1>2, <1>3, <1>4, <1>5, <1>6, <1>7, <1>8, <1>9, <1>10
<1> QED BY <1>11 DEF Goal

\* Every behaviour of the wallet is, seen through its balances, its ledger and its
\* withdrawals, a behaviour of the promise.
THEOREM KeepsPromise == Spec => ImplementsWalletPromise
<1>1. Init => PartInv
  BY AtRestFine DEF Init, PartInv
<1>2. IInv /\ PartInv /\ [Next]_vars => PartInv'
  BY PartNext
<1>3. Init => Promise!Init
  BY DEF Init, Promise!Init, entryOf, claimOf
<1>4. IInv /\ PartInv /\ [Next]_vars => [Promise!Next]_(Promise!vars)
  BY StepPromised
<1> QED
  BY <1>1, <1>2, <1>3, <1>4, Invariance, PTL
  DEF Spec, ImplementsWalletPromise, Promise!Spec

-----------------------------------------------------------------------------
(* The wallet keeps to the feed of the payments.                           *)

\* The events that are closed, as the feed has them.
overOf == {closed[i] : i \in DOMAIN closed}

\* Closing an event adds it to those that are over.
LEMMA CloseAdds ==
    ASSUME IInv, NEW e \in Events, closed' = Append(closed, e)
    PROVE  overOf' = overOf \cup {e}
<1>1. closed \in Seq(Events)
  BY DEF IInv, EventInv
<1>2. /\ DOMAIN closed = 1..Len(closed) /\ Len(closed) \in Nat
      /\ DOMAIN closed' = 1..(Len(closed) + 1)
      /\ closed'[Len(closed) + 1] = e
      /\ \A i \in 1..Len(closed) : closed'[i] = closed[i]
  BY <1>1
<1>3. 1..(Len(closed) + 1) = (1..Len(closed)) \cup {Len(closed) + 1}
  BY <1>2
<1> QED BY <1>2, <1>3 DEF overOf

\* Every step from a reachable state is a step of the feed, or does not show.
LEMMA StepFed == ASSUME IInv, [Next]_vars PROVE [Feed!Next]_(Feed!vars)
<1> DEFINE Goal == [Feed!Next]_(Feed!vars)
<1>1. ASSUME UNCHANGED <<pay, reopening, credited, closed>> PROVE Goal
  BY <1>1 DEF Feed!vars
<1>2. ASSUME NEW p \in Pays, ApplyPayment(p) PROVE Goal
  <2>1. Feed!Confirm(p)
    BY <1>2 DEF ApplyPayment, CreditSplit, Feed!Confirm, Feed!Become
  <2> QED BY <2>1 DEF Feed!Next
<1>3. ASSUME NEW p \in Pays, AbandonPayment(p) PROVE Goal
  <2>1. Feed!GiveUp(p)
    BY <1>3 DEF AbandonPayment, reserves, Feed!GiveUp, Feed!Become
  <2> QED BY <2>1 DEF Feed!Next
<1>4. ASSUME NEW p \in Pays, RecoverPayment(p) \/ ReopenPayment(p) \/ RecoveryAborts(p)
      PROVE  Goal
  <2>1. CASE RecoverPayment(p)
    <3>1. EventOf[p] \notin overOf
      BY <2>1 DEF RecoverPayment, IsOpen, overOf
    <3>2. Feed!Recall(p)
      BY <2>1, <3>1 DEF RecoverPayment, reserves, Feed!Recall, overOf
    <3> QED BY <3>2 DEF Feed!Next
  <2>2. CASE ReopenPayment(p)
    <3>1. pay[p] = "FAILED"
      BY <2>2 DEF ReopenPayment, IInv, VoteInv
    <3>2. Feed!ComeBack(p)
      BY <2>2, <3>1 DEF ReopenPayment, reserves, Feed!ComeBack, Feed!Become
    <3> QED BY <3>2 DEF Feed!Next
  <2>3. CASE RecoveryAborts(p)
    <3>1. Feed!Forget(p)
      BY <2>3 DEF RecoveryAborts, reserves, Feed!Forget
    <3> QED BY <3>1 DEF Feed!Next
  <2> QED BY <1>4, <2>1, <2>2, <2>3
<1>5. ASSUME NEW a \in Admins, VoidUnpaid(a) \/ VoidPaid(a) PROVE Goal
  <2>1. PICK p \in Pays : p = desk[a].on
    BY <1>5 DEF VoidUnpaid, VoidPaid, IInv, DeskInv, DeskFine
  <2>2. /\ UNCHANGED <<reopening, credited, closed>>
        /\ pay' = pay \/ (p \notin reopening /\ pay' = [pay EXCEPT ![p] = "VOIDED"])
    <3>1. CASE VoidUnpaid(a)
      BY <2>1, <3>1 DEF VoidUnpaid, reserves
    <3>2. CASE VoidPaid(a)
      <4>1. pay[p] \in {"SUCCEEDED", "VOIDED"}
        BY <2>1, <3>2 DEF VoidPaid, IInv, DeskInv, DeskFine
      <4> QED BY <2>1, <3>2, <4>1 DEF VoidPaid, reserves, IInv, VoteInv
    <3> QED BY <1>5, <3>1, <3>2
  <2>3. CASE pay' = pay
    BY <1>1, <2>2, <2>3
  <2>4. CASE p \notin reopening /\ pay' = [pay EXCEPT ![p] = "VOIDED"]
    <3>1. Feed!Void(p)
      BY <2>2, <2>4 DEF Feed!Void, Feed!Become
    <3> QED BY <3>1 DEF Feed!Next
  <2> QED BY <2>2, <2>3, <2>4
<1>6. ASSUME NEW e \in Events, CloseEvent(e) PROVE Goal
  <2>1. UNCHANGED <<pay, reopening, credited>> /\ overOf' = overOf \cup {e}
    BY <1>6, CloseAdds DEF CloseEvent, votes
  <2>2. Feed!Close(e)
    BY <2>1 DEF Feed!Close, overOf
  <2> QED BY <2>2 DEF Feed!Next
<1>7. \/ UNCHANGED <<pay, reopening, credited, closed>>
      \/ \E p \in Pays : \/ ApplyPayment(p) \/ AbandonPayment(p) \/ RecoverPayment(p)
                        \/ ReopenPayment(p) \/ RecoveryAborts(p)
      \/ \E e \in Events : CloseEvent(e)
      \/ \E a \in Admins : VoidUnpaid(a) \/ VoidPaid(a)
  BY DEF Next, vars, Mature, CheckWithdrawal, DebitWithdrawal, OpenRequest, Transition,
         Reject, ReadVote, VaultVote, ReadBalances, DeskCrash, LookAtLock, TakeLock,
         LockExpires, SelectMatured, ReadReserve, ReleaseReserve, FinishRun, RunCrash,
         votes, reserves
<1> HIDE DEF Goal
<1>8. Goal
  BY <1>1, <1>2, <1>3, <1>4, <1>5, <1>6, <1>7
<1> QED BY <1>8 DEF Goal

\* What the pipeline's model leaves to the wallet is what the wallet does: no step
\* of a withdrawal, a closure or the job moves a payment or its credit, and one
\* given up comes back only by a recovery that has found its event open, whatever
\* is committed between that read and the recovery's own commit.
THEOREM StaysFed == Spec => TakesTheFeed
<1>1. Init => Feed!Init
  <2> SUFFICES ASSUME Init PROVE Feed!Init
    OBVIOUS
  <2>1. closed = <<>>
    BY DEF Init
  <2>2. DOMAIN closed = {}
    BY <2>1
  <2>3. overOf = {}
    BY <2>2 DEF overOf
  <2> QED BY <2>3 DEF Init, Feed!Init, overOf
<1>2. IInv /\ [Next]_vars => [Feed!Next]_(Feed!vars)
  BY StepFed
<1> QED BY <1>1, <1>2, Invariance, PTL DEF Spec, TakesTheFeed, Feed!Spec

-----------------------------------------------------------------------------
(* A reserve is released once, as long as the lock does not lapse.         *)

Active(r) == run[r].at \in {"select", "scan", "release"}

\* A free lock belongs to no execution.
LEMMA NoOwner == NoLock.by \notin Runs /\ NoLock.stale = FALSE
<1>1. NoLock.by = "nobody" /\ NoLock.stale = FALSE
  BY DEF NoLock
<1>2. "nobody" \notin Runs
  BY WalletAssumption DEF WalletAssumption
<1> QED BY <1>1, <1>2

\* The execution that works owns the lock, and what it has read of a reserve is
\* still there.
LockInv ==
    /\ lock.stale = FALSE
    /\ \A r \in Runs :
         /\ run[r].at # "take over"
         /\ Active(r) => lock.by = r
         /\ run[r].at = "release"
              => released[Head(run[r].todo)] + run[r].amount
                   <= allocated[Head(run[r].todo)]

OnceInv == LockInv /\ ReleasedOnce

\* Nothing but the job moves the lock; payments only add to the reserves.
LEMMA OnceKept ==
    ASSUME IInv, OnceInv, UNCHANGED <<lock, run, released>>,
           \A e \in Events : allocated'[e] >= allocated[e], ReserveInv'
    PROVE  OnceInv'
<1>1. ASSUME NEW r \in Runs, run[r].at = "release"
      PROVE  released[Head(run[r].todo)] + run[r].amount
               <= allocated'[Head(run[r].todo)]
  <2>1. run[r].todo \in Seq(Events) /\ run[r].todo # <<>> /\ run[r].amount \in Nat
    BY <1>1 DEF IInv, RunInv, RunStates
  <2> DEFINE e == Head(run[r].todo)
  <2>2. e \in Events
    BY <2>1
  <2>3. released[e] + run[r].amount <= allocated[e]
    BY <1>1 DEF OnceInv, LockInv
  <2> HIDE DEF e
  <2>4. released[e] + run[r].amount <= allocated'[e]
    BY <2>1, <2>2, <2>3 DEF IInv, ReserveInv
  <2> QED BY <2>4 DEF e
<1>2. LockInv'
  BY <1>1 DEF OnceInv, LockInv, Active
<1>3. ReleasedOnce'
  BY DEF OnceInv, ReleasedOnce, IInv, ReserveInv
<1> QED BY <1>2, <1>3 DEF OnceInv

\* The other executions are where they were, and none of them is active while r is.
LEMMA Alone ==
    ASSUME OnceInv, NEW r \in Runs, Active(r)
    PROVE  \A q \in Runs : q # r => ~Active(q)
BY DEF OnceInv, LockInv

\* An execution moves, nothing is released.
LEMMA OnceMoves ==
    ASSUME IInv, OnceInv, NEW r \in Runs, NEW s,
           run' = [run EXCEPT ![r] = s], UNCHANGED <<allocated, released>>,
           lock'.stale = FALSE, s.at # "take over",
           s.at \in {"select", "scan", "release"} => lock'.by = r,
           s.at = "release" => released[Head(s.todo)] + s.amount
                                 <= allocated[Head(s.todo)],
           \A q \in Runs : q # r /\ Active(q) => lock'.by = q
    PROVE  OnceInv'
<1>1. run'[r] = s /\ \A q \in Runs : q # r => run'[q] = run[q]
  BY DEF IInv, RunInv
<1>2. LockInv'
  BY <1>1 DEF OnceInv, LockInv, Active
<1> QED BY <1>2 DEF OnceInv, ReleasedOnce

\* Every step keeps the lock's owner and the reserves, if the lock cannot lapse.
LEMMA OnceNext ==
    ASSUME ~LockLapses, IInv, OnceInv, [Next]_vars, IInv'
    PROVE  OnceInv'
<1>1. ASSUME NEW p \in Pays, ApplyPayment(p) PROVE OnceInv'
  <2>1. /\ UNCHANGED <<lock, run, released>>
        /\ allocated' = [allocated EXCEPT ![EventOf[p]] = @ + HeldPart(p)]
    BY <1>1 DEF ApplyPayment, CreditSplit
  <2>2. HeldPart(p) \in Nat
    BY SplitBound, WalletAssumption
  <2>3. \A e \in Events : allocated'[e] >= allocated[e]
    BY <2>1, <2>2 DEF IInv, ReserveInv
  <2> QED BY <2>1, <2>3, OnceKept DEF IInv
<1>2. CASE UNCHANGED <<lock, run, released, allocated>>
  <2>1. \A e \in Events : allocated'[e] >= allocated[e]
    BY <1>2 DEF IInv, ReserveInv
  <2> QED BY <1>2, <2>1, OnceKept DEF IInv
<1>3. ASSUME NEW r \in Runs, LookAtLock(r) PROVE OnceInv'
  <2>1. lock = NoLock
    BY <1>3 DEF LookAtLock, OnceInv, LockInv
  <2> DEFINE s == Run("create", <<>>, 0)
  <2>2. /\ run' = [run EXCEPT ![r] = s] /\ s.at = "create"
        /\ UNCHANGED <<lock, allocated, released>>
    BY <1>3, <2>1 DEF LookAtLock, Run, reserves
  <2> HIDE DEF s
  <2>3. \A q \in Runs : Active(q) => lock'.by = q
    BY <2>2 DEF OnceInv, LockInv
  <2> QED BY <2>2, <2>3, OnceMoves DEF OnceInv, LockInv
<1>4. ASSUME NEW r \in Runs, TakeLock(r) PROVE OnceInv'
  <2>1. run[r].at = "create" /\ UNCHANGED <<allocated, released>>
    BY <1>4 DEF TakeLock, OnceInv, LockInv, reserves
  <2>2. CASE lock = NoLock
    <3> DEFINE s == Run("select", <<>>, 0)
    <3>1. /\ run' = [run EXCEPT ![r] = s] /\ s.at = "select"
          /\ lock' = [by |-> r, stale |-> FALSE]
      BY <1>4, <2>1, <2>2 DEF TakeLock, Run
    <3>2. lock'.by = r /\ lock'.stale = FALSE
      BY <3>1
    <3> HIDE DEF s
    <3>3. \A q \in Runs : ~Active(q)
      BY <2>2, NoOwner DEF OnceInv, LockInv
    <3> QED BY <2>1, <3>1, <3>2, <3>3, OnceMoves
  <2>3. CASE lock # NoLock
    <3>1. run' = [run EXCEPT ![r] = NotRunning] /\ lock' = lock
      BY <1>4, <2>1, <2>3 DEF TakeLock
    <3>2. \A q \in Runs : Active(q) => lock'.by = q
      BY <3>1 DEF OnceInv, LockInv
    <3> QED BY <2>1, <3>1, <3>2, NotRunningFine, OnceMoves DEF OnceInv, LockInv
  <2> QED BY <2>2, <2>3
<1>5. ASSUME NEW r \in Runs, SelectMatured(r) PROVE OnceInv'
  <2> DEFINE s == Run("scan", SubSeq(closed, 1, Least(matured, Limit)), 0)
  <2>1. /\ run' = [run EXCEPT ![r] = s] /\ s.at = "scan" /\ run[r].at = "select"
        /\ UNCHANGED <<lock, allocated, released>>
    BY <1>5 DEF SelectMatured, Run, reserves
  <2> HIDE DEF s
  <2>2. \A q \in Runs : Active(q) => lock'.by = q
    BY <2>1 DEF OnceInv, LockInv
  <2>3. Active(r) /\ lock'.stale = FALSE
    BY <2>1 DEF Active, OnceInv, LockInv
  <2> QED BY <2>1, <2>2, <2>3, OnceMoves
<1>6. ASSUME NEW r \in Runs, NEW e \in Events, ReadReserve(r, e) PROVE OnceInv'
  <2> DEFINE x == allocated[e] - released[e]
             todo == run[r].todo
             s == IF allocated[e] > released[e] THEN Run("release", todo, x)
                  ELSE Run("scan", Tail(todo), 0)
  <2>1. /\ run' = [run EXCEPT ![r] = s] /\ e = Head(todo)
        /\ run[r].at = "scan" /\ UNCHANGED <<lock, allocated, released>>
    BY <1>6 DEF ReadReserve, reserves
  <2>2. /\ s.at \in {"scan", "release"}
        /\ s.at = "release" => s.todo = todo /\ s.amount = x
    BY DEF Run
  <2>3. released[e] + x <= allocated[e]
    BY DEF IInv, ReserveInv
  <2> HIDE DEF s, x, todo
  <2>4. \A q \in Runs : Active(q) => lock'.by = q
    BY <2>1 DEF OnceInv, LockInv
  <2>5. Active(r) /\ lock'.stale = FALSE
    BY <2>1 DEF Active, OnceInv, LockInv
  <2> QED BY <2>1, <2>2, <2>3, <2>4, <2>5, OnceMoves
<1>7. ASSUME NEW r \in Runs, ReleaseReserve(r) PROVE OnceInv'
  <2> DEFINE e == Head(run[r].todo)
             x == run[r].amount
             s == Run("scan", Tail(run[r].todo), 0)
  <2>1. /\ run[r].at = "release" /\ run' = [run EXCEPT ![r] = s] /\ s.at = "scan"
        /\ UNCHANGED <<lock, allocated>>
        /\ \/ released' = [released EXCEPT ![e] = @ + x]
           \/ released' = released
    BY <1>7 DEF ReleaseReserve, Run
  <2>2. released[e] + x <= allocated[e]
    BY <2>1 DEF OnceInv, LockInv
  <2>3. Active(r) /\ \A q \in Runs : q # r => ~Active(q)
    BY <2>1, Alone DEF Active
  <2> HIDE DEF e, x, s
  <2>4. ReleasedOnce'
    BY <2>1, <2>2 DEF OnceInv, ReleasedOnce, IInv, ReserveInv
  <2>5. run'[r] = s /\ \A q \in Runs : q # r => run'[q] = run[q]
    BY <2>1 DEF IInv, RunInv
  <2>6. LockInv'
    BY <2>1, <2>3, <2>5 DEF OnceInv, LockInv, Active
  <2> QED BY <2>4, <2>6 DEF OnceInv
<1>8. ASSUME NEW r \in Runs, FinishRun(r) PROVE OnceInv'
  <2>1. /\ run[r].at = "scan" /\ run' = [run EXCEPT ![r] = NotRunning]
        /\ UNCHANGED <<allocated, released>>
        /\ lock' \in {lock, NoLock}
    BY <1>8 DEF FinishRun, reserves
  <2>2. \A q \in Runs : q # r => ~Active(q)
    BY <2>1, Alone DEF Active
  <2>3. lock'.stale = FALSE
    BY <2>1, NoOwner DEF OnceInv, LockInv
  <2> QED BY <2>1, <2>2, <2>3, NotRunningFine, OnceMoves
<1>9. ASSUME NEW r \in Runs, RunCrash(r) PROVE OnceInv'
  <2>1. /\ run' = [run EXCEPT ![r] = NotRunning]
        /\ UNCHANGED <<lock, allocated, released>>
    BY <1>9 DEF RunCrash, reserves
  <2>2. \A q \in Runs : Active(q) => lock'.by = q
    BY <2>1 DEF OnceInv, LockInv
  <2> QED BY <2>1, <2>2, NotRunningFine, OnceMoves DEF OnceInv, LockInv
<1>10. \/ UNCHANGED <<lock, run, released, allocated>>
       \/ \E p \in Pays : ApplyPayment(p)
       \/ \E r \in Runs :
            \/ LookAtLock(r) \/ TakeLock(r) \/ SelectMatured(r) \/ ReleaseReserve(r)
            \/ FinishRun(r) \/ RunCrash(r)
            \/ \E e \in Events : ReadReserve(r, e)
  BY DEF Next, vars, AbandonPayment, RecoverPayment, ReopenPayment,
         RecoveryAborts, CloseEvent, Mature,
         LockExpires, CheckWithdrawal, DebitWithdrawal, OpenRequest, Transition,
         Reject, ReadVote, VaultVote, VoidUnpaid, ReadBalances, VoidPaid,
         DeskCrash, reserves
<1> QED
  BY <1>1, <1>2, <1>3, <1>4, <1>5, <1>6, <1>7, <1>8, <1>9, <1>10

\* While no execution outlives the lock's TTL, no reserve is released twice,
\* whatever executions start together or crash.
THEOREM OnceWhileLocked == ~LockLapses => (Spec => []ReleasedOnce)
<1> SUFFICES ASSUME ~LockLapses PROVE Spec => []ReleasedOnce
  OBVIOUS
<1>1. Init => OnceInv
  <2> SUFFICES ASSUME Init PROVE OnceInv
    OBVIOUS
  <2>1. LockInv
    BY NoOwner, NotRunningFine DEF Init, LockInv, Active
  <2>2. ReleasedOnce
    BY DEF Init, ReleasedOnce
  <2> QED BY <2>1, <2>2 DEF OnceInv
<1>2. IInv /\ IInv' /\ OnceInv /\ [Next]_vars => OnceInv'
  BY OnceNext
<1>3. OnceInv => ReleasedOnce
  BY DEF OnceInv
<1> QED BY <1>1, <1>2, <1>3, Invariance, PTL DEF Spec

=============================================================================
