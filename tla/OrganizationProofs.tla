------------------------- MODULE OrganizationProofs -------------------------
(***************************************************************************)
(* Proofs about PayoutNumber, Roster and Departures, which share nothing:  *)
(* for any numbers, requests, delay and clock; any candidates, ballots and *)
(* deletions; any members and operators. What each invariant adds is what  *)
(* a request between two of its statements may still assume.               *)
(***************************************************************************)
EXTENDS PayoutNumber, Roster, Departures, TLAPS

-----------------------------------------------------------------------------
(* The payout number: one in place whose delay is over has rested, which   *)
(* the tick that ends the delay records.                                   *)

InPlaceRested == poNumber # NoNumber /\ CooldownOver => poNumber \in poRested

PayoutInv == PoTypeOK /\ InPlaceRested /\ FrozenNumberRested

LEMMA PayoutInitInv == PoInit => PayoutInv
<1> USE DEF PoInit
<1>1. PoInit => PoTypeOK
  BY PayoutAssumption DEF PoTypeOK, PoRequests, PoStates, Times
<1> QED
  BY <1>1 DEF PayoutInv, InPlaceRested, FrozenNumberRested

\* The clock moves: the delay of the number in place may end.
LEMMA TickKeeps ==
    ASSUME PayoutInv, PoTick
    PROVE  PayoutInv'
<1>1. PoTypeOK'
  BY PayoutAssumption DEF PayoutInv, PoTypeOK, PoTick, Times
<1>2. InPlaceRested'
  BY DEF PoTick, InPlaceRested, CooldownOver
<1>3. FrozenNumberRested'
  BY DEF PayoutInv, FrozenNumberRested, PoTick
<1> QED
  BY <1>1, <1>2, <1>3 DEF PayoutInv

\* A number is given: its delay begins, since it is not zero.
LEMMA SetKeeps ==
    ASSUME PayoutInv, NEW n \in Numbers, SetForTenant(n)
    PROVE  PayoutInv'
<1>1. PoTypeOK'
  BY DEF PayoutInv, PoTypeOK, SetForTenant
<1>2. ~CooldownOver'
  BY PayoutAssumption DEF PayoutInv, PoTypeOK, SetForTenant, CooldownOver, Times
<1>3. FrozenNumberRested'
  BY DEF PayoutInv, FrozenNumberRested, SetForTenant
<1> QED
  BY <1>1, <1>2, <1>3 DEF PayoutInv, InPlaceRested

\* A request keeps the number it has frozen, takes the one in place, or none.
LEMMA RequestKeeps ==
    ASSUME PayoutInv, NEW w \in Withdrawals, NEW q \in PoRequests,
           UNCHANGED <<poClock, poNumber, poChanged, poRested>>,
           poRequests' = [poRequests EXCEPT ![w] = q],
           q.number \in poRested \cup {NoNumber}
    PROVE  PayoutInv'
<1>1. PoTypeOK'
  BY DEF PayoutInv, PoTypeOK
<1>2. InPlaceRested'
  BY DEF PayoutInv, InPlaceRested, CooldownOver
<1>3. FrozenNumberRested'
  BY DEF PayoutInv, PoTypeOK, FrozenNumberRested
<1> QED
  BY <1>1, <1>2, <1>3 DEF PayoutInv

LEMMA PayoutNextInv == PayoutInv /\ [PoNext]_poVars => PayoutInv'
<1> SUFFICES ASSUME PayoutInv, [PoNext]_poVars PROVE PayoutInv'
  OBVIOUS
<1>1. ASSUME NEW w \in Withdrawals PROVE
        /\ poRequests[w] \in PoRequests
        /\ poRequests[w].number \in poRested \cup {NoNumber}
  BY DEF PayoutInv, PoTypeOK, FrozenNumberRested
<1>2. ASSUME NEW w \in Withdrawals, ReadDestination(w) PROVE PayoutInv'
  <2> DEFINE q == [status |-> "read", number |-> poNumber]
  <2>1. q \in PoRequests /\ q.number \in poRested
    BY <1>2 DEF ReadDestination, PayoutInv, PoTypeOK, InPlaceRested, PoRequests, PoStates
  <2> QED
    BY <1>2, <2>1, RequestKeeps DEF ReadDestination
<1>3. ASSUME NEW w \in Withdrawals, RequestWithdrawal(w) PROVE PayoutInv'
  <2> DEFINE none == [status |-> "none", number |-> NoNumber]
             asked == [poRequests[w] EXCEPT !.status = "PENDING"]
  <2>1. none \in PoRequests /\ none.number = NoNumber
    BY DEF PoRequests, PoStates
  <2>2. asked \in PoRequests /\ asked.number \in poRested \cup {NoNumber}
    BY <1>1 DEF PoRequests, PoStates
  <2>3. \/ poRequests' = [poRequests EXCEPT ![w] = none]
        \/ poRequests' = [poRequests EXCEPT ![w] = asked]
    BY <1>3 DEF RequestWithdrawal
  <2> HIDE DEF none, asked
  <2> QED
    BY <1>3, <2>1, <2>2, <2>3, RequestKeeps DEF RequestWithdrawal
<1>4. ASSUME NEW w \in Withdrawals, NEW from, NEW to \in PoStates, Process(w, from, to)
      PROVE  PayoutInv'
  <2> DEFINE moved == [poRequests[w] EXCEPT !.status = to]
  <2>1. moved \in PoRequests /\ moved.number \in poRested \cup {NoNumber}
    BY <1>1 DEF PoRequests
  <2>2. poRequests' = [poRequests EXCEPT ![w] = moved]
    BY <1>4 DEF Process
  <2> HIDE DEF moved
  <2> QED
    BY <1>4, <2>1, <2>2, RequestKeeps DEF Process
<1>5. ASSUME UNCHANGED poVars PROVE PayoutInv'
  BY <1>5 DEF PayoutInv, PoTypeOK, InPlaceRested, CooldownOver, FrozenNumberRested, poVars
<1> QED
  BY <1>2, <1>3, <1>4, <1>5, TickKeeps, SetKeeps DEF PoNext, PoStates

\* Every variable keeps its type.
THEOREM PayoutTypes == PoSpec => []PoTypeOK
<1>1. PayoutInv => PoTypeOK
  BY DEF PayoutInv
<1> QED
  BY <1>1, PayoutInitInv, PayoutNextInv, PTL DEF PoSpec

\* No withdrawal goes to a number that was not in place for the whole delay.
THEOREM FrozenNumber == PoSpec => []FrozenNumberRested
<1>1. PayoutInv => FrozenNumberRested
  BY DEF PayoutInv
<1> QED
  BY <1>1, PayoutInitInv, PayoutNextInv, PTL DEF PoSpec

-----------------------------------------------------------------------------
(* The candidates and their ballots.                                       *)

\* What a ballot's request, vote and payment know of each other.
Sound(b) ==
    /\ roAsk[b] \in {"choosing", "topping"} => roVote[b].row = "none" /\ roPay[b] = "none"
    /\ roAsk[b] = "paying" \/ roPay[b] # "none" => roVote[b].row # "none"
    /\ roVote[b].row = "none" => ~roVote[b].cancelled
    /\ roVote[b].row = "paid" /\ ~roVote[b].cancelled => roPay[b] = "SUCCEEDED"
    /\ Exists(b) => roVote[b].choice \in roCandidates
    /\ b \notin roExcused /\ ~roVote[b].cancelled =>
          /\ roPay[b] = "PENDING" => Exists(b)
          /\ roPay[b] = "SUCCEEDED" => roVote[b].row = "paid"

\* The ballots that a deletion is about.
Concerns(d, b) == /\ b \notin roExcused /\ ~roVote[b].cancelled /\ Exists(b)
                  /\ roVote[b].choice = roDelete[d].candidate

\* What deletion d, past some of its statements, may still assume of b.
Checked(d, b) ==
    Concerns(d, b) =>
        /\ roDelete[d].at \in {"unpaid", "listed", "deleting"} => roVote[b].row # "paid"
        /\ roDelete[d].at \in {"listed", "deleting"} => b \in roDelete[d].votes
        /\ roDelete[d].at = "deleting" => roPay[b] # "PENDING"

RosterInv ==
    /\ RosterTypeOK
    /\ \A b \in Ballots : Sound(b)
    /\ \A d \in Deletions : \A b \in Ballots : Checked(d, b)

LEMMA RosterInitInv == RosterInit => RosterInv
<1> SUFFICES ASSUME RosterInit PROVE RosterInv
  OBVIOUS
<1>1. RosterTypeOK
  BY DEF RosterInit, RosterTypeOK, RoVotes, RoPayments, RoAsks, RoSteps, RoDeletes, NoDelete, Uncast
<1> QED
  BY <1>1 DEF RosterInit, RosterInv, Sound, Checked, Concerns, Exists, Uncast, NoDelete

\* A step about one ballot leaves the others as they are.
LEMMA OneBallot ==
    ASSUME RosterInv, NEW b \in Ballots, NEW v \in RoVotes, NEW p \in RoPayments, NEW a \in RoAsks,
           roVote' = [roVote EXCEPT ![b] = v], roPay' = [roPay EXCEPT ![b] = p],
           roAsk' = [roAsk EXCEPT ![b] = a],
           UNCHANGED <<roOpen, roCandidates, roDelete>>,
           roTaken' \subseteq Ballots, roLapsed' \subseteq Ballots,
           roExcused \subseteq roExcused', roExcused' \subseteq roExcused \cup {b},
           Sound(b)', \A d \in Deletions : Checked(d, b)'
    PROVE  RosterInv'
<1>1. RosterTypeOK'
  BY DEF RosterInv, RosterTypeOK
<1>2. ASSUME NEW x \in Ballots \ {b}
      PROVE  /\ roVote'[x] = roVote[x] /\ roPay'[x] = roPay[x] /\ roAsk'[x] = roAsk[x]
             /\ x \in roExcused' <=> x \in roExcused
  BY DEF RosterInv, RosterTypeOK
<1>3. ASSUME NEW x \in Ballots PROVE Sound(x)'
  BY <1>2 DEF RosterInv, Sound, Exists
<1>4. ASSUME NEW d \in Deletions, NEW x \in Ballots PROVE Checked(d, x)'
  BY <1>2 DEF RosterInv, Checked, Concerns, Exists
<1> QED
  BY <1>1, <1>3, <1>4 DEF RosterInv

\* RowFacts are functions of the ballots, and a field's change gives a row.
LEMMA RowFacts ==
    ASSUME RosterInv, NEW b \in Ballots
    PROVE  /\ roVote[b] \in RoVotes /\ roPay[b] \in RoPayments /\ roAsk[b] \in RoAsks
           /\ roVote = [roVote EXCEPT ![b] = roVote[b]]
           /\ roPay = [roPay EXCEPT ![b] = roPay[b]]
           /\ roAsk = [roAsk EXCEPT ![b] = roAsk[b]]
           /\ roTaken \subseteq Ballots /\ roLapsed \subseteq Ballots
           /\ Sound(b) /\ \A d \in Deletions : Checked(d, b)
  BY DEF RosterInv, RosterTypeOK

LEMMA AskKeeps ==
    ASSUME RosterInv, NEW b \in Ballots, NEW c \in Candidates, NEW asking \in {"choosing", "topping"},
           Ask(b, c, asking)
    PROVE  RosterInv'
<1> DEFINE v == [roVote[b] EXCEPT !.choice = c]
<1>1. v \in RoVotes /\ v.row = "none" /\ ~v.cancelled /\ asking \in RoAsks
  BY RowFacts DEF Ask, RoVotes, RoAsks, Sound
<1>2. roVote' = [roVote EXCEPT ![b] = v]
  BY DEF Ask
<1>3. roVote'[b] = v /\ roAsk'[b] = asking /\ roPay'[b] = roPay[b]
  BY <1>2 DEF Ask, RosterInv, RosterTypeOK
<1> HIDE DEF v
<1>4. Sound(b)' /\ \A d \in Deletions : Checked(d, b)'
  BY <1>1, <1>3, RowFacts DEF Sound, Checked, Concerns, Exists, Ask
<1> QED
  BY <1>1, <1>2, <1>4, RowFacts, OneBallot DEF Ask

LEMMA CastKeeps ==
    ASSUME RosterInv, NEW b \in Ballots, CastVote(b)
    PROVE  RosterInv'
<1>1. CASE roVote[b].choice \in roCandidates
  <2> DEFINE v == [roVote[b] EXCEPT !.row = "cast"]
             a == IF roAsk[b] = "topping" THEN "paying" ELSE "idle"
  <2>1. v \in RoVotes /\ v.row = "cast" /\ ~v.cancelled /\ v.choice = roVote[b].choice /\ a \in RoAsks
    BY RowFacts DEF CastVote, RoVotes, RoAsks, Sound
  <2>2. roVote' = [roVote EXCEPT ![b] = v] /\ roAsk' = [roAsk EXCEPT ![b] = a]
    BY <1>1 DEF CastVote
  <2>3. roVote'[b] = v /\ roAsk'[b] = a /\ roPay'[b] = roPay[b] /\ roPay[b] = "none"
    BY <2>2, RowFacts DEF CastVote, RosterInv, RosterTypeOK, Sound
  <2> HIDE DEF v
  <2>4. Sound(b)'
    BY <1>1, <2>1, <2>3 DEF Sound, Exists, CastVote
  <2>5. ASSUME NEW d \in Deletions PROVE Checked(d, b)'
    BY <1>1, <2>1, <2>3 DEF Checked, Concerns, Exists, CastVote, Overtakes
  <2> HIDE DEF a
  <2> QED
    BY <1>1, <2>1, <2>2, <2>4, <2>5, RowFacts, OneBallot DEF CastVote, Overtakes
<1>2. CASE roVote[b].choice \notin roCandidates
  <2>1. Uncast \in RoVotes /\ Uncast.row = "none" /\ ~Uncast.cancelled /\ "idle" \in RoAsks
    BY DEF Uncast, RoVotes, RoAsks
  <2>2. roVote'[b] = Uncast /\ roAsk'[b] = "idle" /\ roPay'[b] = roPay[b] /\ roPay[b] = "none"
    BY <1>2, RowFacts DEF CastVote, RosterInv, RosterTypeOK, Sound
  <2>3. Sound(b)' /\ \A d \in Deletions : Checked(d, b)'
    BY <2>1, <2>2 DEF Sound, Checked, Concerns, Exists
  <2> QED
    BY <1>2, <2>1, <2>3, RowFacts, OneBallot DEF CastVote
<1> QED
  BY <1>1, <1>2

LEMMA ReadVoteKeeps ==
    ASSUME RosterInv, NEW b \in Ballots, ReadVote(b)
    PROVE  RosterInv'
<1>1. "paying" \in RoAsks
  BY DEF RoAsks
<1>2. roVote'[b] = roVote[b] /\ roAsk'[b] = "paying" /\ roPay'[b] = roPay[b]
  BY DEF ReadVote, RosterInv, RosterTypeOK
<1>3. Sound(b)' /\ \A d \in Deletions : Checked(d, b)'
  BY <1>2, RowFacts DEF ReadVote, Sound, Checked, Concerns, Exists
<1> QED
  BY <1>1, <1>3, RowFacts, OneBallot DEF ReadVote

LEMMA CreatePaymentKeeps ==
    ASSUME RosterInv, NEW b \in Ballots, CreatePayment(b)
    PROVE  RosterInv'
<1>1. "idle" \in RoAsks /\ "PENDING" \in RoPayments
  BY DEF RoAsks, RoPayments
<1>2. roVote'[b] = roVote[b] /\ roAsk'[b] = "idle" /\ roPay'[b] = "PENDING"
  BY DEF CreatePayment, RosterInv, RosterTypeOK
<1>3. Sound(b)'
  BY <1>2, RowFacts DEF CreatePayment, Sound, Exists, Overtakes, RoVotes
<1>4. ASSUME NEW d \in Deletions PROVE Checked(d, b)'
  BY <1>2, RowFacts DEF CreatePayment, Checked, Concerns, Exists, Overtakes
<1> QED
  BY <1>1, <1>3, <1>4, RowFacts, OneBallot DEF CreatePayment, Overtakes

LEMMA GivesUpKeeps ==
    ASSUME RosterInv, NEW b \in Ballots, RosterGivesUp(b)
    PROVE  RosterInv'
<1> DEFINE v == IF roVote[b].row = "none" THEN Uncast ELSE roVote[b]
<1>1. v \in RoVotes /\ v.row = roVote[b].row /\ v.cancelled = roVote[b].cancelled
      /\ (v.row # "none" => v.choice = roVote[b].choice) /\ "idle" \in RoAsks
  BY RowFacts DEF Uncast, RoVotes, RoAsks, Sound
<1>2. roVote' = [roVote EXCEPT ![b] = v]
  BY RowFacts DEF RosterGivesUp
<1>3. roVote'[b] = v /\ roAsk'[b] = "idle" /\ roPay'[b] = roPay[b]
  BY <1>2 DEF RosterGivesUp, RosterInv, RosterTypeOK
<1> HIDE DEF v
<1>4. Sound(b)' /\ \A d \in Deletions : Checked(d, b)'
  BY <1>1, <1>3, RowFacts DEF RosterGivesUp, Sound, Checked, Concerns, Exists
<1> QED
  BY <1>1, <1>2, <1>4, RowFacts, OneBallot DEF RosterGivesUp

LEMMA TakesKeeps ==
    ASSUME RosterInv, NEW b \in Ballots, ProviderTakes(b)
    PROVE  RosterInv'
<1>1. roTaken' \subseteq Ballots
  BY RowFacts DEF ProviderTakes
<1>2. Sound(b)' /\ \A d \in Deletions : Checked(d, b)'
  BY RowFacts DEF ProviderTakes, Sound, Checked, Concerns, Exists
<1> QED
  BY <1>1, <1>2, RowFacts, OneBallot DEF ProviderTakes

LEMMA CountKeeps ==
    ASSUME RosterInv, NEW b \in Ballots, CountVote(b)
    PROVE  RosterInv'
<1> DEFINE v == [roVote[b] EXCEPT !.row = "paid"]
<1>1. v \in RoVotes /\ v.row = "paid" /\ v.cancelled = roVote[b].cancelled
      /\ v.choice = roVote[b].choice /\ "SUCCEEDED" \in RoPayments
  BY RowFacts DEF RoVotes, RoPayments
<1>2. roVote' = [roVote EXCEPT ![b] = v]
  BY DEF CountVote
<1>3. roVote'[b] = v /\ roAsk'[b] = roAsk[b] /\ roPay'[b] = "SUCCEEDED"
  BY <1>2 DEF CountVote, RosterInv, RosterTypeOK
<1> HIDE DEF v
<1>4. Sound(b)'
  BY <1>1, <1>3, RowFacts DEF CountVote, Sound, Exists
<1>5. ASSUME NEW d \in Deletions PROVE Checked(d, b)'
  BY <1>1, <1>3, RowFacts DEF CountVote, Checked, Concerns, Exists, Overtakes
<1> QED
  BY <1>1, <1>2, <1>4, <1>5, RowFacts, OneBallot DEF CountVote, Overtakes

LEMMA EndKeeps ==
    ASSUME RosterInv, NEW b \in Ballots, EndPayment(b)
    PROVE  RosterInv'
<1>1. "FAILED" \in RoPayments /\ roLapsed' \subseteq Ballots
  BY RowFacts DEF EndPayment, RoPayments
<1>2. roVote'[b] = roVote[b] /\ roAsk'[b] = roAsk[b] /\ roPay'[b] = "FAILED"
  BY DEF EndPayment, RosterInv, RosterTypeOK
<1>3. Sound(b)' /\ \A d \in Deletions : Checked(d, b)'
  BY <1>2, RowFacts DEF EndPayment, Sound, Checked, Concerns, Exists
<1> QED
  BY <1>1, <1>3, RowFacts, OneBallot DEF EndPayment

\* A recovery that takes or leaves a row changes nothing for the vote.
LEMMA RecoveryKeeps ==
    ASSUME RosterInv, NEW b \in Ballots, RecoverPayment(b) \/ RecoveryAborts(b)
    PROVE  RosterInv'
<1>1. PICK p \in {"held", "FAILED"} : roPay' = [roPay EXCEPT ![b] = p]
  BY DEF RecoverPayment, RecoveryAborts
<1>2. /\ roVote' = roVote /\ roAsk' = roAsk /\ roPay'[b] = p /\ p \in RoPayments
      /\ roPay[b] \in {"held", "FAILED"}
  BY <1>1 DEF RecoverPayment, RecoveryAborts, RosterInv, RosterTypeOK, RoPayments
<1>3. UNCHANGED <<roOpen, roCandidates, roDelete, roTaken, roLapsed, roExcused>>
  BY DEF RecoverPayment, RecoveryAborts
<1>4. Sound(b)'
  BY <1>2, <1>3, RowFacts DEF Sound, Exists
<1>5. ASSUME NEW d \in Deletions PROVE Checked(d, b)'
  BY <1>2, <1>3, RowFacts DEF Checked, Concerns, Exists
<1> QED
  BY <1>1, <1>2, <1>3, <1>4, <1>5, RowFacts, OneBallot

LEMMA ReopenKeeps ==
    ASSUME RosterInv, NEW b \in Ballots, ReopenPayment(b)
    PROVE  RosterInv'
<1>1. "PENDING" \in RoPayments
  BY DEF RoPayments
<1>2. roVote'[b] = roVote[b] /\ roAsk'[b] = roAsk[b] /\ roPay'[b] = "PENDING"
  BY DEF ReopenPayment, RosterInv, RosterTypeOK
<1>3. Sound(b)'
  BY <1>2, RowFacts DEF ReopenPayment, Sound, Exists, Overtakes, RoVotes
<1>4. ASSUME NEW d \in Deletions PROVE Checked(d, b)'
  BY <1>2, RowFacts DEF ReopenPayment, Checked, Concerns, Exists, Overtakes
<1> QED
  BY <1>1, <1>3, <1>4, RowFacts, OneBallot DEF ReopenPayment, Overtakes

LEMMA VoidKeeps ==
    ASSUME RosterInv, NEW b \in Ballots, VoidBallot(b)
    PROVE  RosterInv'
<1> DEFINE v == [roVote[b] EXCEPT !.cancelled = TRUE]
           p == IF roPay[b] \in {"PENDING", "SUCCEEDED"} THEN "VOIDED" ELSE roPay[b]
<1>1. v \in RoVotes /\ v.row = roVote[b].row /\ v.cancelled /\ v.choice = roVote[b].choice
      /\ p \in RoPayments /\ (p = "none" <=> roPay[b] = "none")
  BY RowFacts DEF RoVotes, RoPayments
<1>2. roVote' = [roVote EXCEPT ![b] = v] /\ roPay' = [roPay EXCEPT ![b] = p]
  BY DEF VoidBallot
<1>3. roVote'[b] = v /\ roAsk'[b] = roAsk[b] /\ roPay'[b] = p
  BY <1>2 DEF VoidBallot, RosterInv, RosterTypeOK
<1> HIDE DEF v, p
<1>4. Sound(b)' /\ \A d \in Deletions : Checked(d, b)'
  BY <1>1, <1>3, RowFacts DEF VoidBallot, Sound, Checked, Concerns, Exists
<1>5. UNCHANGED <<roOpen, roCandidates, roTaken, roLapsed, roAsk, roDelete, roExcused>>
  BY DEF VoidBallot
<1> QED
  BY <1>1, <1>2, <1>4, <1>5, RowFacts, OneBallot

\* A deletion moves on: the ballots stay, and what it has checked holds of them.
LEMMA OneDeletion ==
    ASSUME RosterInv, NEW d \in Deletions, NEW k \in RoDeletes,
           roDelete' = [roDelete EXCEPT ![d] = k],
           UNCHANGED <<roOpen, roCandidates, roVote, roPay, roTaken, roLapsed, roAsk, roExcused>>,
           \A b \in Ballots : Checked(d, b)'
    PROVE  RosterInv'
<1>1. RosterTypeOK'
  BY DEF RosterInv, RosterTypeOK
<1>2. ASSUME NEW x \in Ballots PROVE Sound(x)'
  BY DEF RosterInv, Sound, Exists
<1>3. ASSUME NEW e \in Deletions, NEW x \in Ballots PROVE Checked(e, x)'
  <2>1. CASE e # d
    <3>1. roDelete'[e] = roDelete[e]
      BY <2>1 DEF RosterInv, RosterTypeOK
    <3> QED
      BY <3>1 DEF RosterInv, Checked, Concerns, Exists
  <2> QED
    BY <2>1
<1> QED
  BY <1>1, <1>2, <1>3 DEF RosterInv

\* A deletion that begins or ends assumes nothing.
LEMMA FreshDeletion ==
    ASSUME RosterInv, NEW d \in Deletions, NEW k \in RoDeletes, k.at \in {"idle", "reading"},
           roDelete' = [roDelete EXCEPT ![d] = k],
           UNCHANGED <<roOpen, roCandidates, roVote, roPay, roTaken, roLapsed, roAsk, roExcused>>
    PROVE  RosterInv'
<1>1. roDelete'[d] = k
  BY DEF RosterInv, RosterTypeOK
<1>2. \A b \in Ballots : Checked(d, b)'
  BY <1>1 DEF Checked
<1> QED
  BY <1>2, OneDeletion

LEMMA NoDeleteType == NoDelete \in RoDeletes /\ NoDelete.at = "idle"
  BY DEF NoDelete, RoDeletes, RoSteps

LEMMA ReadDeletionKeeps ==
    ASSUME RosterInv, NEW d \in Deletions, NEW c \in Candidates, ReadForDeletion(d, c)
    PROVE  RosterInv'
<1> DEFINE k == [NoDelete EXCEPT !.at = "reading", !.candidate = c]
<1>1. k \in RoDeletes /\ k.at = "reading"
  BY DEF NoDelete, RoDeletes, RoSteps
<1> HIDE DEF k
<1>2. roDelete' = [roDelete EXCEPT ![d] = k]
  BY DEF ReadForDeletion, k
<1>3. UNCHANGED <<roOpen, roCandidates, roVote, roPay, roTaken, roLapsed, roAsk, roExcused>>
  BY DEF ReadForDeletion
<1> QED
  BY <1>1, <1>2, <1>3, FreshDeletion

LEMMA CountPaidKeeps ==
    ASSUME RosterInv, NEW d \in Deletions, CountPaidVotes(d)
    PROVE  RosterInv'
<1> DEFINE k == [roDelete[d] EXCEPT !.at = "unpaid"]
           c == roDelete[d].candidate
<1>1. UNCHANGED <<roOpen, roCandidates, roVote, roPay, roTaken, roLapsed, roAsk, roExcused>>
  BY DEF CountPaidVotes, DeleteStep
<1>2. CASE PaidVotes(c) = {}
  <2>1. k \in RoDeletes /\ k.at = "unpaid" /\ k.candidate = c
    BY DEF RosterInv, RosterTypeOK, RoDeletes, RoSteps
  <2>2. roDelete' = [roDelete EXCEPT ![d] = k]
    BY <1>2 DEF CountPaidVotes, DeleteStep
  <2>3. roDelete'[d] = k
    BY <2>2 DEF RosterInv, RosterTypeOK
  <2> HIDE DEF k
  <2>4. ASSUME NEW b \in Ballots PROVE Checked(d, b)'
    BY <1>1, <1>2, <2>1, <2>3 DEF Checked, Concerns, Exists, PaidVotes, VotesOf
  <2> HIDE DEF c
  <2> QED
    BY <1>1, <2>1, <2>2, <2>4, OneDeletion
<1>3. CASE PaidVotes(c) # {}
  <2>1. roDelete' = [roDelete EXCEPT ![d] = NoDelete]
    BY <1>3 DEF CountPaidVotes, DeleteStep
  <2> QED
    BY <1>1, <2>1, NoDeleteType, FreshDeletion
<1> QED
  BY <1>2, <1>3

LEMMA ListKeeps ==
    ASSUME RosterInv, NEW d \in Deletions, ListVotes(d)
    PROVE  RosterInv'
<1> DEFINE c == roDelete[d].candidate
           k == [roDelete[d] EXCEPT !.at = "listed", !.votes = VotesOf(c)]
<1>1. UNCHANGED <<roOpen, roCandidates, roVote, roPay, roTaken, roLapsed, roAsk, roExcused>>
  BY DEF ListVotes
<1>2. k \in RoDeletes /\ k.at = "listed" /\ k.candidate = c /\ k.votes = VotesOf(c)
  BY DEF RosterInv, RosterTypeOK, RoDeletes, RoSteps, VotesOf
<1>3. roDelete' = [roDelete EXCEPT ![d] = k]
  BY DEF ListVotes, RosterInv, RosterTypeOK
<1>4. roDelete'[d] = k
  BY <1>3 DEF RosterInv, RosterTypeOK
<1> HIDE DEF k
<1>5. ASSUME NEW b \in Ballots PROVE Checked(d, b)'
  <2>1. Checked(d, b)
    BY DEF RosterInv
  <2> QED
    BY <1>1, <1>2, <1>4, <2>1 DEF Checked, Concerns, Exists, VotesOf, ListVotes
<1> HIDE DEF c
<1> QED
  BY <1>1, <1>2, <1>3, <1>5, OneDeletion

LEMMA CountPendingKeeps ==
    ASSUME RosterInv, NEW d \in Deletions, CountPendingPayments(d)
    PROVE  RosterInv'
<1> DEFINE k == [roDelete[d] EXCEPT !.at = "deleting"]
           clear == \A b \in roDelete[d].votes : roPay[b] # "PENDING"
<1>1. UNCHANGED <<roOpen, roCandidates, roVote, roPay, roTaken, roLapsed, roAsk, roExcused>>
  BY DEF CountPendingPayments, DeleteStep
<1>2. CASE clear
  <2>1. /\ k \in RoDeletes /\ k.at = "deleting" /\ k.candidate = roDelete[d].candidate
        /\ k.votes = roDelete[d].votes
    BY DEF RosterInv, RosterTypeOK, RoDeletes, RoSteps
  <2>2. roDelete' = [roDelete EXCEPT ![d] = k]
    BY <1>2 DEF CountPendingPayments, DeleteStep
  <2>3. roDelete'[d] = k
    BY <2>2 DEF RosterInv, RosterTypeOK
  <2> HIDE DEF k
  <2>4. ASSUME NEW b \in Ballots PROVE Checked(d, b)'
    <3>1. Checked(d, b)
      BY DEF RosterInv
    <3> QED
      BY <1>1, <1>2, <2>1, <2>3, <3>1 DEF Checked, Concerns, Exists, CountPendingPayments, DeleteStep
  <2> QED
    BY <1>1, <2>1, <2>2, <2>4, OneDeletion
<1>3. CASE ~clear
  <2>1. roDelete' = [roDelete EXCEPT ![d] = NoDelete]
    BY <1>3 DEF CountPendingPayments, DeleteStep
  <2> QED
    BY <1>1, <2>1, NoDeleteType, FreshDeletion
<1> QED
  BY <1>2, <1>3

\* The votes that go with the candidate are unpaid and have no payment under way.
LEMMA DeleteKeeps ==
    ASSUME RosterInv, NEW d \in Deletions, DeleteCandidate(d)
    PROVE  RosterInv'
<1> DEFINE c == roDelete[d].candidate
<1>1. ASSUME NEW b \in Ballots
      PROVE  /\ b \in VotesOf(c) => roVote'[b] = [roVote[b] EXCEPT !.row = "gone"]
             /\ b \notin VotesOf(c) => roVote'[b] = roVote[b]
  BY DEF DeleteCandidate
<1>2. RosterTypeOK'
  <2>1. ASSUME NEW b \in Ballots PROVE [roVote[b] EXCEPT !.row = "gone"] \in RoVotes
    BY DEF RosterInv, RosterTypeOK, RoVotes
  <2>2. roVote' \in [Ballots -> RoVotes]
    BY <2>1 DEF RosterInv, RosterTypeOK, DeleteCandidate
  <2> QED
    BY <2>2, NoDeleteType DEF RosterInv, RosterTypeOK, DeleteCandidate
<1>3. ASSUME NEW b \in Ballots PROVE Sound(b)'
  <2>1. Sound(b) /\ Checked(d, b) /\ roVote[b] \in RoVotes
    BY DEF RosterInv, RosterTypeOK
  <2>2. UNCHANGED <<roPay, roAsk, roExcused>> /\ roCandidates' = roCandidates \ {c}
    BY DEF DeleteCandidate
  <2>3. CASE b \in VotesOf(c)
    <3>1. /\ roVote'[b].row = "gone" /\ roVote'[b].cancelled = roVote[b].cancelled
          /\ Exists(b) /\ roVote[b].choice = c
      BY <1>1, <2>1, <2>3 DEF VotesOf, RoVotes
    <3> QED
      BY <2>1, <2>2, <3>1 DEF Sound, Checked, Concerns, Exists, DeleteCandidate
  <2>4. CASE b \notin VotesOf(c)
    <3>1. roVote'[b] = roVote[b] /\ (Exists(b) => roVote[b].choice # c)
      BY <1>1, <2>4 DEF VotesOf
    <3> QED
      BY <2>1, <2>2, <3>1 DEF Sound, Exists
  <2> QED
    BY <2>3, <2>4
<1>4. ASSUME NEW e \in Deletions, NEW b \in Ballots PROVE Checked(e, b)'
  <2>1. Checked(e, b) /\ roVote[b] \in RoVotes
    BY DEF RosterInv, RosterTypeOK
  <2>2. roDelete'[e] = NoDelete \/ roDelete'[e] = roDelete[e]
    BY DEF RosterInv, RosterTypeOK, DeleteCandidate
  <2>3. CASE b \in VotesOf(c)
    <3>1. roVote'[b].row = "gone"
      BY <1>1, <2>1, <2>3 DEF RoVotes
    <3> QED
      BY <3>1 DEF Checked, Concerns, Exists
  <2>4. CASE b \notin VotesOf(c)
    BY <1>1, <2>1, <2>2, <2>4, NoDeleteType DEF Checked, Concerns, Exists, DeleteCandidate
  <2> QED
    BY <2>3, <2>4
<1> QED
  BY <1>2, <1>3, <1>4 DEF RosterInv

LEMMA CandidatesKeep ==
    ASSUME RosterInv, CloseContest \/ \E c \in Candidates : CreateCandidate(c)
    PROVE  RosterInv'
<1>1. /\ UNCHANGED <<roVote, roPay, roTaken, roLapsed, roAsk, roDelete, roExcused>>
      /\ roCandidates \subseteq roCandidates'
  BY DEF CloseContest, CreateCandidate
<1>2. RosterTypeOK'
  BY DEF RosterInv, RosterTypeOK, CloseContest, CreateCandidate
<1>3. ASSUME NEW b \in Ballots PROVE Sound(b)'
  BY <1>1 DEF RosterInv, Sound, Exists
<1>4. ASSUME NEW d \in Deletions, NEW b \in Ballots PROVE Checked(d, b)'
  BY <1>1 DEF RosterInv, Checked, Concerns, Exists
<1> QED
  BY <1>2, <1>3, <1>4 DEF RosterInv

LEMMA RosterNextInv == RosterInv /\ [RosterNext]_roVars => RosterInv'
<1> SUFFICES ASSUME RosterInv, [RosterNext]_roVars PROVE RosterInv'
  OBVIOUS
<1>1. ASSUME NEW b \in Ballots, NEW c \in Candidates, ReadCandidate(b, c) \/ ReadForTopup(b, c)
      PROVE  RosterInv'
  BY <1>1, AskKeeps DEF ReadCandidate, ReadForTopup
<1>2. ASSUME NEW b \in Ballots,
             \/ CastVote(b) \/ ReadVote(b) \/ CreatePayment(b) \/ RosterGivesUp(b)
             \/ ProviderTakes(b) \/ CountVote(b) \/ EndPayment(b) \/ VoidBallot(b)
             \/ RecoverPayment(b) \/ ReopenPayment(b) \/ RecoveryAborts(b)
      PROVE  RosterInv'
  BY <1>2, CastKeeps, ReadVoteKeeps, CreatePaymentKeeps, GivesUpKeeps, TakesKeeps, CountKeeps,
     EndKeeps, RecoveryKeeps, ReopenKeeps, VoidKeeps
<1>3. ASSUME NEW d \in Deletions, DeletionStops(d) PROVE RosterInv'
  BY <1>3, NoDeleteType, FreshDeletion DEF DeletionStops, DeleteStep
<1>4. ASSUME NEW d \in Deletions,
             \/ CountPaidVotes(d) \/ ListVotes(d) \/ CountPendingPayments(d)
             \/ DeleteCandidate(d) \/ \E c \in Candidates : ReadForDeletion(d, c)
      PROVE  RosterInv'
  BY <1>4, CountPaidKeeps, ListKeeps, CountPendingKeeps, DeleteKeeps, ReadDeletionKeeps
<1>5. ASSUME UNCHANGED roVars PROVE RosterInv'
  BY <1>5 DEF roVars, RosterInv, RosterTypeOK, Sound, Checked, Concerns, Exists
<1> QED
  BY <1>1, <1>2, <1>3, <1>4, <1>5, CandidatesKeep DEF RosterNext

\* Whatever candidates are deleted, for any ballots and requests: a payment under
\* way has its vote and a successful one is ranked, but for the named exceptions.
THEOREM VotesKept == RosterSpec => []MoneyKeepsItsVote
<1>1. RosterInv => MoneyKeepsItsVote
  <2> SUFFICES ASSUME RosterInv, NEW b \in Ballots
               PROVE  /\ b \in Ranked(roVote[b].choice) => roPay[b] = "SUCCEEDED"
                      /\ b \notin roExcused /\ ~roVote[b].cancelled =>
                            /\ roPay[b] = "PENDING" => Exists(b)
                            /\ roPay[b] = "SUCCEEDED" => b \in Ranked(roVote[b].choice)
    BY DEF MoneyKeepsItsVote
  <2> QED
    BY RowFacts DEF Sound, Exists, Ranked, VotesOf
<1> QED
  BY <1>1, RosterInitInv, RosterNextInv, PTL DEF RosterSpec

\* Candidates, ballots, payments and deletions keep their types.
THEOREM RosterTypes == RosterSpec => []RosterTypeOK
<1>1. RosterInv => RosterTypeOK
  BY DEF RosterInv
<1> QED
  BY <1>1, RosterInitInv, RosterNextInv, PTL DEF RosterSpec

-----------------------------------------------------------------------------
(* The members who leave.                                                  *)

\* Nothing is left for an owner to do.
NothingLeft == ~dpBalance /\ dpEvent # "ACTIVE" /\ dpWithdrawal \notin {"PENDING", "APPROVED"}
Ownerless   == dpOrg /\ LivingOwner = {} => NothingLeft

\* What an owner who leaves has read still holds.
LeaveSeen(m) ==
    dpLeave[m].at = "checking" /\ dpLeave[m].role = "OWNER" =>
        \A check \in ErasureChecks \ dpLeave[m].left : Clear(check)

\* What a deletion has counted still holds.
DeleteSeen(k) ==
    LET m == dpDelete[k].target IN
    dpOrg /\ dpDelete[k].at # "idle" =>
        /\ m \in Members /\ dpDelete[k].role = dpRole[m]
        /\ dpDelete[k].at = "found" => ~dpDelete[k].whole
        /\ dpDelete[k].at = "sole" => dpDelete[k].whole
        /\ dpDelete[k].whole => AccountRows \subseteq {m}
        /\ dpDelete[k].at = "sure" /\ dpDelete[k].whole => dpEvent = "none"
        /\ dpDelete[k].at = "sure" /\ ~dpDelete[k].whole /\ dpDelete[k].role = "OWNER" =>
              \E o \in AccountRows \ {m} : dpRole[o] = "OWNER"

Unexcused ==
    /\ Ownerless /\ dpDestroyed = {}
    /\ \A m \in Members : LeaveSeen(m)
    /\ \A k \in Operators : DeleteSeen(k)

DepartureInv == DepartureTypeOK /\ (dpReasons = {} => Unexcused)

USE DEF dpTeam, dpTrade

LEMMA DepartureInitInv == DepartureInit => DepartureInv
<1> SUFFICES ASSUME DepartureInit PROVE DepartureInv
  OBVIOUS
<1>1. DepartureTypeOK
  BY DEF DepartureInit, DepartureTypeOK, DpStates, DpRoles, DpEvents, DpPays, DpDraws, DpLeaves,
         DpDeletes, Staying, NoTarget, ErasureChecks
<1>2. Ownerless
  BY DEF DepartureInit, Ownerless, NothingLeft
<1> QED
  BY <1>1, <1>2 DEF DepartureInit, DepartureInv, Unexcused, LeaveSeen, DeleteSeen, Staying, NoTarget

\* A step that a departure under way would have as a reason needs no more than its effect.
LEMMA Recorded ==
    ASSUME DepartureInv, DepartureTypeOK',
           UNCHANGED <<dpLeave, dpDelete, dpDestroyed>>,
           dpReasons' = {} => dpReasons = {} /\ ~Leaving /\ Ownerless'
    PROVE  DepartureInv'
<1> SUFFICES ASSUME dpReasons' = {} PROVE Unexcused'
  BY DEF DepartureInv
<1>1. \A m \in Members : LeaveSeen(m)'
  BY DEF LeaveSeen, Leaving, DepartureTypeOK, DpLeaves, DepartureInv
<1>2. \A k \in Operators : DeleteSeen(k)'
  BY DEF DeleteSeen, Leaving
<1> QED
  BY <1>1, <1>2 DEF DepartureInv, Unexcused

\* The steps of the organization's life, each of which is a reason while someone leaves.
LEMMA LifeKeeps ==
    ASSUME DepartureInv, NEW m \in Members,
           \/ \E role \in DpRoles : Join(m, role)
           \/ CreateDraft(m) \/ SignContest(m) \/ RequestPayout(m)
    PROVE  DepartureInv'
<1>1. CASE \E role \in DpRoles : Join(m, role)
  <2>1. PICK role \in DpRoles : Join(m, role)
    BY <1>1
  <2>2. DepartureTypeOK'
    BY <2>1 DEF Join, Overtaken, DepartureInv, DepartureTypeOK, DpStates
  <2>3. dpReasons' = {} => dpReasons = {} /\ ~Leaving
    BY <2>1 DEF Join, Overtaken
  <2>4. LivingOwner \subseteq LivingOwner'
    BY <2>1 DEF Join, LivingOwner, DepartureInv, DepartureTypeOK
  <2>5. dpReasons' = {} => Ownerless'
    BY <2>1, <2>3, <2>4 DEF DepartureInv, Unexcused, Ownerless, NothingLeft, Join
  <2> QED
    BY <2>1, <2>2, <2>3, <2>5, Recorded DEF Join
<1>2. CASE CreateDraft(m)
  <2>1. DepartureTypeOK'
    BY <1>2 DEF CreateDraft, Overtaken, DepartureInv, DepartureTypeOK, DpEvents
  <2>2. dpReasons' = {} => dpReasons = {} /\ ~Leaving
    BY <1>2 DEF CreateDraft, Overtaken
  <2>3. dpReasons' = {} => Ownerless'
    BY <1>2, <2>2 DEF DepartureInv, Unexcused, Ownerless, NothingLeft, CreateDraft, LivingOwner
  <2> QED
    BY <1>2, <2>1, <2>2, <2>3, Recorded DEF CreateDraft
<1>3. CASE SignContest(m)
  <2>1. DepartureTypeOK'
    BY <1>3 DEF SignContest, Overtaken, DepartureInv, DepartureTypeOK, DpEvents
  <2>2. dpReasons' = {} => dpReasons = {} /\ ~Leaving
    BY <1>3 DEF SignContest, Overtaken
  <2>3. m \in LivingOwner'
    BY <1>3 DEF SignContest, MayEngage, MayAct, LivingOwner
  <2>4. Ownerless'
    BY <2>3 DEF Ownerless
  <2> QED
    BY <1>3, <2>1, <2>2, <2>4, Recorded DEF SignContest
<1>4. CASE RequestPayout(m)
  <2>1. DepartureTypeOK'
    BY <1>4 DEF RequestPayout, Overtaken, DepartureInv, DepartureTypeOK, DpDraws
  <2>2. dpReasons' = {} => dpReasons = {} /\ ~Leaving
    BY <1>4 DEF RequestPayout, Overtaken
  <2>3. m \in LivingOwner'
    BY <1>4 DEF RequestPayout, MayEngage, MayAct, LivingOwner
  <2>4. Ownerless'
    BY <2>3 DEF Ownerless
  <2> QED
    BY <1>4, <2>1, <2>2, <2>4, Recorded DEF RequestPayout
<1> QED
  BY <1>1, <1>2, <1>3, <1>4

\* A withdrawal that nobody could follow is not moved, as there is none.
LEMMA PayoutKeeps ==
    ASSUME DepartureInv, NEW from \in {"PENDING", "APPROVED"}, NEW to \in DpDraws, ProcessPayout(from, to)
    PROVE  DepartureInv'
<1>1. DepartureTypeOK'
  BY DEF ProcessPayout, Overtaken, DepartureInv, DepartureTypeOK
<1>2. dpReasons' = {} => dpReasons = {} /\ ~Leaving
  BY DEF ProcessPayout, Overtaken
<1>3. dpReasons' = {} => Ownerless'
  BY <1>2 DEF DepartureInv, Unexcused, Ownerless, NothingLeft, ProcessPayout, LivingOwner
<1> QED
  BY <1>1, <1>2, <1>3, Recorded DEF ProcessPayout

\* A role changes: the only owner keeps theirs, or there is a reason.
LEMMA UpdateKeeps ==
    ASSUME DepartureInv, NEW m \in Members, NEW role \in DpRoles, UpdateUser(m, role)
    PROVE  DepartureInv'
<1>1. DepartureTypeOK'
  BY DEF UpdateUser, Tracks, DepartureInv, DepartureTypeOK
<1>2. dpReasons' = {} =>
        /\ dpReasons = {} /\ ~Leaving
        /\ ~(m \in LivingOwner /\ role # "OWNER" /\ LivingOwner = {m})
  BY DEF UpdateUser, Tracks
<1>3. ASSUME NEW o \in Members, o # m PROVE o \in LivingOwner <=> o \in LivingOwner'
  BY <1>3 DEF UpdateUser, LivingOwner, DepartureInv, DepartureTypeOK
<1>4. role = "OWNER" /\ m \in LivingOwner => m \in LivingOwner'
  BY DEF UpdateUser, LivingOwner, DepartureInv, DepartureTypeOK
<1>5. dpReasons' = {} => (LivingOwner' = {} => LivingOwner = {})
  BY <1>2, <1>3, <1>4 DEF LivingOwner
<1>6. dpReasons' = {} => Ownerless'
  BY <1>2, <1>5 DEF DepartureInv, Unexcused, Ownerless, NothingLeft, UpdateUser
<1> QED
  BY <1>1, <1>2, <1>6, Recorded DEF UpdateUser

\* The contest goes on and ends without anyone of the organization.
LEMMA ContestKeeps ==
    ASSUME DepartureInv, EndContest \/ StartPayment \/ ResolvePayment("FAILED")
    PROVE  DepartureInv'
<1>1. DepartureTypeOK'
  BY DEF EndContest, StartPayment, ResolvePayment, DepartureInv, DepartureTypeOK, DpEvents, DpPays
<1>2. /\ UNCHANGED <<dpTeam, dpWithdrawal, dpLeave, dpDelete, dpDestroyed, dpReasons>>
      /\ dpBalance' = dpBalance
      /\ dpEvent' = dpEvent \/ (dpEvent = "ACTIVE" /\ dpEvent' = "CLOSED")
  BY DEF EndContest, StartPayment, ResolvePayment, DepartureInv, DepartureTypeOK
<1> SUFFICES ASSUME Unexcused PROVE Unexcused'
  BY <1>1, <1>2 DEF DepartureInv
<1>3. Ownerless'
  BY <1>2 DEF Unexcused, Ownerless, NothingLeft, LivingOwner
<1>4. ASSUME NEW m \in Members PROVE LeaveSeen(m)'
  BY <1>2 DEF Unexcused, LeaveSeen, Clear, ErasureChecks
<1>5. ASSUME NEW k \in Operators PROVE DeleteSeen(k)'
  BY <1>2 DEF Unexcused, DeleteSeen, AccountRows
<1> QED
  BY <1>2, <1>3, <1>4, <1>5 DEF Unexcused

\* Money comes in: someone may withdraw it, or there is a reason.
LEMMA SuccessKeeps ==
    ASSUME DepartureInv, ResolvePayment("SUCCEEDED")
    PROVE  DepartureInv'
<1>1. DepartureTypeOK'
  BY DEF ResolvePayment, Tracks, DepartureInv, DepartureTypeOK, DpPays
<1>2. dpReasons' = {} => dpReasons = {} /\ ~Leaving /\ LivingOwner # {}
  BY DEF ResolvePayment, Tracks
<1>3. LivingOwner' = LivingOwner
  BY DEF ResolvePayment, LivingOwner
<1>4. dpReasons' = {} => Ownerless'
  BY <1>2, <1>3 DEF Ownerless
<1> QED
  BY <1>1, <1>2, <1>4, Recorded DEF ResolvePayment

-----------------------------------------------------------------------------
(* The account that is erased.                                             *)

LEMMA AskErasureKeeps ==
    ASSUME DepartureInv, NEW m \in Members, AskErasure(m)
    PROVE  DepartureInv'
<1> DEFINE leave == [at |-> "checking", role |-> dpRole[m],
                     left |-> IF dpRole[m] = "OWNER" THEN ErasureChecks ELSE {}]
<1>1. /\ leave \in DpLeaves /\ leave.role = dpRole[m]
      /\ dpRole[m] = "OWNER" => leave.left = ErasureChecks
  BY DEF DepartureInv, DepartureTypeOK, DpLeaves
<1>2. dpLeave' = [dpLeave EXCEPT ![m] = leave]
  BY DEF AskErasure
<1> HIDE DEF leave
<1>3. DepartureTypeOK'
  BY <1>1, <1>2 DEF AskErasure, DepartureInv, DepartureTypeOK
<1> SUFFICES ASSUME Unexcused PROVE Unexcused'
  BY <1>3 DEF DepartureInv, AskErasure
<1>4. Ownerless' /\ dpDestroyed' = {}
  BY DEF Unexcused, Ownerless, NothingLeft, LivingOwner, AskErasure
<1>5. ASSUME NEW o \in Members PROVE LeaveSeen(o)'
  <2>1. CASE o = m
    <3>1. dpLeave'[o] = leave
      BY <1>2, <2>1 DEF DepartureInv, DepartureTypeOK
    <3> QED
      BY <1>1, <3>1 DEF LeaveSeen
  <2>2. CASE o # m
    <3>1. dpLeave'[o] = dpLeave[o]
      BY <1>2, <2>2 DEF DepartureInv, DepartureTypeOK
    <3> QED
      BY <3>1 DEF Unexcused, LeaveSeen, Clear, AskErasure
  <2> QED
    BY <2>1, <2>2
<1>6. ASSUME NEW k \in Operators PROVE DeleteSeen(k)'
  BY DEF Unexcused, DeleteSeen, AccountRows, AskErasure
<1> QED
  BY <1>4, <1>5, <1>6 DEF Unexcused

LEMMA CheckErasureKeeps ==
    ASSUME DepartureInv, NEW m \in Members, NEW check \in ErasureChecks, CheckErasure(m, check)
    PROVE  DepartureInv'
<1> DEFINE leave == IF Clear(check) THEN [dpLeave[m] EXCEPT !.left = dpLeave[m].left \ {check}] ELSE Staying
<1>1. dpLeave[m] \in DpLeaves
  BY DEF DepartureInv, DepartureTypeOK
<1>2. /\ leave \in DpLeaves
      /\ leave.at = "checking" => /\ Clear(check)
                                 /\ dpLeave[m].at = "checking" /\ leave.role = dpLeave[m].role
                                 /\ leave.left = dpLeave[m].left \ {check}
  BY <1>1 DEF DpLeaves, Staying, DpRoles
<1>3. dpLeave' = [dpLeave EXCEPT ![m] = leave]
  BY DEF CheckErasure
<1> HIDE DEF leave
<1>4. DepartureTypeOK'
  BY <1>2, <1>3 DEF CheckErasure, DepartureInv, DepartureTypeOK
<1> SUFFICES ASSUME Unexcused PROVE Unexcused'
  BY <1>4 DEF DepartureInv, CheckErasure
<1>5. Ownerless' /\ dpDestroyed' = {}
  BY DEF Unexcused, Ownerless, NothingLeft, LivingOwner, CheckErasure
<1>6. ASSUME NEW c \in ErasureChecks, Clear(c) PROVE Clear(c)'
  BY <1>6 DEF CheckErasure, Clear
<1>7. ASSUME NEW o \in Members PROVE LeaveSeen(o)'
  <2>1. LeaveSeen(o)
    BY DEF Unexcused
  <2>2. CASE o = m
    <3>1. dpLeave'[o] = leave
      BY <1>3, <2>2 DEF DepartureInv, DepartureTypeOK
    <3> QED
      BY <1>2, <1>6, <2>1, <2>2, <3>1 DEF LeaveSeen
  <2>3. CASE o # m
    <3>1. dpLeave'[o] = dpLeave[o]
      BY <1>3, <2>3 DEF DepartureInv, DepartureTypeOK
    <3> QED
      BY <1>6, <2>1, <3>1 DEF LeaveSeen
  <2> QED
    BY <2>2, <2>3
<1>8. ASSUME NEW k \in Operators PROVE DeleteSeen(k)'
  BY DEF Unexcused, DeleteSeen, AccountRows, CheckErasure
<1> QED
  BY <1>5, <1>7, <1>8 DEF Unexcused

\* An owner who leaves has seen that nothing is left; another member is no owner.
LEMMA EraseKeeps ==
    ASSUME DepartureInv, NEW m \in Members, EraseAccount(m)
    PROVE  DepartureInv'
<1>1. Staying \in DpLeaves /\ Staying.at = "idle"
  BY DEF Staying, DpLeaves, DpRoles
<1>2. DepartureTypeOK'
  BY <1>1 DEF EraseAccount, DepartureInv, DepartureTypeOK, DpStates
<1>3. dpReasons' = {} => dpReasons = {} /\ dpLeave[m].role = dpRole[m]
  BY DEF EraseAccount
<1> SUFFICES ASSUME Unexcused, dpLeave[m].role = dpRole[m] PROVE Unexcused'
  BY <1>2, <1>3 DEF DepartureInv
<1>4. AccountRows' = AccountRows
  BY DEF EraseAccount, AccountRows, DepartureInv, DepartureTypeOK
<1>5. Ownerless'
  <2>1. CASE dpRole[m] = "OWNER"
    <3>1. \A check \in ErasureChecks : Clear(check)
      BY <2>1 DEF Unexcused, LeaveSeen, EraseAccount
    <3>2. NothingLeft
      BY <3>1 DEF NothingLeft, Clear, ErasureChecks
    <3> QED
      BY <3>2 DEF Ownerless, NothingLeft, EraseAccount
  <2>2. CASE dpRole[m] # "OWNER"
    <3>1. LivingOwner' = LivingOwner
      BY <2>2 DEF LivingOwner, EraseAccount, DepartureInv, DepartureTypeOK
    <3> QED
      BY <3>1 DEF Unexcused, Ownerless, NothingLeft, EraseAccount
  <2> QED
    BY <2>1, <2>2
<1>6. ASSUME NEW o \in Members PROVE LeaveSeen(o)'
  <2>1. dpLeave'[o] = Staying \/ dpLeave'[o] = dpLeave[o]
    BY DEF EraseAccount, DepartureInv, DepartureTypeOK
  <2> QED
    BY <1>1, <2>1 DEF Unexcused, LeaveSeen, Clear, EraseAccount
<1>7. ASSUME NEW k \in Operators PROVE DeleteSeen(k)'
  BY <1>4 DEF Unexcused, DeleteSeen, EraseAccount
<1>8. dpDestroyed' = {}
  BY DEF Unexcused, EraseAccount
<1> QED
  BY <1>5, <1>6, <1>7, <1>8 DEF Unexcused

-----------------------------------------------------------------------------
(* The account that is deleted.                                            *)

\* A deletion reads: it knows what it has just counted.
LEMMA DeletionReads ==
    ASSUME DepartureInv, NEW k \in Operators, NEW q \in DpDeletes,
           dpDelete' = [dpDelete EXCEPT ![k] = q],
           UNCHANGED <<dpTeam, dpTrade, dpLeave, dpReasons, dpDestroyed>>,
           Unexcused => DeleteSeen(k)'
    PROVE  DepartureInv'
<1>1. DepartureTypeOK'
  BY DEF DepartureInv, DepartureTypeOK
<1> SUFFICES ASSUME Unexcused PROVE Unexcused'
  BY <1>1 DEF DepartureInv
<1>2. Ownerless' /\ dpDestroyed' = {}
  BY DEF Unexcused, Ownerless, NothingLeft, LivingOwner
<1>3. ASSUME NEW m \in Members PROVE LeaveSeen(m)'
  BY DEF Unexcused, LeaveSeen, Clear
<1>4. ASSUME NEW o \in Operators PROVE DeleteSeen(o)'
  <2>1. CASE o # k
    <3>1. dpDelete'[o] = dpDelete[o]
      BY <2>1 DEF DepartureInv, DepartureTypeOK
    <3> QED
      BY <3>1 DEF Unexcused, DeleteSeen, AccountRows
  <2> QED
    BY <2>1
<1> QED
  BY <1>2, <1>3, <1>4 DEF Unexcused

LEMMA NoTargetType == NoTarget \in DpDeletes /\ NoTarget.at = "idle"
  BY DEF NoTarget, DpDeletes, DpRoles

LEMMA GivenUp ==
    ASSUME DepartureInv, NEW k \in Operators, dpDelete' = [dpDelete EXCEPT ![k] = NoTarget],
           UNCHANGED <<dpTeam, dpTrade, dpLeave, dpReasons, dpDestroyed>>
    PROVE  DepartureInv'
<1>1. dpDelete'[k] = NoTarget
  BY DEF DepartureInv, DepartureTypeOK
<1>2. DeleteSeen(k)'
  BY <1>1, NoTargetType DEF DeleteSeen
<1> QED
  BY <1>2, NoTargetType, DeletionReads

LEMMA FindKeeps ==
    ASSUME DepartureInv, NEW k \in Operators, NEW m \in Members, FindTarget(k, m)
    PROVE  DepartureInv'
<1> DEFINE q == [at |-> "found", target |-> m, role |-> dpRole[m], whole |-> FALSE]
<1>1. q \in DpDeletes /\ q.at = "found" /\ q.target = m /\ q.role = dpRole[m] /\ ~q.whole
  BY DEF DepartureInv, DepartureTypeOK, DpDeletes
<1>2. dpDelete' = [dpDelete EXCEPT ![k] = q]
  BY DEF FindTarget
<1> HIDE DEF q
<1>3. dpDelete'[k] = q
  BY <1>2 DEF DepartureInv, DepartureTypeOK
<1>4. DeleteSeen(k)'
  BY <1>1, <1>3 DEF DeleteSeen, FindTarget
<1> QED
  BY <1>1, <1>2, <1>4, DeletionReads DEF FindTarget

LEMMA CountOthersKeeps ==
    ASSUME DepartureInv, NEW k \in Operators, CountOthers(k)
    PROVE  DepartureInv'
<1> DEFINE m == dpDelete[k].target
           role == dpDelete[k].role
           sole == [dpDelete[k] EXCEPT !.at = "sole", !.whole = TRUE]
           sure == [dpDelete[k] EXCEPT !.at = "sure"]
<1>1. dpDelete[k] \in DpDeletes /\ dpDelete[k].at = "found"
  BY DEF CountOthers, DepartureInv, DepartureTypeOK
<1>2. UNCHANGED <<dpTeam, dpTrade, dpLeave, dpReasons, dpDestroyed>>
  BY DEF CountOthers
<1>3. CASE ~MayDelete(m, role)
  BY <1>2, <1>3, GivenUp DEF CountOthers
<1>4. CASE MayDelete(m, role) /\ AccountRows \subseteq {m}
  <2>1. /\ sole \in DpDeletes /\ sole.at = "sole" /\ sole.target = m /\ sole.role = role
        /\ sole.whole
    BY <1>1 DEF DpDeletes
  <2>2. dpDelete' = [dpDelete EXCEPT ![k] = sole]
    BY <1>4 DEF CountOthers
  <2> HIDE DEF sole
  <2>3. dpDelete'[k] = sole
    BY <2>2 DEF DepartureInv, DepartureTypeOK
  <2>4. ASSUME Unexcused PROVE DeleteSeen(k)'
    BY <1>1, <1>2, <1>4, <2>1, <2>3, <2>4 DEF Unexcused, DeleteSeen, AccountRows
  <2> QED
    BY <1>2, <2>1, <2>2, <2>4, DeletionReads
<1>5. CASE MayDelete(m, role) /\ ~(AccountRows \subseteq {m})
  <2>1. /\ sure \in DpDeletes /\ sure.at = "sure" /\ sure.target = m /\ sure.role = role
        /\ sure.whole = dpDelete[k].whole
    BY <1>1 DEF DpDeletes
  <2>2. dpDelete' = [dpDelete EXCEPT ![k] = sure]
    BY <1>5 DEF CountOthers
  <2> HIDE DEF sure
  <2>3. dpDelete'[k] = sure
    BY <2>2 DEF DepartureInv, DepartureTypeOK
  <2>4. ASSUME Unexcused PROVE DeleteSeen(k)'
    BY <1>1, <1>2, <1>5, <2>1, <2>3, <2>4 DEF Unexcused, DeleteSeen, AccountRows, MayDelete
  <2> QED
    BY <1>2, <2>1, <2>2, <2>4, DeletionReads
<1> QED
  BY <1>3, <1>4, <1>5

LEMMA CountActivityKeeps ==
    ASSUME DepartureInv, NEW k \in Operators, CountActivity(k)
    PROVE  DepartureInv'
<1> DEFINE sure == [dpDelete[k] EXCEPT !.at = "sure"]
<1>1. dpDelete[k] \in DpDeletes /\ dpDelete[k].at = "sole"
  BY DEF CountActivity, DepartureInv, DepartureTypeOK
<1>2. UNCHANGED <<dpTeam, dpTrade, dpLeave, dpReasons, dpDestroyed>>
  BY DEF CountActivity
<1>3. \/ dpDelete' = [dpDelete EXCEPT ![k] = NoTarget]
      \/ dpDelete' = [dpDelete EXCEPT ![k] = sure] /\ dpEvent = "none"
  BY DEF CountActivity
<1>4. /\ sure \in DpDeletes /\ sure.at = "sure" /\ sure.target = dpDelete[k].target
      /\ sure.role = dpDelete[k].role /\ sure.whole = dpDelete[k].whole
  BY <1>1 DEF DpDeletes
<1> HIDE DEF sure
<1>5. CASE dpDelete' = [dpDelete EXCEPT ![k] = sure] /\ dpEvent = "none"
  <2>1. dpDelete'[k] = sure
    BY <1>5 DEF DepartureInv, DepartureTypeOK
  <2>2. ASSUME Unexcused PROVE DeleteSeen(k)'
    BY <1>1, <1>2, <1>4, <1>5, <2>1, <2>2 DEF Unexcused, DeleteSeen, AccountRows
  <2> QED
    BY <1>2, <1>4, <1>5, <2>2, DeletionReads
<1> QED
  BY <1>2, <1>3, <1>5, GivenUp

\* An owner who is deleted was not the last one who lives, or there is a reason.
LEMMA RemoveUserKeeps ==
    ASSUME DepartureInv, NEW k \in Operators, RemoveUser(k)
    PROVE  DepartureInv'
<1> DEFINE m == dpDelete[k].target
<1>1. DepartureTypeOK'
  BY NoTargetType DEF RemoveUser, DepartureInv, DepartureTypeOK, DpStates
<1>2. dpReasons' = {} =>
        /\ dpReasons = {}
        /\ ~(LivingOwner = {m} /\ \E o \in AccountRows \ {m} : dpRole[o] = "OWNER")
        /\ \A o \in Operators \ {k} : dpDelete[o].at = "idle"
  BY DEF RemoveUser
<1> SUFFICES ASSUME dpReasons' = {}, Unexcused PROVE Unexcused'
  BY <1>1, <1>2 DEF DepartureInv
<1>3. m \in Members /\ dpMember' = [dpMember EXCEPT ![m] = "removed"]
  BY DEF RemoveUser, AccountRows
<1>4. Ownerless'
  <2> SUFFICES ASSUME dpOrg, LivingOwner' = {} PROVE NothingLeft'
    BY DEF Ownerless, RemoveUser
  <2>1. LivingOwner \subseteq {m}
    BY <1>3 DEF LivingOwner, RemoveUser, DepartureInv, DepartureTypeOK
  <2>2. LivingOwner = {m} => \E o \in AccountRows \ {m} : dpRole[o] = "OWNER"
    BY DEF Unexcused, DeleteSeen, RemoveUser, LivingOwner
  <2>3. LivingOwner = {}
    BY <1>2, <2>1, <2>2
  <2> QED
    BY <2>3 DEF Unexcused, Ownerless, NothingLeft, RemoveUser
<1>5. ASSUME NEW o \in Members PROVE LeaveSeen(o)'
  BY DEF Unexcused, LeaveSeen, Clear, RemoveUser
<1>6. ASSUME NEW o \in Operators PROVE DeleteSeen(o)'
  <2>1. dpDelete'[o].at = "idle"
    BY <1>2, NoTargetType DEF RemoveUser, DepartureInv, DepartureTypeOK
  <2> QED
    BY <2>1 DEF DeleteSeen
<1>7. dpDestroyed' = {}
  BY DEF Unexcused, RemoveUser
<1> QED
  BY <1>4, <1>5, <1>6, <1>7 DEF Unexcused

\* An organization that is deleted held nobody else, and no contest.
LEMMA RemoveTenantKeeps ==
    ASSUME DepartureInv, NEW k \in Operators, RemoveTenant(k)
    PROVE  DepartureInv'
<1>1. DepartureTypeOK'
  BY NoTargetType DEF RemoveTenant, DepartureInv, DepartureTypeOK, DpStates, DpEvents
<1> SUFFICES ASSUME Unexcused PROVE Unexcused'
  BY <1>1 DEF DepartureInv, RemoveTenant
<1>2. Ownerless'
  BY DEF Ownerless, RemoveTenant
<1>3. dpDestroyed' = {}
  BY DEF Unexcused, DeleteSeen, RemoveTenant
<1>4. ASSUME NEW o \in Members PROVE LeaveSeen(o)'
  BY DEF Unexcused, LeaveSeen, Clear, RemoveTenant
<1>5. ASSUME NEW o \in Operators PROVE DeleteSeen(o)'
  BY DEF DeleteSeen, RemoveTenant
<1> QED
  BY <1>2, <1>3, <1>4, <1>5 DEF Unexcused

LEMMA DepartureNextInv == DepartureInv /\ [DepartureNext]_dpVars => DepartureInv'
<1> SUFFICES ASSUME DepartureInv, [DepartureNext]_dpVars PROVE DepartureInv'
  OBVIOUS
<1>1. ASSUME NEW m \in Members, NEW check \in ErasureChecks,
             AskErasure(m) \/ CheckErasure(m, check) \/ EraseAccount(m)
      PROVE  DepartureInv'
  BY <1>1, AskErasureKeeps, CheckErasureKeeps, EraseKeeps
<1>2. ASSUME NEW status \in {"SUCCEEDED", "FAILED"}, ResolvePayment(status) PROVE DepartureInv'
  BY <1>2, ContestKeeps, SuccessKeeps
<1>3. ASSUME NEW to \in {"APPROVED", "REJECTED"}, ProcessPayout("PENDING", to) PROVE DepartureInv'
  BY <1>3, PayoutKeeps DEF DpDraws
<1>4. ASSUME ProcessPayout("APPROVED", "PAID") PROVE DepartureInv'
  BY <1>4, PayoutKeeps DEF DpDraws
<1>5. ASSUME NEW k \in Operators, NEW m \in Members, FindTarget(k, m) PROVE DepartureInv'
  BY <1>5, FindKeeps
<1>6. ASSUME NEW k \in Operators,
             \/ CountOthers(k) \/ CountActivity(k) \/ RemoveUser(k) \/ RemoveTenant(k)
             \/ DeletionFails(k)
      PROVE  DepartureInv'
  BY <1>6, CountOthersKeeps, CountActivityKeeps, RemoveUserKeeps, RemoveTenantKeeps, GivenUp
     DEF DeletionFails
<1>7. ASSUME UNCHANGED dpVars PROVE DepartureInv'
  BY <1>7 DEF dpVars, DepartureInv, DepartureTypeOK, Unexcused, Ownerless, NothingLeft, LivingOwner,
              LeaveSeen, Clear, DeleteSeen, AccountRows
<1>8. ASSUME NEW m \in Members, AskErasure(m) \/ EraseAccount(m) PROVE DepartureInv'
  BY <1>8, AskErasureKeeps, EraseKeeps
<1> QED
  BY <1>1, <1>2, <1>3, <1>4, <1>5, <1>6, <1>7, <1>8, LifeKeeps, UpdateKeeps, ContestKeeps
     DEF DepartureNext

\* For any members and operators: but for the named reasons, no money and no
\* contest is left without an owner, and nothing goes with a deleted organization.
THEOREM NobodyLeftBehind == DepartureSpec => []NobodyAbandoned
<1>1. DepartureInv => NobodyAbandoned
  BY DEF DepartureInv, Unexcused, Ownerless, NothingLeft, NobodyAbandoned
<1> QED
  BY <1>1, DepartureInitInv, DepartureNextInv, PTL DEF DepartureSpec

\* Members, money, contest and departures keep their types.
THEOREM DepartureTypes == DepartureSpec => []DepartureTypeOK
<1>1. DepartureInv => DepartureTypeOK
  BY DEF DepartureInv
<1> QED
  BY <1>1, DepartureInitInv, DepartureNextInv, PTL DEF DepartureSpec
=============================================================================
