---------------------------- MODULE ClientProofs ----------------------------
(***************************************************************************)
(* Proofs about what a client does again or late: PayinReplay (the same    *)
(* payment asked for by several calls), TicketEditor and PaymentTracking   *)
(* (the two state machines of the web pages), for any calls, keys, votes,  *)
(* designs, history, payments, polls and limits.                           *)
(***************************************************************************)
EXTENDS PayinReplay, TicketEditor, PaymentTracking, SequenceTheorems,
        FiniteSetTheorems, TLAPS

-----------------------------------------------------------------------------
(* The same payment, asked for again.                                      *)

\* What a call holds, of the keys and rows given: the payload of its key before
\* it has a row, then the row of its vote, and the reference to bind or bound.
WithRow == {"trigger", "send", "bind", "push", "unsent"}
CallOk(c, keys, rows) ==
    c # NoCall =>
        /\ c.at \in {"count", "createRow"} => keys[c.key] = c.vote
        /\ c.at \in WithRow => c.row \in DOMAIN rows /\ rows[c.row].vote = c.vote
        /\ c.at \in {"bind", "push"} => c.ref # NoRef
        /\ c.at = "push" => rows[c.row].ref = c.ref

KeyInv  == repKeys \in [Keys -> RepVotes \cup {NoVote}]
CallInv == /\ repCalls \in [RepRequests -> Calls]
           /\ \A r \in RepRequests : CallOk(repCalls[r], repKeys, repRows)

\* A row is of the vote its key was created for, and the only one of its vote.
RowInv ==
    /\ repRows \in Seq(RepRows)
    /\ \A i \in DOMAIN repRows : repKeys[repRows[i].key] = repRows[i].vote
    /\ \A i, j \in DOMAIN repRows : repRows[i].vote = repRows[j].vote => i = j

\* FedaPay prompts for the reference that the row of the vote carries.
PromptInv ==
    repProvider = "FEDAPAY" =>
        \A p \in repPrompts :
            /\ p.ref # NoRef
            /\ \E i \in DOMAIN repRows : repRows[i].vote = p.vote /\ repRows[i].ref = p.ref

SendsInv == repSends \in Refs

RepInv == KeyInv /\ CallInv /\ RowInv /\ PromptInv

\* What no step undoes: a key that was created, a row and its reference.
KeysStay == \A k \in Keys : repKeys[k] # NoVote => repKeys'[k] = repKeys[k]
RowsStay ==
    \A i \in DOMAIN repRows :
        /\ i \in DOMAIN repRows'
        /\ repRows'[i].vote = repRows[i].vote
        /\ repRows[i].ref # NoRef => repRows'[i].ref = repRows[i].ref

CallRecords == [at : RepSteps, key : Keys, vote : RepVotes, row : Nat, ref : Refs]

-----------------------------------------------------------------------------
LEMMA RepInitInv == RepInit => RepInv
<1> SUFFICES ASSUME RepInit PROVE RepInv
  OBVIOUS
<1>1. NoCall \in Calls
  BY DEF Calls, NoCall
<1>2. CallInv
  BY <1>1 DEF RepInit, CallInv, CallOk
<1>3. KeyInv /\ PromptInv
  BY DEF RepInit, KeyInv, PromptInv
<1>4. RowInv
  BY DEF RepInit, RowInv
<1> QED
  BY <1>2, <1>3, <1>4 DEF RepInv

\* A call that is not the null one is a record of its fields.
LEMMA CallFields ==
    ASSUME RepInv, NEW r \in RepRequests, repCalls[r] # NoCall
    PROVE  /\ repCalls[r] \in CallRecords
           /\ repCalls[r].key \in Keys /\ repCalls[r].vote \in RepVotes
           /\ repCalls[r].row \in Nat /\ repCalls[r].ref \in Refs
           /\ CallOk(repCalls[r], repKeys, repRows)
<1>1. repCalls[r] \in CallRecords
  BY DEF RepInv, CallInv, Calls, CallRecords, NoCall
<1>2. ASSUME NEW c \in CallRecords
      PROVE  c.key \in Keys /\ c.vote \in RepVotes /\ c.row \in Nat /\ c.ref \in Refs
  BY DEF CallRecords
<1> QED
  BY <1>1, <1>2 DEF RepInv, CallInv

\* The next statement of a call, with what it held.
LEMMA NextStatement ==
    ASSUME NEW c \in CallRecords, NEW step \in RepSteps
    PROVE  LET next == [c EXCEPT !.at = step]
           IN  /\ next \in Calls /\ next.at = step
               /\ next.key = c.key /\ next.vote = c.vote /\ next.row = c.row /\ next.ref = c.ref
  BY DEF CallRecords, Calls

\* What the other calls hold is kept.
LEMMA StepKeeps ==
    ASSUME RepInv, NEW r \in RepRequests, NEW q \in Calls,
           repCalls' = [repCalls EXCEPT ![r] = q],
           KeyInv', RowInv', PromptInv', KeysStay, RowsStay,
           CallOk(q, repKeys', repRows')
    PROVE  RepInv'
<1>1. repCalls' \in [RepRequests -> Calls]
  BY DEF RepInv, CallInv
<1>2. ASSUME NEW s \in RepRequests, s # r, repCalls[s] # NoCall
      PROVE  CallOk(repCalls[s], repKeys', repRows')
  <2> DEFINE c == repCalls[s]
  <2>1. c.key \in Keys /\ c.vote \in RepVotes /\ CallOk(c, repKeys, repRows)
    BY <1>2, CallFields
  <2> HIDE DEF c
  <2> SUFFICES ASSUME c # NoCall
               PROVE  /\ c.at \in {"count", "createRow"} => repKeys'[c.key] = c.vote
                      /\ c.at \in WithRow => c.row \in DOMAIN repRows' /\ repRows'[c.row].vote = c.vote
                      /\ c.at \in {"bind", "push"} => c.ref # NoRef
                      /\ c.at = "push" => repRows'[c.row].ref = c.ref
    BY DEF CallOk, c
  <2>2. c.at \in {"count", "createRow"} => repKeys'[c.key] = c.vote
    BY <2>1, ReplayAssumption DEF CallOk, KeysStay
  <2>3. c.at \in WithRow => c.row \in DOMAIN repRows' /\ repRows'[c.row].vote = c.vote
    BY <2>1 DEF CallOk, RowsStay
  <2>4. c.at \in {"bind", "push"} => c.ref # NoRef
    BY <2>1 DEF CallOk
  <2>5. c.at = "push" => repRows'[c.row].ref = c.ref
    BY <2>1 DEF CallOk, RowsStay, WithRow
  <2> QED
    BY <2>2, <2>3, <2>4, <2>5
<1>3. ASSUME NEW s \in RepRequests PROVE CallOk(repCalls'[s], repKeys', repRows')
  <2>1. CASE s = r
    BY <2>1 DEF RepInv, CallInv
  <2>2. CASE s # r
    <3>1. repCalls'[s] = repCalls[s]
      BY <2>2 DEF RepInv, CallInv
    <3>2. CASE repCalls[s] = NoCall
      BY <3>1, <3>2 DEF CallOk
    <3>3. CASE repCalls[s] # NoCall
      BY <1>2, <2>2, <3>1, <3>3
    <3> QED
      BY <3>2, <3>3
  <2> QED
    BY <2>1, <2>2
<1> QED
  BY <1>1, <1>3 DEF RepInv, CallInv

\* A statement that writes no row and no key, and shows no prompt.
LEMMA CallMoves ==
    ASSUME RepInv, NEW r \in RepRequests, NEW q \in Calls,
           repCalls' = [repCalls EXCEPT ![r] = q],
           UNCHANGED <<repProvider, repKeys, repRows>>,
           repPrompts' = repPrompts \/ repProvider # "FEDAPAY",
           CallOk(q, repKeys, repRows)
    PROVE  RepInv'
<1>1. KeyInv' /\ RowInv' /\ PromptInv'
  BY DEF RepInv, KeyInv, RowInv, PromptInv
<1>2. KeysStay /\ RowsStay
  BY DEF KeysStay, RowsStay
<1> QED
  BY <1>1, <1>2, StepKeeps

LEMMA CallOver ==
    ASSUME RepInv, NEW r \in RepRequests, CallEnds(r),
           UNCHANGED <<repProvider, repKeys, repRows, repPrompts>>
    PROVE  RepInv'
<1>1. NoCall \in Calls /\ CallOk(NoCall, repKeys, repRows)
  BY DEF Calls, NoCall, CallOk
<1>2. repCalls' = [repCalls EXCEPT ![r] = NoCall]
  BY DEF CallEnds
<1> QED
  BY <1>1, <1>2, CallMoves

\* One row takes another status, or its first reference.
LEMMA RowWritten ==
    ASSUME RepInv, NEW r \in RepRequests, NEW q \in Calls,
           repCalls' = [repCalls EXCEPT ![r] = q],
           UNCHANGED <<repProvider, repKeys, repPrompts>>,
           NEW i \in DOMAIN repRows, NEW row \in RepRows,
           repRows' = [repRows EXCEPT ![i] = row],
           row.key = repRows[i].key, row.vote = repRows[i].vote,
           repRows[i].ref # NoRef => row.ref = repRows[i].ref,
           CallOk(q, repKeys, repRows')
    PROVE  RepInv'
<1>1. repRows \in Seq(RepRows)
  BY DEF RepInv, RowInv
<1>2. repRows' \in Seq(RepRows) /\ DOMAIN repRows' = DOMAIN repRows
  BY <1>1, ExceptSeq
<1>3. /\ repRows'[i] = row
      /\ \A j \in DOMAIN repRows : j # i => repRows'[j] = repRows[j]
  BY <1>1
<1>4. \A j \in DOMAIN repRows :
        /\ repRows'[j].key = repRows[j].key /\ repRows'[j].vote = repRows[j].vote
        /\ repRows[j].ref # NoRef => repRows'[j].ref = repRows[j].ref
  BY <1>3
<1>5. KeyInv' /\ RowInv'
  BY <1>2, <1>4 DEF RepInv, KeyInv, RowInv
<1>6. PromptInv'
  BY <1>2, <1>4 DEF RepInv, PromptInv
<1>7. KeysStay /\ RowsStay
  BY <1>2, <1>4 DEF KeysStay, RowsStay
<1> QED
  BY <1>5, <1>6, <1>7, StepKeeps

-----------------------------------------------------------------------------
\* A call up to its row.
LEMMA OpeningKeeps ==
    ASSUME RepInv, NEW r \in RepRequests,
           \/ \E k \in Keys, v \in RepVotes : InitPublicPayment(r, k, v)
           \/ FindKey(r) \/ CreateKey(r) \/ CountRequests(r) \/ CreateRow(r)
    PROVE  RepInv'
<1> DEFINE c == repCalls[r]
           To(step) == [c EXCEPT !.at = step]
<1>1. ASSUME NEW k \in Keys, NEW v \in RepVotes, InitPublicPayment(r, k, v) PROVE RepInv'
  <2> DEFINE new == [at |-> "find", key |-> k, vote |-> v, row |-> 0, ref |-> NoRef]
  <2>1. new \in Calls /\ new.at = "find"
    BY ReplayAssumption DEF Calls, RepSteps, Refs, NoRef
  <2>2. CallOk(new, repKeys, repRows)
    BY <2>1 DEF CallOk, WithRow
  <2> HIDE DEF new
  <2> QED
    BY <1>1, <2>1, <2>2, CallMoves DEF InitPublicPayment, new
<1>2. ASSUME c # NoCall, NEW step \in RepSteps
      PROVE  /\ To(step) \in Calls /\ To(step).at = step
             /\ To(step).key = c.key /\ To(step).vote = c.vote
             /\ To(step).row = c.row /\ To(step).ref = c.ref
  BY <1>2, CallFields, NextStatement
<1>3. \A step : CallGoes(r, step) => repCalls' = [repCalls EXCEPT ![r] = To(step)]
  BY DEF CallGoes
<1> HIDE DEF To
<1>4. CASE FindKey(r)
  <2>1. c # NoCall
    BY <1>4 DEF FindKey, Calling
  <2>2. ASSUME CallGoes(r, "createKey") PROVE RepInv'
    <3>1. "createKey" \in RepSteps
      BY DEF RepSteps
    <3>2. CallOk(To("createKey"), repKeys, repRows)
      BY <2>1, <3>1, <1>2 DEF CallOk, WithRow
    <3> QED
      BY <1>4, <2>1, <2>2, <3>1, <3>2, <1>2, <1>3, CallMoves DEF FindKey
  <2>3. ASSUME repKeys[c.key] = c.vote, CallGoes(r, "count") PROVE RepInv'
    <3>1. "count" \in RepSteps
      BY DEF RepSteps
    <3>2. CallOk(To("count"), repKeys, repRows)
      BY <2>1, <2>3, <3>1, <1>2 DEF CallOk, WithRow
    <3> QED
      BY <1>4, <2>1, <2>3, <3>1, <3>2, <1>2, <1>3, CallMoves DEF FindKey
  <2>4. ASSUME repKeys[c.key] = c.vote, NEW i \in RowsWith(c.key),
               repCalls' = [repCalls EXCEPT ![r].at = "trigger", ![r].row = i]
        PROVE  RepInv'
    <3> DEFINE got == [c EXCEPT !.at = "trigger", !.row = i]
    <3>1. i \in DOMAIN repRows /\ repRows[i].key = c.key /\ i \in Nat
      BY <2>4 DEF RowsWith, RepInv, RowInv
    <3>2. repRows[i].vote = c.vote
      BY <2>4, <3>1 DEF RepInv, RowInv
    <3>3. c \in CallRecords
      BY <2>1, CallFields
    <3>4. got \in Calls /\ got.at = "trigger" /\ got.row = i /\ got.vote = c.vote
      BY <3>1, <3>3 DEF CallRecords, Calls, RepSteps
    <3>5. repCalls' = [repCalls EXCEPT ![r] = got]
      BY <2>4, <1>4 DEF RepInv, CallInv
    <3> HIDE DEF got
    <3>6. CallOk(got, repKeys, repRows)
      BY <3>1, <3>2, <3>4 DEF CallOk, WithRow
    <3> QED
      BY <1>4, <3>4, <3>5, <3>6, CallMoves DEF FindKey
  <2>5. ASSUME CallEnds(r) PROVE RepInv'
    BY <1>4, <2>5, CallOver DEF FindKey
  <2> QED
    BY <1>4, <2>2, <2>3, <2>4, <2>5 DEF FindKey
<1>5. CASE CreateKey(r)
  <2>1. c # NoCall /\ c.key \in Keys /\ c.vote \in RepVotes
    BY <1>5, CallFields DEF CreateKey, Calling
  <2>2. CASE repKeys[c.key] = NoVote
    <3>1. /\ repKeys' = [repKeys EXCEPT ![c.key] = c.vote] /\ CallGoes(r, "count")
          /\ UNCHANGED <<repProvider, repRows, repPrompts>>
      BY <1>5, <2>2 DEF CreateKey
    <3>2. KeyInv' /\ KeysStay /\ repKeys'[c.key] = c.vote
      BY <2>1, <2>2, <3>1 DEF RepInv, KeyInv, KeysStay
    <3>3. \A i \in DOMAIN repRows : repRows[i].key \in Keys /\ repRows[i].vote \in RepVotes
      <4> SUFFICES ASSUME NEW i \in DOMAIN repRows
                   PROVE  repRows[i].key \in Keys /\ repRows[i].vote \in RepVotes
        OBVIOUS
      <4>1. repRows[i] \in RepRows
        BY DEF RepInv, RowInv
      <4> QED
        BY <4>1 DEF RepRows
    <3>4. RowInv'
      BY <3>1, <3>2, <3>3, ReplayAssumption DEF RepInv, RowInv, KeysStay
    <3>5. PromptInv' /\ RowsStay
      BY <3>1 DEF RepInv, PromptInv, RowsStay
    <3>6. "count" \in RepSteps
      BY DEF RepSteps
    <3>7. CallOk(To("count"), repKeys', repRows')
      BY <1>2, <2>1, <3>2, <3>6 DEF CallOk, WithRow
    <3> QED
      BY <1>2, <1>3, <2>1, <3>1, <3>2, <3>4, <3>5, <3>6, <3>7, StepKeeps
  <2>3. CASE repKeys[c.key] # NoVote
    BY <1>5, <2>3, CallOver DEF CreateKey
  <2> QED
    BY <2>2, <2>3
<1>6. CASE CountRequests(r)
  <2>1. c # NoCall /\ repKeys[c.key] = c.vote
    BY <1>6, CallFields DEF CountRequests, Calling, CallOk
  <2>2. "createRow" \in RepSteps
    BY DEF RepSteps
  <2>3. CallOk(To("createRow"), repKeys, repRows)
    BY <1>2, <2>1, <2>2 DEF CallOk, WithRow
  <2>4. CallGoes(r, "createRow") \/ CallEnds(r)
    BY <1>6 DEF CountRequests
  <2> QED
    BY <1>2, <1>3, <1>6, <2>1, <2>2, <2>3, <2>4, CallMoves, CallOver DEF CountRequests
<1>7. CASE CreateRow(r)
  <2>1. /\ c # NoCall /\ c \in CallRecords /\ c.key \in Keys /\ c.vote \in RepVotes
        /\ repKeys[c.key] = c.vote
    BY <1>7, CallFields DEF CreateRow, Calling, CallOk
  <2>2. CASE RowsOf(c.vote) \cup RowsWith(c.key) = {}
    <3> DEFINE row == [key |-> c.key, vote |-> c.vote, status |-> "PENDING", ref |-> NoRef]
               got == [c EXCEPT !.at = "trigger", !.row = Len(repRows')]
    <3>1. row \in RepRows /\ row.key = c.key /\ row.vote = c.vote
      BY <2>1, ReplayAssumption DEF RepRows, Refs, NoRef
    <3>2. repRows' = Append(repRows, row) /\ UNCHANGED <<repProvider, repKeys, repPrompts>>
      BY <1>7, <2>2 DEF CreateRow
    <3> HIDE DEF row
    <3>3. repRows \in Seq(RepRows)
      BY DEF RepInv, RowInv
    <3>4. /\ repRows' \in Seq(RepRows) /\ Len(repRows') = Len(repRows) + 1
          /\ repRows'[Len(repRows')] = row
          /\ \A i \in DOMAIN repRows : i \in DOMAIN repRows' /\ repRows'[i] = repRows[i]
          /\ \A i \in DOMAIN repRows' : i = Len(repRows') \/ i \in DOMAIN repRows
          /\ Len(repRows') \in DOMAIN repRows' /\ Len(repRows') \in Nat
      BY <3>1, <3>2, <3>3
    <3>5. \A i \in DOMAIN repRows : repRows[i].vote # c.vote
      BY <2>2 DEF RowsOf
    <3>6. RowInv'
      BY <2>1, <3>1, <3>2, <3>4, <3>5 DEF RepInv, RowInv
    <3>7. KeyInv' /\ KeysStay
      BY <3>2 DEF RepInv, KeyInv, KeysStay
    <3>8. PromptInv' /\ RowsStay
      BY <3>2, <3>4 DEF RepInv, PromptInv, RowsStay
    <3>9. got \in Calls /\ got.at = "trigger" /\ got.row = Len(repRows') /\ got.vote = c.vote
      BY <2>1, <3>4 DEF CallRecords, Calls, RepSteps
    <3>10. repCalls' = [repCalls EXCEPT ![r] = got]
      BY <1>7, <2>2 DEF CreateRow, RepInv, CallInv
    <3> HIDE DEF got
    <3>11. CallOk(got, repKeys', repRows')
      BY <3>1, <3>4, <3>9 DEF CallOk, WithRow
    <3> QED
      BY <3>6, <3>7, <3>8, <3>9, <3>10, <3>11, StepKeeps
  <2>3. CASE RowsOf(c.vote) \cup RowsWith(c.key) # {}
    BY <1>7, <2>3, CallOver DEF CreateRow
  <2> QED
    BY <2>2, <2>3
<1> QED
  BY <1>1, <1>4, <1>5, <1>6, <1>7

\* A call that has a row.
LEMMA SendingKeeps ==
    ASSUME RepInv, SendsInv, NEW r \in RepRequests,
           \/ TriggerPayin(r) \/ RefusePayin(r) \/ SendPayin(r) \/ BindReference(r)
           \/ PushPrompt(r) \/ FailUnsent(r) \/ CallStops(r)
    PROVE  RepInv'
<1> DEFINE c == repCalls[r]
           To(step) == [c EXCEPT !.at = step]
<1>1. ASSUME c # NoCall, NEW step \in RepSteps
      PROVE  /\ To(step) \in Calls /\ To(step).at = step
             /\ To(step).key = c.key /\ To(step).vote = c.vote
             /\ To(step).row = c.row /\ To(step).ref = c.ref
  BY <1>1, CallFields, NextStatement
<1>2. \A step : CallGoes(r, step) => repCalls' = [repCalls EXCEPT ![r] = To(step)]
  BY DEF CallGoes
<1>3. ASSUME c # NoCall, c.at \in WithRow
      PROVE  /\ c.row \in DOMAIN repRows /\ repRows[c.row].vote = c.vote
             /\ repRows[c.row] \in RepRows
             /\ c.at \in {"bind", "push"} => c.ref # NoRef
             /\ c.at = "push" => repRows[c.row].ref = c.ref
             /\ c.ref \in Refs /\ c \in CallRecords
  <2>1. CallOk(c, repKeys, repRows) /\ c.ref \in Refs /\ c \in CallRecords
    BY <1>3, CallFields
  <2>2. c.row \in DOMAIN repRows
    BY <1>3, <2>1 DEF CallOk
  <2>3. repRows[c.row] \in RepRows
    BY <2>2 DEF RepInv, RowInv
  <2> QED
    BY <1>3, <2>1, <2>2, <2>3 DEF CallOk
<1>4. NoCall \in Calls /\ \A rows : CallOk(NoCall, repKeys, rows)
  BY DEF Calls, NoCall, CallOk
<1>5. {"send", "unsent", "push", "bind"} \subseteq RepSteps
  BY DEF RepSteps
<1> HIDE DEF To
<1>6. ASSUME c # NoCall, c.at \in WithRow, NEW step \in {"send", "unsent"}, CallGoes(r, step),
             UNCHANGED <<repProvider, repKeys, repRows>>,
             repPrompts' = repPrompts \/ repProvider # "FEDAPAY"
      PROVE  RepInv'
  <2>1. CallOk(To(step), repKeys, repRows)
    BY <1>1, <1>3, <1>5, <1>6 DEF CallOk, WithRow
  <2> QED
    BY <1>1, <1>2, <1>5, <1>6, <2>1, CallMoves
<1>7. CASE TriggerPayin(r)
  <2>1. c # NoCall /\ c.at \in WithRow /\ (CallGoes(r, "send") \/ CallEnds(r))
    BY <1>7 DEF TriggerPayin, Calling, WithRow
  <2> QED
    BY <1>6, <1>7, <2>1, CallOver DEF TriggerPayin
<1>8. CASE RefusePayin(r) \/ FailUnsent(r)
  <2>1. c # NoCall /\ c.at \in WithRow
        /\ CallEnds(r) /\ UNCHANGED <<repProvider, repKeys, repPrompts>>
    BY <1>8 DEF RefusePayin, FailUnsent, Calling, WithRow
  <2>2. repRows' = repRows \/ repRows' = [repRows EXCEPT ![c.row].status = "FAILED"]
    BY <1>8 DEF RefusePayin, FailUnsent
  <2> DEFINE old == repRows[c.row]
             row == [old EXCEPT !.status = "FAILED"]
  <2>3. c.row \in DOMAIN repRows /\ old \in RepRows
    BY <1>3, <2>1
  <2>4. row \in RepRows /\ row.key = old.key /\ row.vote = old.vote /\ row.ref = old.ref
    BY <2>3 DEF RepRows
  <2>5. repRows' = repRows \/ repRows' = [repRows EXCEPT ![c.row] = row]
    BY <2>2
  <2>6. repCalls' = [repCalls EXCEPT ![r] = NoCall]
    BY <2>1 DEF CallEnds
  <2> HIDE DEF row
  <2>7. CASE repRows' = repRows
    BY <2>1, <2>7, CallOver
  <2>8. CASE repRows' = [repRows EXCEPT ![c.row] = row]
    BY <1>4, <2>1, <2>3, <2>4, <2>6, <2>8, RowWritten
  <2> QED
    BY <2>5, <2>7, <2>8
<1>9. CASE SendPayin(r)
  <2>1. c # NoCall /\ c.at \in WithRow
        /\ UNCHANGED <<repProvider, repKeys, repRows>>
        /\ (repPrompts' = repPrompts \/ repProvider # "FEDAPAY")
    BY <1>9 DEF SendPayin, Calling, WithRow
  <2>2. ASSUME repSends < MaxSends, repSends' = repSends + 1, repSends \in Refs,
               repCalls' = [repCalls EXCEPT ![r].at = "bind", ![r].ref = repSends']
        PROVE  RepInv'
    <3> DEFINE n == repSends'
               got == [c EXCEPT !.at = "bind", !.ref = n]
    <3>1. n \in Refs /\ n # NoRef
      BY <2>2, ReplayAssumption DEF Refs, NoRef
    <3> HIDE DEF n
    <3>2. c \in CallRecords /\ c.row \in DOMAIN repRows /\ repRows[c.row].vote = c.vote
      BY <1>3, <2>1
    <3>3. got \in Calls /\ got.at = "bind" /\ got.row = c.row /\ got.vote = c.vote /\ got.ref = n
      BY <3>1, <3>2 DEF CallRecords, Calls, RepSteps
    <3>4. repCalls' = [repCalls EXCEPT ![r] = got]
      BY <2>2 DEF RepInv, CallInv, n
    <3> HIDE DEF got
    <3>5. CallOk(got, repKeys, repRows)
      BY <3>1, <3>2, <3>3 DEF CallOk, WithRow
    <3> QED
      BY <2>1, <3>3, <3>4, <3>5, CallMoves
  <2>3. ASSUME CallGoes(r, "unsent") PROVE RepInv'
    BY <1>6, <2>1, <2>3
  <2> QED
    BY <1>9, <2>2, <2>3 DEF SendPayin, SendsInv
<1>10. CASE BindReference(r)
  <2>1. c # NoCall /\ c.at = "bind" /\ c.at \in WithRow
        /\ UNCHANGED <<repProvider, repKeys, repPrompts>>
    BY <1>10 DEF BindReference, Calling, WithRow
  <2> DEFINE old == repRows[c.row]
             row == [old EXCEPT !.ref = c.ref]
  <2>2. c.row \in DOMAIN repRows /\ old \in RepRows /\ c.ref \in Refs /\ c.ref # NoRef
        /\ old.vote = c.vote
    BY <1>3, <2>1
  <2>3. row \in RepRows /\ row.key = old.key /\ row.vote = old.vote /\ row.ref = c.ref
    BY <2>2 DEF RepRows
  <2>4. CASE old.ref = NoRef
    <3>1. repRows' = [repRows EXCEPT ![c.row] = row]
          /\ (CallEnds(r) \/ CallGoes(r, "push"))
      BY <1>10, <2>4 DEF BindReference, RowOf
    <3>2. repRows'[c.row] = row /\ c.row \in DOMAIN repRows'
      BY <2>2, <3>1 DEF RepInv, RowInv
    <3> HIDE DEF row
    <3>3. CASE CallEnds(r)
      BY <1>4, <2>1, <2>2, <2>3, <2>4, <3>1, <3>3, RowWritten DEF CallEnds
    <3>4. CASE CallGoes(r, "push")
      <4>1. CallOk(To("push"), repKeys, repRows')
        BY <1>1, <1>5, <2>1, <2>2, <2>3, <3>2 DEF CallOk, WithRow
      <4> QED
        BY <1>1, <1>2, <1>5, <2>1, <2>2, <2>3, <2>4, <3>1, <3>4, <4>1, RowWritten
    <3> QED
      BY <3>1, <3>3, <3>4
  <2>5. CASE old.ref # NoRef
    <3>1. UNCHANGED repRows /\ (CallEnds(r) \/ CallGoes(r, "unsent"))
      BY <1>10, <2>5 DEF BindReference, RowOf
    <3> QED
      BY <1>6, <2>1, <3>1, CallOver
  <2> QED
    BY <2>4, <2>5
<1>11. CASE PushPrompt(r)
  <2>1. c # NoCall /\ c.at = "push" /\ c.at \in WithRow
        /\ UNCHANGED <<repProvider, repKeys, repRows>>
    BY <1>11 DEF PushPrompt, Calling, WithRow
  <2>2. ASSUME CallGoes(r, "unsent"), UNCHANGED repPrompts PROVE RepInv'
    BY <1>6, <2>1, <2>2
  <2>3. ASSUME CallEnds(r), repPrompts' = repPrompts \cup {Prompt(r, c.ref)} PROVE RepInv'
    <3>1. Prompt(r, c.ref).vote = c.vote /\ Prompt(r, c.ref).ref = c.ref
      BY DEF Prompt
    <3>2. c.row \in DOMAIN repRows /\ repRows[c.row].vote = c.vote
          /\ c.ref # NoRef /\ repRows[c.row].ref = c.ref
      BY <1>3, <2>1
    <3>3. PromptInv'
      BY <2>1, <2>3, <3>1, <3>2 DEF RepInv, PromptInv
    <3>4. KeyInv' /\ RowInv' /\ KeysStay /\ RowsStay
      BY <2>1 DEF RepInv, KeyInv, RowInv, KeysStay, RowsStay
    <3> QED
      BY <1>4, <2>1, <2>3, <3>3, <3>4, StepKeeps DEF CallEnds
  <2> QED
    BY <1>11, <2>2, <2>3 DEF PushPrompt
<1>12. CASE CallStops(r)
  BY <1>12, CallOver DEF CallStops
<1> QED
  BY <1>7, <1>8, <1>9, <1>10, <1>11, <1>12

LEMMA SendsCounted == SendsInv /\ [RepNext]_repVars => SendsInv'
<1> SUFFICES ASSUME SendsInv, [RepNext]_repVars PROVE SendsInv'
  OBVIOUS
<1>1. ASSUME NEW r \in RepRequests, SendPayin(r) PROVE SendsInv'
  BY <1>1, ReplayAssumption DEF SendsInv, SendPayin, Refs
<1>2. CASE UNCHANGED repSends
  BY <1>2 DEF SendsInv
<1> QED
  BY <1>1, <1>2 DEF RepNext, repVars, InitPublicPayment, FindKey, CreateKey, CountRequests,
     CreateRow, TriggerPayin, RefusePayin, BindReference, PushPrompt, FailUnsent, CallStops

LEMMA RepNextInv == RepInv /\ SendsInv /\ [RepNext]_repVars => RepInv'
<1> SUFFICES ASSUME RepInv, SendsInv, [RepNext]_repVars PROVE RepInv'
  OBVIOUS
<1>1. ASSUME UNCHANGED repVars PROVE RepInv'
  BY <1>1 DEF repVars, RepInv, KeyInv, CallInv, RowInv, PromptInv
<1> QED
  BY <1>1, OpeningKeeps, SendingKeeps DEF RepNext

\* A vote has one payment row, and FedaPay prompts for its reference only.
THEOREM OneDebit == RepSpec => []OneDebitPerVote
<1>1. RepInv => OneDebitPerVote
  <2> SUFFICES ASSUME RepInv, NEW v \in RepVotes
               PROVE  /\ Cardinality(RowsOf(v)) <= 1
                      /\ repProvider = "FEDAPAY" =>
                            \A p \in repPrompts : p.vote = v =>
                               \A i \in RowsOf(v) : p.ref = repRows[i].ref
    BY DEF OneDebitPerVote
  <2>1. \A i, j \in RowsOf(v) : i = j
    BY DEF RepInv, RowInv, RowsOf
  <2>2. Cardinality(RowsOf(v)) <= 1
    <3>1. CASE RowsOf(v) = {}
      BY <3>1, FS_EmptySet
    <3>2. CASE RowsOf(v) # {}
      <4>1. PICK i : RowsOf(v) = {i}
        BY <2>1, <3>2
      <4>2. Cardinality({i}) = 1
        BY FS_Singleton, Zenon
      <4> QED
        BY <4>1, <4>2
    <3> QED
      BY <3>1, <3>2
  <2>3. ASSUME repProvider = "FEDAPAY", NEW p \in repPrompts, p.vote = v, NEW i \in RowsOf(v)
        PROVE  p.ref = repRows[i].ref
    BY <2>1, <2>3 DEF RepInv, PromptInv, RowsOf
  <2> QED
    BY <2>2, <2>3
<1>2. RepInit => SendsInv
  BY ReplayAssumption DEF RepInit, SendsInv, Refs
<1> QED
  BY <1>1, <1>2, RepInitInv, RepNextInv, SendsCounted, PTL DEF RepSpec

\* The provider is fixed, and every prompt is for a vote and a reference.
PromptType == repProvider \in RepProviders /\ repPrompts \subseteq [vote : RepVotes, ref : Refs]

LEMMA PromptsTyped ==
    ASSUME RepInv, SendsInv, PromptType, [RepNext]_repVars PROVE PromptType'
<1>1. ASSUME NEW r \in RepRequests, SendPayin(r) \/ PushPrompt(r) PROVE PromptType'
  <2>1. repCalls[r] # NoCall /\ repCalls[r] \in Calls
    BY <1>1 DEF SendPayin, PushPrompt, Calling, RepInv, CallInv
  <2>2. repCalls[r].vote \in RepVotes /\ repCalls[r].ref \in Refs
    BY <2>1 DEF Calls, NoCall
  <2>3. \A n \in Refs : Prompt(r, n) \in [vote : RepVotes, ref : Refs]
    BY <2>2 DEF Prompt
  <2>4. repSends < MaxSends => repSends + 1 \in Refs
    BY ReplayAssumption DEF SendsInv, Refs
  <2>5. \/ repPrompts' = repPrompts
        \/ \E n \in Refs : repPrompts' = repPrompts \cup {Prompt(r, n)}
    BY <1>1, <2>2, <2>4 DEF SendPayin, PushPrompt
  <2>6. repProvider' = repProvider
    BY <1>1 DEF SendPayin, PushPrompt
  <2> QED BY <2>3, <2>5, <2>6 DEF PromptType
<1>2. CASE UNCHANGED <<repProvider, repPrompts>>
  BY <1>2 DEF PromptType
<1> QED
  BY <1>1, <1>2 DEF RepNext, repVars, InitPublicPayment, FindKey, CreateKey, CountRequests,
     CreateRow, TriggerPayin, RefusePayin, BindReference, FailUnsent, CallStops

\* Keys, rows, calls and prompts keep their types.
THEOREM ReplayTypes == RepSpec => []RepTypeOK
<1>1. RepInit => RepInv /\ SendsInv /\ PromptType
  BY RepInitInv, ReplayAssumption DEF RepInit, SendsInv, Refs, PromptType
<1>2. RepInv /\ SendsInv /\ PromptType /\ [RepNext]_repVars => (RepInv /\ SendsInv /\ PromptType)'
  BY RepNextInv, SendsCounted, PromptsTyped
<1>3. RepInv /\ SendsInv /\ PromptType => RepTypeOK
  BY DEF RepInv, KeyInv, CallInv, RowInv, SendsInv, PromptType, RepTypeOK
<1> QED
  BY <1>1, <1>2, <1>3, PTL DEF RepSpec

-----------------------------------------------------------------------------
(* The ticket designer.                                                    *)

\* What is typed on belongs to a step of history.
HistoryInv ==
    /\ Len(edPast) + Len(edFuture) <= HistoryLimit
    /\ edTrimmed \/ Head(Append(edPast, edDesign)) = edLoaded
    /\ edField # NoField => edPast # <<>>

\* What a clean editor is sending is what it shows.
SavedInv ==
    ~edDirty /\ ~edMissed =>
        /\ edDesign = edServer
        /\ edSending # NoDesign => edSending = edDesign

EdData ==
    /\ edDesign \in Designs /\ edServer \in Designs /\ edLoaded \in Designs
    /\ edPast \in Seq(Designs) /\ edFuture \in Seq(Designs)
    /\ edSending \in Designs \cup {NoDesign}

EdInv == EdData /\ HistoryInv /\ SavedInv

\* The first element of a history is not that of what is pushed on it.
LEMMA FirstStays ==
    ASSUME NEW past \in Seq(Designs), NEW d \in Designs, past # <<>>
    PROVE  Head(Append(past, d)) = Head(past)
  OBVIOUS

\* A step more, within the limit; the first one stays as long as none is dropped.
LEMMA StepPushed ==
    ASSUME NEW past \in Seq(Designs), NEW d \in Designs, Len(past) <= HistoryLimit
    PROVE  /\ LastSteps(Append(past, d)) \in Seq(Designs)
           /\ Len(LastSteps(Append(past, d))) <= HistoryLimit
           /\ LastSteps(Append(past, d)) # <<>>
           /\ Len(past) # HistoryLimit => LastSteps(Append(past, d)) = Append(past, d)
<1> DEFINE more == Append(past, d)
<1>1. more \in Seq(Designs) /\ Len(more) = Len(past) + 1 /\ more # <<>>
  OBVIOUS
<1>2. HistoryLimit \in Nat /\ HistoryLimit > 0 /\ Len(past) \in Nat
  BY EditorAssumption
<1> HIDE DEF more
<1>3. CASE Len(more) > HistoryLimit
  <2> DEFINE from == Len(more) - HistoryLimit + 1
             kept == SubSeq(more, from, Len(more))
  <2>1. from \in Nat /\ from >= 1 /\ Len(more) \in Nat /\ Len(more) - from + 1 = HistoryLimit
    BY <1>1, <1>2, <1>3
  <2>2. kept \in Seq(Designs) /\ Len(kept) = HistoryLimit
    BY <1>1, <1>2, <2>1
  <2>3. LastSteps(more) = kept
    BY <1>3 DEF LastSteps
  <2> HIDE DEF kept
  <2> QED
    BY <1>1, <1>2, <1>3, <2>2, <2>3 DEF more
<1>4. CASE ~(Len(more) > HistoryLimit)
  BY <1>1, <1>2, <1>4 DEF LastSteps, more
<1> QED
  BY <1>3, <1>4

LEMMA EdInitInv == EdInit => EdInv
<1> SUFFICES ASSUME EdInit PROVE EdInv
  OBVIOUS
<1>1. EdData
  BY DEF EdInit, EdData
<1>2. HistoryInv
  BY EditorAssumption DEF EdInit, HistoryInv
<1>3. SavedInv
  BY DEF EdInit, SavedInv
<1> QED
  BY <1>1, <1>2, <1>3 DEF EdInv

\* An edit pushes the step that it leaves.
LEMMA EditKeeps ==
    ASSUME EdInv, NEW d \in Designs, NEW f \in Fields \cup {NoField}, Edit(d, f)
    PROVE  EdInv'
<1> DEFINE pushed == LastSteps(Append(edPast, edDesign))
<1>1. edPast \in Seq(Designs) /\ edDesign \in Designs /\ Len(edPast) <= HistoryLimit
  BY EditorAssumption DEF EdInv, EdData, HistoryInv
<1>2. /\ pushed \in Seq(Designs) /\ Len(pushed) <= HistoryLimit /\ pushed # <<>>
      /\ Len(edPast) # HistoryLimit => pushed = Append(edPast, edDesign)
  BY <1>1, StepPushed
<1>3. /\ edPast' = pushed /\ edFuture' = <<>> /\ edDesign' = d /\ edDirty' = TRUE
      /\ edTrimmed' = (edTrimmed \/ Len(edPast) = HistoryLimit)
      /\ edField' = f
      /\ UNCHANGED <<edMissed, edGesture, edSending, edServer, edLoaded>>
  BY DEF Edit, Shows, PushStep
<1> HIDE DEF pushed
<1>4. EdData'
  BY <1>2, <1>3 DEF EdInv, EdData
<1>5. Head(Append(pushed, d)) = Head(pushed)
  BY <1>2, FirstStays
<1>6. HistoryInv'
  <2>1. Len(pushed) + Len(edFuture') <= HistoryLimit
    BY <1>2, <1>3, EditorAssumption
  <2>2. edTrimmed' \/ Head(Append(pushed, edDesign')) = edLoaded
    BY <1>2, <1>3, <1>5 DEF EdInv, HistoryInv
  <2> QED
    BY <1>2, <1>3, <2>1, <2>2 DEF HistoryInv
<1>7. SavedInv'
  BY <1>3 DEF SavedInv
<1> QED
  BY <1>4, <1>6, <1>7 DEF EdInv

\* The checkpoint of a gesture is the step that it starts from.
LEMMA GestureKeeps ==
    ASSUME EdInv, StartGesture
    PROVE  EdInv'
<1> DEFINE pushed == LastSteps(Append(edPast, edDesign))
<1>1. edPast \in Seq(Designs) /\ edDesign \in Designs /\ Len(edPast) <= HistoryLimit
  BY EditorAssumption DEF EdInv, EdData, HistoryInv
<1>2. /\ pushed \in Seq(Designs) /\ Len(pushed) <= HistoryLimit /\ pushed # <<>>
      /\ Len(edPast) # HistoryLimit => pushed = Append(edPast, edDesign)
  BY <1>1, StepPushed
<1>3. /\ edPast' = pushed /\ edFuture' = <<>>
      /\ edTrimmed' = (edTrimmed \/ Len(edPast) = HistoryLimit)
      /\ edField' = NoField /\ edGesture' = TRUE
      /\ UNCHANGED <<edDesign, edDirty, edMissed, edSending, edServer, edLoaded>>
  BY DEF StartGesture, PushStep
<1> HIDE DEF pushed
<1>4. EdData'
  BY <1>2, <1>3 DEF EdInv, EdData
<1>5. Head(Append(pushed, edDesign)) = Head(pushed)
  BY <1>1, <1>2, FirstStays
<1>6. HistoryInv'
  <2>1. Len(pushed) + Len(edFuture') <= HistoryLimit
    BY <1>2, <1>3, EditorAssumption
  <2>2. edTrimmed' \/ Head(Append(pushed, edDesign')) = edLoaded
    BY <1>2, <1>3, <1>5 DEF EdInv, HistoryInv
  <2> QED
    BY <1>2, <1>3, <2>1, <2>2 DEF HistoryInv
<1>7. SavedInv'
  BY <1>3 DEF EdInv, SavedInv
<1> QED
  BY <1>4, <1>6, <1>7 DEF EdInv

\* A design shown without a step of history stands on the step before it.
LEMMA DragKeeps ==
    ASSUME EdInv, NEW d \in Designs, Drag(d) \/ \E f \in Fields \cup {NoField} : TypeOn(d, f)
    PROVE  EdInv'
<1>1. /\ edDesign' = d /\ edDirty' = TRUE /\ edFuture' = <<>>
      /\ edTrimmed' = edTrimmed \/ edTrimmed' = (edTrimmed \/ edPast = <<>>)
      /\ edPast = <<>> => edTrimmed' = TRUE
      /\ UNCHANGED <<edPast, edField, edMissed, edGesture, edSending, edServer, edLoaded>>
  BY DEF Drag, TypeOn, Shows, EdInv, HistoryInv
<1>2. edPast \in Seq(Designs) /\ edDesign \in Designs /\ Len(edPast) <= HistoryLimit
  BY EditorAssumption DEF EdInv, EdData, HistoryInv
<1>3. EdData'
  BY <1>1 DEF EdInv, EdData
<1>4. edPast # <<>> => Head(Append(edPast, d)) = Head(Append(edPast, edDesign))
  BY <1>2, FirstStays
<1>5. HistoryInv'
  <2>1. Len(edPast') + Len(edFuture') <= HistoryLimit
    BY <1>1, <1>2, EditorAssumption
  <2>2. edTrimmed' \/ Head(Append(edPast', edDesign')) = edLoaded'
    <3>1. CASE edPast = <<>>
      BY <1>1, <3>1
    <3>2. CASE edPast # <<>>
      <4>1. edTrimmed => edTrimmed'
        BY <1>1
      <4> QED
        BY <1>1, <1>4, <3>2, <4>1 DEF EdInv, HistoryInv
    <3> QED
      BY <3>1, <3>2
  <2>3. edField' # NoField => edPast' # <<>>
    BY <1>1 DEF EdInv, HistoryInv
  <2> QED
    BY <2>1, <2>2, <2>3 DEF HistoryInv
<1>6. SavedInv'
  BY <1>1 DEF SavedInv
<1> QED
  BY <1>3, <1>5, <1>6 DEF EdInv

\* Undoing and redoing move one step between past and future.
LEMMA UndoKeeps ==
    ASSUME EdInv, Undo \/ Redo
    PROVE  EdInv'
<1>1. /\ edPast \in Seq(Designs) /\ edDesign \in Designs /\ edFuture \in Seq(Designs)
      /\ Len(edPast) + Len(edFuture) <= HistoryLimit
      /\ Len(edPast) \in Nat /\ Len(edFuture) \in Nat /\ HistoryLimit \in Nat
  BY EditorAssumption DEF EdInv, EdData, HistoryInv
<1>2. CASE Undo
  <2> DEFINE last == edPast[Len(edPast)]
             front == SubSeq(edPast, 1, Len(edPast) - 1)
             after == <<edDesign>> \o edFuture
  <2>1. edPast # <<>>
    BY <1>2 DEF Undo
  <2>2. /\ last \in Designs /\ front \in Seq(Designs) /\ Len(front) = Len(edPast) - 1
        /\ after \in Seq(Designs) /\ Len(after) = Len(edFuture) + 1
    <3>1. Len(edPast) >= 1
      BY <1>1, <2>1
    <3>2. last \in Designs
      BY <1>1, <3>1
    <3>3. front \in Seq(Designs) /\ Len(front) = Len(edPast) - 1
      <4> DEFINE n == Len(edPast) - 1
      <4>1. n \in Nat /\ n <= Len(edPast)
        BY <1>1, <3>1
      <4> HIDE DEF n
      <4>2. SubSeq(edPast, 1, n) \in Seq(Designs) /\ Len(SubSeq(edPast, 1, n)) = n
        BY <1>1, <4>1, SubSeqProperties
      <4> QED
        BY <4>2 DEF n
    <3>4. after \in Seq(Designs) /\ Len(after) = Len(edFuture) + 1
      BY <1>1
    <3> QED
      BY <3>2, <3>3, <3>4
  <2>3. Head(Append(front, last)) = Head(Append(edPast, edDesign))
    <3>1. Append(front, last) = edPast
      BY <1>1, <2>1
    <3> QED
      BY <1>1, <2>1, <3>1, FirstStays
  <2>4. /\ edDesign' = last /\ edDirty' = TRUE /\ edPast' = front /\ edFuture' = after
        /\ edField' = NoField
        /\ UNCHANGED <<edTrimmed, edMissed, edGesture, edSending, edServer, edLoaded>>
    BY <1>2 DEF Undo, Shows
  <2> HIDE DEF last, front, after
  <2>5. EdData'
    BY <2>2, <2>4 DEF EdInv, EdData
  <2>6. HistoryInv'
    BY <1>1, <2>2, <2>3, <2>4 DEF EdInv, HistoryInv
  <2> QED
    BY <2>4, <2>5, <2>6 DEF EdInv, SavedInv
<1>3. CASE Redo
  <2> DEFINE first == Head(edFuture)
             rest  == Tail(edFuture)
             more  == Append(edPast, edDesign)
  <2>1. edFuture # <<>>
    BY <1>3 DEF Redo
  <2>2. /\ first \in Designs /\ rest \in Seq(Designs) /\ Len(rest) = Len(edFuture) - 1
        /\ more \in Seq(Designs) /\ Len(more) = Len(edPast) + 1 /\ more # <<>>
    <3>1. Len(edFuture) >= 1
      BY <1>1, <2>1
    <3>2. first \in Designs
      BY <1>1, <3>1
    <3>3. rest \in Seq(Designs) /\ Len(rest) = Len(edFuture) - 1
      BY <1>1, <3>1, <2>1
    <3>4. more \in Seq(Designs) /\ Len(more) = Len(edPast) + 1
      BY <1>1
    <3>5. more # <<>>
      BY <1>1, <3>4
    <3> QED
      BY <3>2, <3>3, <3>4, <3>5
  <2>3. /\ edDesign' = first /\ edDirty' = TRUE /\ edPast' = more /\ edFuture' = rest
        /\ edField' = NoField
        /\ UNCHANGED <<edTrimmed, edMissed, edGesture, edSending, edServer, edLoaded>>
    BY <1>3 DEF Redo, Shows
  <2>4. edTrimmed \/ Head(more) = edLoaded
    BY DEF EdInv, HistoryInv
  <2> HIDE DEF first, rest, more
  <2>5. Head(Append(more, first)) = Head(more)
    BY <2>2, FirstStays
  <2>6. EdData'
    BY <2>2, <2>3 DEF EdInv, EdData
  <2>7. HistoryInv'
    BY <1>1, <2>2, <2>3, <2>4, <2>5 DEF HistoryInv
  <2> QED
    BY <2>3, <2>6, <2>7 DEF EdInv, SavedInv
<1> QED
  BY <1>2, <1>3

LEMMA EdNextInv == EdInv /\ [EdNext]_edVars => EdInv'
<1> SUFFICES ASSUME EdInv, [EdNext]_edVars PROVE EdInv'
  OBVIOUS
<1>1. ASSUME Select \/ EndGesture \/ Save \/ SaveAnswered \/ SaveFailed \/ UNCHANGED edVars
      PROVE  EdInv'
  <2>1. UNCHANGED <<edDesign, edPast, edFuture, edLoaded, edTrimmed>>
        /\ (edField' = edField \/ edField' = NoField)
    BY <1>1 DEF Select, EndGesture, Save, SaveAnswered, SaveFailed, edVars
  <2>2. HistoryInv'
    BY <2>1 DEF EdInv, HistoryInv
  <2>3. EdData'
    BY <1>1, <2>1 DEF EdInv, EdData, Select, EndGesture, Save, SaveAnswered, SaveFailed, edVars
  <2>4. SavedInv'
    <3>1. CASE Select \/ EndGesture \/ UNCHANGED edVars
      BY <3>1 DEF EdInv, SavedInv, Select, EndGesture, edVars
    <3>2. CASE Save
      BY <3>2 DEF EdInv, SavedInv, Save
    <3>3. CASE SaveAnswered
      BY <3>3 DEF SavedInv, SaveAnswered
    <3>4. CASE SaveFailed
      BY <3>4 DEF EdInv, SavedInv, SaveFailed
    <3> QED
      BY <1>1, <3>1, <3>2, <3>3, <3>4
  <2> QED
    BY <2>2, <2>3, <2>4 DEF EdInv
<1> QED
  BY <1>1, EditKeeps, GestureKeeps, DragKeeps, UndoKeeps DEF EdNext

\* Undo and redo stay within the limit, and lead back to the design loaded.
THEOREM History == EdSpec => []HistoryReachesLoaded
<1>1. EdInv => HistoryReachesLoaded
  BY DEF EdInv, HistoryInv, HistoryReachesLoaded
<1> QED
  BY <1>1, EdInitInv, EdNextInv, PTL DEF EdSpec

\* A clean editor shows what is on the server, unless edited during its save.
THEOREM CleanMeansSaved == EdSpec => []CleanIsSaved
<1>1. EdInv => CleanIsSaved
  BY DEF EdInv, SavedInv, CleanIsSaved
<1> QED
  BY <1>1, EdInitInv, EdNextInv, PTL DEF EdSpec

\* What the invariant leaves out: the field being typed in, and the flags.
EdFlags ==
    /\ edField \in Fields \cup {NoField}
    /\ edDirty \in BOOLEAN /\ edGesture \in BOOLEAN
    /\ edTrimmed \in BOOLEAN /\ edMissed \in BOOLEAN

LEMMA FlagsTyped == ASSUME EdFlags, [EdNext]_edVars PROVE EdFlags'
<1>1. ASSUME NEW d \in Designs, NEW f \in Fields \cup {NoField}, Edit(d, f) PROVE EdFlags'
  BY <1>1 DEF EdFlags, Edit, Shows
<1>2. ASSUME NEW d \in Designs, NEW f \in Fields \cup {NoField}, TypeOn(d, f) PROVE EdFlags'
  BY <1>2 DEF EdFlags, TypeOn, Shows
<1>3. ASSUME NEW d \in Designs, Drag(d) PROVE EdFlags'
  BY <1>3 DEF EdFlags, Drag, Shows
<1>4. CASE Select \/ StartGesture \/ EndGesture
  BY <1>4 DEF EdFlags, Select, StartGesture, EndGesture
<1>5. CASE Undo \/ Redo
  BY <1>5 DEF EdFlags, Undo, Redo, Shows
<1>6. CASE Save \/ SaveAnswered \/ SaveFailed
  BY <1>6 DEF EdFlags, Save, SaveAnswered, SaveFailed
<1>7. CASE UNCHANGED edVars
  BY <1>7 DEF EdFlags, edVars
<1> QED BY <1>1, <1>2, <1>3, <1>4, <1>5, <1>6, <1>7 DEF EdNext

\* The design, its history and its copies keep their types.
THEOREM EditorTypes == EdSpec => []EdTypeOK
<1>1. EdInit => EdFlags
  BY DEF EdInit, EdFlags
<1>2. EdFlags /\ [EdNext]_edVars => EdFlags'
  BY FlagsTyped
<1>3. EdInv /\ EdFlags => EdTypeOK
  BY DEF EdInv, EdData, EdFlags, EdTypeOK
<1> QED
  BY <1>1, <1>2, <1>3, EdInitInv, EdNextInv, PTL DEF EdSpec

-----------------------------------------------------------------------------
(* The voting page.                                                        *)

PtData ==
    /\ ptAsked \in 0..MaxPayments /\ ptFinals \subseteq PtPayments
    /\ ptPayment \in PtPayments \cup {None} /\ ptStored \in PtPayments \cup {None}
    /\ ptPolls \in [Polls -> Answers]

ErrorsInv == ptErrors \in Nat

\* Only a payment that is tracked has a stream or polls, and the form is there
\* only without one.
FollowInv ==
    /\ ptSubmitting => ptPayment = None
    /\ ptStream \/ ptTimer => ptPayment # None
    /\ NeverSilent

\* As long as no poll outlived its tracking, the polls in flight are those of
\* the payment; once it is shown final none brings an older status.
PollsInv ==
    ~ptStray =>
        /\ ptPayment = None => Flying = {}
        /\ \A q \in Flying :
              /\ ptPolls[q].payment = ptPayment
              /\ ptPolls[q].answer = "final" => ptPayment \in ptFinals
              /\ ptShown.final => ptPolls[q].answer # "pending"

PtInv == PtData /\ FollowInv /\ PollsInv /\ ShownIsTracked

LEMMA PtInitInv == PtInit => PtInv
<1> SUFFICES ASSUME PtInit PROVE PtInv
  OBVIOUS
<1>1. NoPoll \in Answers
  BY DEF NoPoll, Answers
<1>2. ptPolls \in [Polls -> Answers] /\ Flying = {}
  BY <1>1 DEF PtInit, Flying
<1>3. PtData
  BY <1>2, TrackingAssumption DEF PtInit, PtData
<1>4. FollowInv /\ PollsInv /\ ShownIsTracked
  BY <1>2 DEF PtInit, FollowInv, NeverSilent, PollsInv, ShownIsTracked
<1> QED
  BY <1>3, <1>4 DEF PtInv

\* The polls that the end of an effect leaves in flight were in flight.
LEMMA LeftBehind ==
    ASSUME PtData, EffectLeaves
    PROVE  ptPolls' \in [Polls -> Answers] /\ Flying' \subseteq Flying
<1> DEFINE Left(q) == IF q \in Flying THEN [ptPolls[q] EXCEPT !.old = TRUE] ELSE NoPoll
<1>1. ASSUME NEW q \in Polls PROVE Left(q) \in Answers /\ (q \notin Flying => Left(q) = NoPoll)
  BY DEF PtData, Answers, NoPoll
<1>2. ptPolls' = [q \in Polls |-> Left(q)]
  BY DEF EffectLeaves
<1> HIDE DEF Left
<1> QED
  BY <1>1, <1>2 DEF Flying

\* The page goes back to its form.
LEMMA ClearedKeeps ==
    ASSUME PtInv, Cleared, UNCHANGED <<ptAsked, ptFinals>>
    PROVE  PtInv'
<1>1. ptPayment' = None /\ ptStored' = None /\ ptStream' = FALSE /\ ptTimer' = FALSE
      /\ ptStray' = (Flying # {}) /\ EffectLeaves
  BY DEF Cleared, EffectBegins
<1>2. ptPolls' \in [Polls -> Answers] /\ Flying' \subseteq Flying
  BY <1>1, LeftBehind DEF PtInv
<1>3. PtData'
  BY <1>1, <1>2 DEF PtInv, PtData
<1>4. FollowInv' /\ ShownIsTracked'
  BY <1>1 DEF FollowInv, NeverSilent, ShownIsTracked
<1>5. PollsInv'
  BY <1>1, <1>2 DEF PollsInv
<1> QED
  BY <1>3, <1>4, <1>5 DEF PtInv

\* The form is sent, answered, refused; the page is loaded again.
LEMMA FormKeeps ==
    ASSUME PtInv, InitAnswered \/ SubmitFails \/ Reload
    PROVE  PtInv'
<1>1. CASE InitAnswered
  <2>1. /\ ptAsked' = ptAsked + 1 /\ ptAsked' \in PtPayments /\ ptAsked' \in 0..MaxPayments
        /\ ptAsked' # None
    BY <1>1, TrackingAssumption DEF InitAnswered, PtInv, PtData, PtPayments, None
  <2> DEFINE new == ptAsked'
  <2>2. /\ ptPayment' = new /\ ptStored' = new /\ ptSubmitting' = FALSE /\ ptStream' = TRUE
        /\ ptTimer' = FALSE /\ ptFinal' = FALSE
        /\ ptShown' = [payment |-> new, final |-> FALSE]
        /\ UNCHANGED <<ptFinals, ptSaid, ptPolls, ptStray>>
    BY <1>1 DEF InitAnswered, EffectBegins
  <2>3. ptPayment = None
    BY <1>1 DEF InitAnswered, PtInv, FollowInv
  <2>4. Flying' = Flying /\ (~ptStray => Flying = {})
    BY <2>2, <2>3 DEF Flying, PtInv, PollsInv
  <2>5. PtData'
    BY <2>1, <2>2 DEF PtInv, PtData
  <2> HIDE DEF new
  <2>6. FollowInv'
    BY <2>1, <2>2 DEF FollowInv, NeverSilent, new
  <2>7. PollsInv'
    BY <2>2, <2>4 DEF PollsInv
  <2>8. ShownIsTracked'
    BY <2>2 DEF ShownIsTracked
  <2> QED
    BY <2>5, <2>6, <2>7, <2>8 DEF PtInv
<1>2. CASE SubmitFails
  BY <1>2 DEF SubmitFails, ptEffect, PtInv, PtData, FollowInv, NeverSilent, PollsInv, Flying,
     ShownIsTracked
<1>3. CASE Reload
  <2>1. NoPoll \in Answers
    BY DEF NoPoll, Answers
  <2>2. /\ ptPayment' = ptStored /\ ptShown' = NothingShown /\ ptSubmitting' = FALSE
        /\ ptStream' = (ptStored # None) /\ ptTimer' = FALSE /\ ptFinal' = FALSE
        /\ UNCHANGED <<ptAsked, ptFinals, ptStored>>
        /\ ptPolls' = [q \in Polls |-> NoPoll]
    BY <1>3 DEF Reload, EffectBegins
  <2>3. ptPolls' \in [Polls -> Answers] /\ Flying' = {}
    BY <2>1, <2>2 DEF Flying
  <2>4. PtData'
    BY <2>2, <2>3 DEF PtInv, PtData
  <2>5. FollowInv' /\ PollsInv' /\ ShownIsTracked'
    BY <2>2, <2>3 DEF FollowInv, NeverSilent, PollsInv, ShownIsTracked, NothingShown
  <2> QED
    BY <2>4, <2>5 DEF PtInv
<1> QED
  BY <1>1, <1>2, <1>3

\* The effect that tracks the same payment begins again, or its stream speaks or breaks.
LEMMA StreamKeeps ==
    ASSUME PtInv, ChangeLanguage \/ StreamMessage \/ StreamBreaks
    PROVE  PtInv'
<1>1. CASE ChangeLanguage
  <2>1. /\ ptPayment # None /\ ptStream' = TRUE /\ ptTimer' = FALSE /\ ptFinal' = FALSE
        /\ EffectLeaves /\ (~ptStray' => ~ptStray /\ Flying = {})
        /\ UNCHANGED <<ptAsked, ptFinals, ptSubmitting, ptPayment, ptShown, ptStored, ptSaid>>
    BY <1>1 DEF ChangeLanguage, EffectBegins
  <2>2. ptPolls' \in [Polls -> Answers] /\ Flying' \subseteq Flying
    BY <2>1, LeftBehind DEF PtInv
  <2>3. PtData' /\ FollowInv'
    BY <2>1, <2>2 DEF PtInv, PtData, FollowInv, NeverSilent
  <2>4. PollsInv'
    BY <2>1, <2>2 DEF PollsInv
  <2>5. ShownIsTracked'
    BY <2>1 DEF PtInv, ShownIsTracked
  <2> QED
    BY <2>3, <2>4, <2>5 DEF PtInv
<1>2. CASE StreamMessage
  <2> DEFINE over == ptPayment \in ptFinals
  <2>1. /\ ptPayment # None
        /\ ptShown' = [payment |-> ptPayment, final |-> over]
        /\ ptStored' = IF over THEN None ELSE ptStored
        /\ UNCHANGED <<ptAsked, ptFinals, ptSubmitting, ptPayment, ptSaid, ptPolls>>
    BY <1>2 DEF StreamMessage, ShowStatus, PtInv, FollowInv
  <2>2. ptShown'.payment = ptPayment /\ ptShown'.final = over
    BY <2>1
  <2>3. over => ptFinal' = TRUE /\ ptStream' = FALSE /\ ptTimer' = FALSE
                /\ (~ptStray' => ~ptStray /\ Flying = {})
    BY <1>2 DEF StreamMessage
  <2>4. ~over => UNCHANGED <<ptFinal, ptStream, ptTimer, ptStray>>
    BY <1>2 DEF StreamMessage
  <2>5. Flying' = Flying
    BY <2>1 DEF Flying
  <2>6. PtData'
    BY <2>1 DEF PtInv, PtData
  <2>7. FollowInv'
    BY <2>1, <2>3, <2>4 DEF PtInv, FollowInv, NeverSilent
  <2> HIDE DEF over
  <2>8. PollsInv'
    <3>1. CASE over
      BY <3>1, <2>1, <2>3, <2>5 DEF PollsInv
    <3>2. CASE ~over
      BY <3>2, <2>1, <2>2, <2>4, <2>5 DEF PtInv, PollsInv
    <3> QED
      BY <3>1, <3>2
  <2>9. ShownIsTracked'
    <3>1. CASE over
      BY <3>1, <2>1, <2>2 DEF ShownIsTracked, over
    <3>2. CASE ~over
      BY <3>2, <2>1, <2>2, <2>4 DEF PtInv, ShownIsTracked, over
    <3> QED
      BY <3>1, <3>2
  <2> QED
    BY <2>6, <2>7, <2>8, <2>9 DEF PtInv
<1>3. CASE StreamBreaks
  <2>1. /\ ptStream' = FALSE /\ (~ptFinal => ptTimer' = TRUE) /\ ptPayment # None
        /\ UNCHANGED <<ptAsked, ptFinals, ptSubmitting, ptPayment, ptShown, ptStored, ptSaid,
                       ptFinal, ptPolls, ptStray>>
    BY <1>3 DEF StreamBreaks, PtInv, FollowInv
  <2>2. PtData' /\ FollowInv'
    BY <2>1 DEF PtInv, PtData, FollowInv, NeverSilent
  <2>3. PollsInv' /\ ShownIsTracked'
    BY <2>1 DEF PtInv, PollsInv, Flying, ShownIsTracked
  <2> QED
    BY <2>2, <2>3 DEF PtInv
<1> QED
  BY <1>1, <1>2, <1>3

\* What becomes of one poll leaves the others as they are.
LEMMA PollsKeep ==
    ASSUME PtInv, ErrorsInv, NEW q \in Polls,
           Tick(q) \/ ServerAnswers(q) \/ PollArrives(q) \/ PollFails(q)
    PROVE  PtInv'
<1>1. /\ ptPolls \in [Polls -> Answers] /\ ptPolls[q] \in Answers
      /\ ptPayment \in PtPayments \cup {None}
  BY DEF PtInv, PtData
<1>2. NoPoll \in Answers /\ NoPoll.answer = "none" /\ NoPoll.payment = None
  BY DEF NoPoll, Answers
<1>3. CASE Tick(q)
  <2> DEFINE sent == [payment |-> ptPayment, answer |-> "none", old |-> FALSE]
  <2>1. sent \in Answers /\ sent.payment = ptPayment /\ sent.answer = "none"
    BY <1>1 DEF Answers
  <2>2. /\ ptPolls' = [ptPolls EXCEPT ![q] = sent]
        /\ ptPayment # None
        /\ ~ptTimer' => ptSaid'
        /\ ptSaid => ptSaid'
        /\ UNCHANGED <<ptAsked, ptFinals, ptSubmitting, ptPayment, ptShown, ptStored, ptFinal,
                       ptStream, ptStray>>
    BY <1>3 DEF Tick, PtInv, FollowInv
  <2> HIDE DEF sent
  <2>3. PtData'
    BY <2>1, <2>2 DEF PtInv, PtData
  <2>4. FollowInv'
    BY <2>2 DEF PtInv, FollowInv, NeverSilent
  <2>5. PollsInv' /\ ShownIsTracked'
    BY <1>1, <2>1, <2>2 DEF PtInv, PollsInv, Flying, ShownIsTracked
  <2> QED
    BY <2>3, <2>4, <2>5 DEF PtInv
<1>4. CASE ServerAnswers(q)
  <2> DEFINE said == IF ptPolls[q].payment \in ptFinals THEN "final" ELSE "pending"
             heard == [ptPolls[q] EXCEPT !.answer = said]
  <2>1. heard \in Answers /\ heard.payment = ptPolls[q].payment /\ heard.answer = said
    BY <1>1 DEF Answers
  <2>2. /\ ptPolls' = [ptPolls EXCEPT ![q] = heard] /\ q \in Flying
        /\ UNCHANGED <<ptAsked, ptFinals, ptSubmitting, ptPayment, ptShown, ptStored, ptSaid,
                       ptEffect, ptStray>>
    BY <1>4 DEF ServerAnswers
  <2>3. /\ said = "final" => ptPolls[q].payment \in ptFinals
        /\ said = "pending" => ptPolls[q].payment \notin ptFinals
    OBVIOUS
  <2> HIDE DEF said, heard
  <2>4. PtData' /\ FollowInv'
    BY <2>1, <2>2 DEF PtInv, PtData, FollowInv, NeverSilent, ptEffect
  <2>5. ShownIsTracked'
    BY <2>2 DEF PtInv, ShownIsTracked, ptEffect
  <2>6. PollsInv'
    <3> SUFFICES ASSUME ~ptStray
                 PROVE  /\ ptPayment = None => Flying' = {}
                        /\ \A p \in Flying' :
                              /\ ptPolls'[p].payment = ptPayment
                              /\ ptPolls'[p].answer = "final" => ptPayment \in ptFinals
                              /\ ptShown.final => ptPolls'[p].answer # "pending"
      BY <2>2 DEF PollsInv
    <3>1. ptPayment # None
      BY <2>2 DEF PtInv, PollsInv
    <3>2. \A p \in Flying : ptPolls[p].payment = ptPayment
                            /\ (ptPolls[p].answer = "final" => ptPayment \in ptFinals)
                            /\ (ptShown.final => ptPolls[p].answer # "pending")
      BY DEF PtInv, PollsInv
    <3>3. Flying' \subseteq Flying
      BY <1>1, <2>2 DEF Flying
    <3>4. ptShown.final => ptPayment \in ptFinals
      BY <3>1 DEF PtInv, ShownIsTracked
    <3>5. \A p \in Flying' : p # q => ptPolls'[p] = ptPolls[p]
      BY <1>1, <2>2 DEF Flying
    <3>6. ptPolls'[q] = heard
      BY <1>1, <2>2
    <3> QED
      BY <2>1, <2>2, <2>3, <3>1, <3>2, <3>3, <3>4, <3>5, <3>6
  <2> QED
    BY <2>4, <2>5, <2>6 DEF PtInv
<1>5. CASE PollArrives(q)
  <2> DEFINE final == ptPolls[q].answer = "final"
  <2>1. /\ ptPolls[q].answer # "none"
        /\ ptPolls' = [ptPolls EXCEPT ![q] = NoPoll]
        /\ ptShown' = [payment |-> ptPolls[q].payment, final |-> final]
        /\ ptStored' = IF final THEN None ELSE ptStored
        /\ ~ptStray' => ~ptStray /\ (final => Flying = {q})
        /\ UNCHANGED <<ptAsked, ptFinals, ptSubmitting, ptPayment, ptSaid, ptStream>>
    BY <1>5 DEF PollArrives, ShowStatus
  <2>2. /\ ptTimer' => ptTimer
        /\ ~ptFinal' => ~ptFinal /\ (ptTimer => ptTimer')
        /\ ptFinal' => ptFinal \/ final
    BY <1>5 DEF PollArrives
  <2>3. ptShown'.payment = ptPolls[q].payment /\ ptShown'.final = final
    BY <2>1
  <2>4. q \in Flying /\ Flying' = Flying \ {q}
    BY <1>1, <1>2, <2>1 DEF Flying
  <2> HIDE DEF final
  <2>5. PtData'
    BY <1>2, <2>1 DEF PtInv, PtData
  <2>6. FollowInv'
    BY <2>1, <2>2 DEF PtInv, FollowInv, NeverSilent
  <2>7. PollsInv'
    BY <1>1, <2>1, <2>3, <2>4 DEF PtInv, PollsInv
  <2>8. ASSUME ~ptStray'
        PROVE  /\ ptPayment # None /\ ptPolls[q].payment = ptPayment
               /\ final => ptPayment \in ptFinals
               /\ ~final => ~ptShown.final /\ ptStored = ptPayment
               /\ ptFinal => ptShown.final
    <3>1. ptPayment # None /\ ptPolls[q].payment = ptPayment
          /\ (ptPolls[q].answer = "final" => ptPayment \in ptFinals)
          /\ (ptShown.final => ptPolls[q].answer # "pending")
      BY <2>1, <2>4, <2>8 DEF PtInv, PollsInv
    <3>2. ~final => ptPolls[q].answer = "pending"
      BY <1>1, <2>1 DEF final, Answers
    <3> QED
      BY <2>1, <2>8, <3>1, <3>2 DEF PtInv, ShownIsTracked, final
  <2>9. ShownIsTracked'
    BY <2>1, <2>2, <2>3, <2>8 DEF ShownIsTracked
  <2> QED
    BY <2>5, <2>6, <2>7, <2>9 DEF PtInv
<1>6. CASE PollFails(q)
  <2>1. /\ ptPolls' = [ptPolls EXCEPT ![q] = NoPoll]
        /\ UNCHANGED <<ptAsked, ptFinals, ptSubmitting, ptPayment, ptShown, ptStored, ptFinal,
                       ptStream, ptStray>>
    BY <1>6 DEF PollFails
  <2>2. \/ ptSaid' \in {ptSaid, TRUE} /\ UNCHANGED <<ptErrors, ptTimer>>
        \/ /\ ptErrors' = IF ptErrors < MaxPollErrors THEN ptErrors + 1 ELSE ptErrors
           /\ ptTimer' = (ptTimer /\ ptErrors' < MaxPollErrors)
           /\ ptSaid' = (ptSaid \/ ptErrors' >= MaxPollErrors)
    BY <1>6, Zenon DEF PollFails
  <2>7. /\ ptTimer' => ptTimer
        /\ ptTimer /\ ~ptTimer' => ptSaid'
        /\ ptSaid => ptSaid'
    <3> DEFINE few == ptErrors' < MaxPollErrors
               many == ptErrors' >= MaxPollErrors
    <3>1. CASE ptSaid' \in {ptSaid, TRUE} /\ UNCHANGED <<ptErrors, ptTimer>>
      <4>1. CASE ptSaid' = ptSaid
        BY <3>1, <4>1, Zenon
      <4>2. CASE ptSaid' = TRUE
        BY <3>1, <4>2
      <4> QED
        BY <3>1, <4>1, <4>2
    <3>2. CASE /\ ptErrors' = IF ptErrors < MaxPollErrors THEN ptErrors + 1 ELSE ptErrors
               /\ ptTimer' = (ptTimer /\ few)
               /\ ptSaid' = (ptSaid \/ many)
      <4>1. ptErrors' \in Nat /\ MaxPollErrors \in Nat
        BY <3>2, TrackingAssumption DEF ErrorsInv
      <4>2. few \/ many
        BY <4>1
      <4> HIDE DEF few, many
      <4> QED
        BY <3>2, <4>2, Zenon
    <3> QED
      BY <2>2, <3>1, <3>2, Zenon
  <2>3. Flying' \subseteq Flying /\ \A p \in Flying' : ptPolls'[p] = ptPolls[p]
    BY <1>1, <2>1 DEF Flying
  <2>4. PtData'
    BY <1>2, <2>1, <2>7 DEF PtInv, PtData
  <2>5. FollowInv' /\ ShownIsTracked'
    BY <2>1, <2>7 DEF PtInv, FollowInv, NeverSilent, ShownIsTracked
  <2>6. PollsInv'
    BY <2>1, <2>3 DEF PtInv, PollsInv
  <2> QED
    BY <2>4, <2>5, <2>6 DEF PtInv
<1> QED
  BY <1>3, <1>4, <1>5, <1>6

LEMMA ErrorsCounted == ErrorsInv /\ [PtNext]_ptVars => ErrorsInv'
<1> SUFFICES ASSUME ErrorsInv, [PtNext]_ptVars PROVE ErrorsInv'
  OBVIOUS
<1>1. ptErrors' \in {ptErrors, 0, ptErrors + 1} => ErrorsInv'
  BY DEF ErrorsInv
<1>2. ASSUME NEW q \in Polls, Tick(q) \/ ServerAnswers(q) \/ PollArrives(q) \/ PollFails(q)
      PROVE  ptErrors' \in {ptErrors, 0, ptErrors + 1}
  BY <1>2, Zenon DEF Tick, ServerAnswers, PollArrives, PollFails, ptEffect
<1>3. ASSUME \/ \E p \in PtPayments : PaymentEnds(p)
             \/ Submit \/ Retry \/ InitAnswered \/ SubmitFails \/ Reload \/ ChangeLanguage
             \/ StreamMessage \/ StreamBreaks \/ UNCHANGED ptVars
      PROVE  ptErrors' \in {ptErrors, 0, ptErrors + 1}
  BY <1>3, Zenon DEF PaymentEnds, Submit, Retry, Cleared, InitAnswered, SubmitFails, Reload,
     ChangeLanguage, EffectBegins, StreamMessage, StreamBreaks, ptEffect, ptVars
<1> QED
  BY <1>1, <1>2, <1>3 DEF PtNext

LEMMA PtNextInv == PtInv /\ ErrorsInv /\ [PtNext]_ptVars => PtInv'
<1> SUFFICES ASSUME PtInv, ErrorsInv, [PtNext]_ptVars PROVE PtInv'
  OBVIOUS
<1>1. ASSUME NEW p \in PtPayments, PaymentEnds(p) PROVE PtInv'
  BY <1>1 DEF PaymentEnds, ptEffect, PtInv, PtData, FollowInv, NeverSilent, PollsInv, Flying,
     ShownIsTracked
<1>2. ASSUME Submit \/ Retry PROVE PtInv'
  BY <1>2, ClearedKeeps DEF Submit, Retry
<1>3. ASSUME UNCHANGED ptVars PROVE PtInv'
  BY <1>3 DEF ptVars, ptEffect, PtInv, PtData, FollowInv, NeverSilent, PollsInv, Flying,
     ShownIsTracked
<1> QED
  BY <1>1, <1>2, <1>3, FormKeeps, StreamKeeps, PollsKeep DEF PtNext

\* A payment that has not ended on the page is followed, or the page says so.
THEOREM Followed == PtSpec => []NeverSilent
<1>1. PtInv => NeverSilent
  BY DEF PtInv, FollowInv
<1>2. PtInit => ErrorsInv
  BY DEF PtInit, ErrorsInv
<1> QED
  BY <1>1, <1>2, PtInitInv, PtNextInv, ErrorsCounted, PTL DEF PtSpec

\* The page shows the payment it tracks, unless a poll outlived its tracking.
THEOREM ShownTracked == PtSpec => []ShownIsTracked
<1>1. PtInv => ShownIsTracked
  BY DEF PtInv
<1>2. PtInit => ErrorsInv
  BY DEF PtInit, ErrorsInv
<1> QED
  BY <1>1, <1>2, PtInitInv, PtNextInv, ErrorsCounted, PTL DEF PtSpec

\* A tracking polls no more than MaxRounds times: a stream has not polled yet, and
\* an interval that runs has a round left. The errors stop counting at their limit.
RoundsInv ==
    /\ ptRounds \in 0..MaxRounds /\ ptErrors \in 0..MaxPollErrors
    /\ ptStream => ptRounds = 0
    /\ ptTimer => ptRounds < MaxRounds /\ ~ptStream

LEMMA RoundsCounted == ASSUME RoundsInv, [PtNext]_ptVars PROVE RoundsInv'
<1>1. MaxRounds \in Nat \ {0} /\ MaxPollErrors \in Nat \ {0}
  BY TrackingAssumption DEF TrackingAssumption
<1>2. ASSUME NEW open, EffectBegins(open) PROVE RoundsInv'
  BY <1>1, <1>2 DEF RoundsInv, EffectBegins
<1>3. CASE Submit \/ Retry \/ InitAnswered \/ Reload \/ ChangeLanguage
  BY <1>2, <1>3 DEF Submit, Retry, Cleared, InitAnswered, Reload, ChangeLanguage
<1>4. CASE StreamMessage
  BY <1>4 DEF StreamMessage, RoundsInv
<1>5. CASE StreamBreaks
  BY <1>1, <1>5 DEF StreamBreaks, RoundsInv
<1>6. ASSUME NEW q \in Polls, Tick(q) PROVE RoundsInv'
  <2>1. /\ ptTimer /\ ptRounds' = ptRounds + 1 /\ ptTimer' = (ptRounds' < MaxRounds)
        /\ ptStream' = ptStream /\ ptErrors' = ptErrors
    BY <1>6, Zenon DEF Tick
  <2>2. ptRounds < MaxRounds /\ ~ptStream
    BY <2>1, Zenon DEF RoundsInv
  <2>3. ptRounds' \in 0..MaxRounds /\ ptErrors' \in 0..MaxPollErrors
    BY <1>1, <2>1, <2>2 DEF RoundsInv
  <2>4. ~ptStream' /\ (ptTimer' => ptRounds' < MaxRounds)
    BY <2>1, <2>2, Zenon
  <2> QED BY <2>3, <2>4, Zenon DEF RoundsInv
<1>7. ASSUME ptErrors' \in 0..MaxPollErrors, ptRounds' = ptRounds, ptStream' = ptStream,
             ptTimer' => ptTimer
      PROVE  RoundsInv'
  BY <1>7, Zenon DEF RoundsInv
<1>8. ASSUME NEW q \in Polls, PollArrives(q) \/ PollFails(q) PROVE RoundsInv'
  <2>1. /\ ptRounds' = ptRounds /\ ptStream' = ptStream
        /\ \/ ptTimer' = ptTimer \/ ptTimer' = (ptTimer /\ ~ptFinal')
           \/ ptTimer' = (ptTimer /\ ptErrors' < MaxPollErrors)
    BY <1>8, Zenon DEF PollArrives, PollFails
  <2>2. ptTimer' => ptTimer
    BY <2>1, Zenon
  <2>3. \/ ptErrors' = ptErrors \/ ptErrors' = 0
        \/ ptErrors < MaxPollErrors /\ ptErrors' = ptErrors + 1
    BY <1>8, Zenon DEF PollArrives, PollFails
  <2>4. ptErrors' \in 0..MaxPollErrors
    BY <1>1, <2>3 DEF RoundsInv
  <2> QED BY <1>7, <2>1, <2>2, <2>4
<1>9. CASE UNCHANGED ptEffect
  BY <1>9 DEF ptEffect, RoundsInv
<1> QED
  BY <1>3, <1>4, <1>5, <1>6, <1>8, <1>9
  DEF PtNext, ptVars, PaymentEnds, SubmitFails, ServerAnswers


\* What the page shows, and its flags.
PageInv ==
    /\ ptShown \in Shown
    /\ ptSubmitting \in BOOLEAN /\ ptSaid \in BOOLEAN /\ ptFinal \in BOOLEAN
    /\ ptStream \in BOOLEAN /\ ptTimer \in BOOLEAN /\ ptStray \in BOOLEAN

LEMMA PageTyped == ASSUME PtInv, PageInv, [PtNext]_ptVars PROVE PageInv'
<1>1. ASSUME ptShown' \in Shown, ptSubmitting' \in BOOLEAN, ptSaid' \in BOOLEAN,
             ptFinal' \in BOOLEAN, ptStream' \in BOOLEAN, ptTimer' \in BOOLEAN,
             ptStray' \in BOOLEAN
      PROVE  PageInv'
  BY <1>1 DEF PageInv
<1>2. ASSUME NEW open \in BOOLEAN, EffectBegins(open)
      PROVE  ptFinal' \in BOOLEAN /\ ptStream' \in BOOLEAN /\ ptTimer' \in BOOLEAN
  BY <1>2 DEF EffectBegins
<1>3. \A p \in PtPayments \cup {None}, final \in BOOLEAN :
         [payment |-> p, final |-> final] \in Shown
  BY DEF Shown
<1>4. NothingShown \in Shown
  BY <1>3 DEF NothingShown
<1>5. ASSUME Cleared
      PROVE  /\ ptShown' \in Shown /\ ptSaid' \in BOOLEAN /\ ptStray' \in BOOLEAN
             /\ ptFinal' \in BOOLEAN /\ ptStream' \in BOOLEAN /\ ptTimer' \in BOOLEAN
  BY <1>2, <1>4, <1>5 DEF Cleared
<1>6. CASE Submit \/ Retry
  BY <1>1, <1>5, <1>6 DEF Submit, Retry, PageInv
<1>7. CASE InitAnswered
  <2>1. ptAsked' \in PtPayments
    BY <1>7, TrackingAssumption
    DEF InitAnswered, PtInv, PtData, PtPayments, TrackingAssumption
  <2>2. ptShown' \in Shown
    BY <1>3, <1>7, <2>1 DEF InitAnswered
  <2> QED BY <1>1, <1>2, <1>7, <2>2 DEF InitAnswered, PageInv
<1>8. CASE SubmitFails
  BY <1>8 DEF SubmitFails, PageInv, ptEffect
<1>9. CASE Reload
  BY <1>1, <1>2, <1>4, <1>9 DEF Reload
<1>10. CASE ChangeLanguage
  BY <1>1, <1>2, <1>10 DEF ChangeLanguage, PageInv
<1>11. CASE StreamMessage
  <2>1. (ptPayment \in ptFinals) \in BOOLEAN /\ ptPayment \in PtPayments \cup {None}
    BY DEF PtInv, PtData
  <2>2. ptShown' = [payment |-> ptPayment, final |-> ptPayment \in ptFinals]
    BY <1>11, Zenon DEF StreamMessage, ShowStatus
  <2>3. ptShown' \in Shown
    BY <1>3, <2>1, <2>2, Zenon
  <2> QED BY <1>1, <1>11, <2>3 DEF StreamMessage, PageInv
<1>12. CASE StreamBreaks
  BY <1>12 DEF StreamBreaks, PageInv
<1>13. ASSUME NEW q \in Polls, Tick(q) PROVE PageInv'
  BY <1>13 DEF Tick, PageInv
<1>14. ASSUME NEW q \in Polls, PollArrives(q) PROVE PageInv'
  <2>1. ptPolls[q].payment \in PtPayments \cup {None}
    BY DEF PtInv, PtData, Answers
  <2>2. ptShown' \in Shown
    BY <1>3, <1>14, <2>1 DEF PollArrives, ShowStatus
  <2>3. /\ ptSubmitting' = ptSubmitting /\ ptSaid' = ptSaid /\ ptStream' = ptStream
        /\ ptStray' = (ptStray \/ (ptPolls[q].answer = "final" /\ Flying # {q}))
        /\ \/ UNCHANGED <<ptFinal, ptTimer>>
           \/ /\ ptFinal' = (ptFinal \/ ptPolls[q].answer = "final")
              /\ ptTimer' = (ptTimer /\ ~ptFinal')
    BY <1>14 DEF PollArrives
  <2> QED BY <1>1, <2>2, <2>3 DEF PageInv
<1>15. ASSUME NEW q \in Polls, PollFails(q) PROVE PageInv'
  BY <1>15 DEF PollFails, PageInv
<1>16. CASE UNCHANGED <<ptShown, ptSubmitting, ptSaid, ptFinal, ptStream, ptTimer, ptStray>>
  BY <1>16 DEF PageInv
<1> QED
  BY <1>6, <1>7, <1>8, <1>9, <1>10, <1>11, <1>12, <1>13, <1>14, <1>15, <1>16
  DEF PtNext, ptVars, ptEffect, PaymentEnds, ServerAnswers

\* What the page remembers keeps its type; a tracking never polls more than
\* MaxRounds times, and no more than MaxPollErrors failures in a row are counted.
THEOREM PageTypes == PtSpec => []PtTypeOK
<1>1. PtInit => ErrorsInv /\ RoundsInv /\ PageInv
  <2> SUFFICES ASSUME PtInit PROVE ErrorsInv /\ RoundsInv /\ PageInv
    OBVIOUS
  <2>1. ErrorsInv /\ 0 \in 0..MaxRounds /\ 0 \in 0..MaxPollErrors
    BY TrackingAssumption DEF PtInit, ErrorsInv, TrackingAssumption
  <2>2. RoundsInv
    BY <2>1, Zenon DEF PtInit, RoundsInv
  <2>3. NothingShown \in Shown
    BY DEF Shown, NothingShown
  <2>4. PageInv
    BY <2>3, Zenon DEF PtInit, PageInv
  <2> QED BY <2>1, <2>2, <2>4
<1>2. RoundsInv /\ [PtNext]_ptVars => RoundsInv'
  BY RoundsCounted
<1>3. PtInv /\ PageInv /\ [PtNext]_ptVars => PageInv'
  BY PageTyped
<1>4. PtInv /\ RoundsInv /\ PageInv => PtTypeOK
  BY DEF PtInv, PtData, RoundsInv, PageInv, PtTypeOK
<1> QED
  BY <1>1, <1>2, <1>3, <1>4, PtInitInv, PtNextInv, ErrorsCounted, PTL DEF PtSpec
=============================================================================
