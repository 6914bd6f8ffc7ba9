---------------------------- MODULE PayinReplay ----------------------------
(***************************************************************************)
(* POST /payments/public/init presented several times: the same            *)
(* idempotency key replayed while the first call still runs, the same key  *)
(* with another vote, another key for a vote that has its row. One action  *)
(* is one statement of initPaymentCore, triggerVotePayin or                *)
(* attachProviderRef, or one call to the provider.                         *)
(*                                                                         *)
(* FedaPay gives the reference first and prompts the payer two calls       *)
(* later; FeexPay prompts the payer in the call that gives the reference.  *)
(***************************************************************************)
EXTENDS Integers, Sequences, FiniteSets

CONSTANTS
    RepRequests,  \* calls that may run at the same time
    Keys,         \* idempotency keys
    RepVotes,     \* votes to pay
    NoVote,       \* what a key that was never used stands for
    MaxSends      \* bound: transactions opened at the provider

ASSUME ReplayAssumption ==
    /\ NoVote \notin RepVotes
    /\ MaxSends \in Nat

VARIABLES
    repProvider,  \* the event's provider
    repKeys,      \* [Keys -> RepVotes \cup {NoVote}]: the payload each IdempotencyKey was created for
    repRows,      \* the PaymentTransaction rows, in the order of their creation
    repCalls,     \* [RepRequests -> Calls]
    repSends,     \* how many transactions the provider opened: reference n is the n-th
    repPrompts    \* the prompts shown to payers: the vote and the reference of each

repVars == <<repProvider, repKeys, repRows, repCalls, repSends, repPrompts>>

RepProviders == {"FEDAPAY", "FEEXPAY"}
NoRef == 0
Refs  == 0..MaxSends
RepRows == [key : Keys, vote : RepVotes, status : {"PENDING", "FAILED"}, ref : Refs]

\* A call: its next statement, what it was given, the row and the reference it holds.
RepSteps == {"find", "createKey", "count", "createRow", "trigger", "send", "bind", "push", "unsent"}
Calls == [at : RepSteps, key : Keys, vote : RepVotes, row : Nat, ref : Refs] \cup {<<>>}
NoCall == <<>>

RowsOf(v)   == {i \in DOMAIN repRows : repRows[i].vote = v}
RowsWith(k) == {i \in DOMAIN repRows : repRows[i].key = k}

Calling(r, step)  == repCalls[r] # NoCall /\ repCalls[r].at = step
CallGoes(r, step) == repCalls' = [repCalls EXCEPT ![r].at = step]
CallEnds(r)       == repCalls' = [repCalls EXCEPT ![r] = NoCall]
RowOf(r)          == repRows[repCalls[r].row]

RepInit ==
    /\ repProvider \in RepProviders
    /\ repKeys = [k \in Keys |-> NoVote]
    /\ repRows = <<>>
    /\ repCalls = [r \in RepRequests |-> NoCall]
    /\ repSends = 0
    /\ repPrompts = {}

InitPublicPayment(r, k, v) ==
    /\ repCalls[r] = NoCall
    /\ repCalls' = [repCalls EXCEPT ![r] = [at |-> "find", key |-> k, vote |-> v,
                                            row |-> 0, ref |-> NoRef]]
    /\ UNCHANGED <<repProvider, repKeys, repRows, repSends, repPrompts>>

\* The key was never used; it was used with another payload; it has a row, which
\* this call takes over; or its row was not created.
FindKey(r) ==
    LET call == repCalls[r]
    IN  /\ Calling(r, "find")
        /\ \/ repKeys[call.key] = NoVote /\ CallGoes(r, "createKey")
           \/ repKeys[call.key] \notin {NoVote, call.vote} /\ CallEnds(r)
           \/ /\ repKeys[call.key] = call.vote
              /\ RowsWith(call.key) = {}
              /\ CallGoes(r, "count")
           \/ /\ repKeys[call.key] = call.vote
              /\ \E i \in RowsWith(call.key) :
                    repCalls' = [repCalls EXCEPT ![r].at = "trigger", ![r].row = i]
        /\ UNCHANGED <<repProvider, repKeys, repRows, repSends, repPrompts>>

CreateKey(r) ==
    LET call == repCalls[r]
    IN  /\ Calling(r, "createKey")
        /\ IF repKeys[call.key] = NoVote
              THEN /\ repKeys' = [repKeys EXCEPT ![call.key] = call.vote]
                   /\ CallGoes(r, "count")
              ELSE CallEnds(r) /\ UNCHANGED repKeys
        /\ UNCHANGED <<repProvider, repRows, repSends, repPrompts>>

CountRequests(r) ==
    /\ Calling(r, "count")
    /\ IF RowsOf(repCalls[r].vote) = {} THEN CallGoes(r, "createRow") ELSE CallEnds(r)
    /\ UNCHANGED <<repProvider, repKeys, repRows, repSends, repPrompts>>

\* voteId and idempotencyKey are unique.
CreateRow(r) ==
    LET call == repCalls[r]
    IN  /\ Calling(r, "createRow")
        /\ IF RowsOf(call.vote) \cup RowsWith(call.key) = {}
              THEN /\ repRows' = Append(repRows, [key |-> call.key, vote |-> call.vote,
                                                  status |-> "PENDING", ref |-> NoRef])
                   /\ repCalls' = [repCalls EXCEPT ![r].at = "trigger", ![r].row = Len(repRows')]
              ELSE CallEnds(r) /\ UNCHANGED repRows
        /\ UNCHANGED <<repProvider, repKeys, repSends, repPrompts>>

\* A row that carries a reference, or is closed, is answered as it is.
TriggerPayin(r) ==
    /\ Calling(r, "trigger")
    /\ IF RowOf(r).ref = NoRef /\ RowOf(r).status = "PENDING"
          THEN CallGoes(r, "send") ELSE CallEnds(r)
    /\ UNCHANGED <<repProvider, repKeys, repRows, repSends, repPrompts>>

\* The network or the number is not accepted: the row is closed, whatever it became.
RefusePayin(r) ==
    /\ Calling(r, "send")
    /\ repRows' = [repRows EXCEPT ![repCalls[r].row].status = "FAILED"]
    /\ CallEnds(r)
    /\ UNCHANGED <<repProvider, repKeys, repSends, repPrompts>>

Prompt(r, ref) == [vote |-> repCalls[r].vote, ref |-> ref]

\* The provider opens the transaction, or not; its answer arrives, or not.
SendPayin(r) ==
    /\ Calling(r, "send")
    /\ \/ /\ repSends < MaxSends
          /\ repSends' = repSends + 1
          /\ repPrompts' = IF repProvider = "FEEXPAY"
                              THEN repPrompts \cup {Prompt(r, repSends')} ELSE repPrompts
          /\ \/ repCalls' = [repCalls EXCEPT ![r].at = "bind", ![r].ref = repSends']
             \/ CallGoes(r, "unsent")
       \/ CallGoes(r, "unsent") /\ UNCHANGED <<repSends, repPrompts>>
    /\ UNCHANGED <<repProvider, repKeys, repRows>>

\* Mutant: a reference is written over the one that is bound.
BindReference_Overwrites(r) ==
    LET call == repCalls[r]
    IN  /\ Calling(r, "bind")
        /\ repRows' = [repRows EXCEPT ![call.row].ref = call.ref]
        /\ IF repProvider = "FEEXPAY" THEN CallEnds(r) ELSE CallGoes(r, "push")
        /\ UNCHANGED <<repProvider, repKeys, repSends, repPrompts>>

\* attachProviderRef: from null only. FedaPay's call waits for it before it goes on.
BindReference(r) ==
    LET call == repCalls[r]
    IN  /\ Calling(r, "bind")
        /\ repRows' = IF RowOf(r).ref = NoRef
                         THEN [repRows EXCEPT ![call.row].ref = call.ref] ELSE repRows
        /\ IF repProvider = "FEEXPAY" THEN CallEnds(r)
           ELSE CallGoes(r, IF RowOf(r).ref = NoRef THEN "push" ELSE "unsent")
        /\ UNCHANGED <<repProvider, repKeys, repSends, repPrompts>>

\* FedaPay's token, then its prompt; either call may fail.
PushPrompt(r) ==
    /\ Calling(r, "push")
    /\ \/ repPrompts' = repPrompts \cup {Prompt(r, repCalls[r].ref)} /\ CallEnds(r)
       \/ CallGoes(r, "unsent") /\ UNCHANGED repPrompts
    /\ UNCHANGED <<repProvider, repKeys, repRows, repSends>>

FailUnsent(r) ==
    LET i == repCalls[r].row
    IN  /\ Calling(r, "unsent")
        /\ repRows' = IF repRows[i].ref = NoRef /\ repRows[i].status = "PENDING"
                         THEN [repRows EXCEPT ![i].status = "FAILED"] ELSE repRows
        /\ CallEnds(r)
        /\ UNCHANGED <<repProvider, repKeys, repSends, repPrompts>>

\* The process stops, or the payer's connection with it.
CallStops(r) ==
    /\ repCalls[r] # NoCall
    /\ CallEnds(r)
    /\ UNCHANGED <<repProvider, repKeys, repRows, repSends, repPrompts>>

RepNext ==
    \E r \in RepRequests :
        \/ \E k \in Keys, v \in RepVotes : InitPublicPayment(r, k, v)
        \/ FindKey(r) \/ CreateKey(r) \/ CountRequests(r) \/ CreateRow(r)
        \/ TriggerPayin(r) \/ RefusePayin(r) \/ SendPayin(r) \/ BindReference(r)
        \/ PushPrompt(r) \/ FailUnsent(r) \/ CallStops(r)

RepSpec == RepInit /\ [][RepNext]_repVars

-----------------------------------------------------------------------------
RepTypeOK ==
    /\ repProvider \in RepProviders
    /\ repKeys \in [Keys -> RepVotes \cup {NoVote}]
    /\ repRows \in Seq(RepRows)
    /\ repCalls \in [RepRequests -> Calls]
    /\ repSends \in Refs
    /\ repPrompts \subseteq [vote : RepVotes, ref : Refs]

\* A vote has one payment row, whatever keys it is presented with, and with
\* FedaPay its payer sees one prompt, for the reference its row carries: calls
\* that all found the row without a reference open several transactions, and
\* one goes on (initPaymentCore, triggerVotePayin, attachProviderRef).
OneDebitPerVote ==
    \A v \in RepVotes :
        /\ Cardinality(RowsOf(v)) <= 1
        /\ repProvider = "FEDAPAY" =>
              \A p \in repPrompts : p.vote = v => \A i \in RowsOf(v) : p.ref = repRows[i].ref
=============================================================================
