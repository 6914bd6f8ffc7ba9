--------------------------- MODULE PaymentsProofs ---------------------------
(***************************************************************************)
(* Proofs about Payments, for every set of payments, buyers and workers    *)
(* and every stock.  The inductive invariant IInv adds to the properties   *)
(* what the requests and the verification jobs know about the payment they *)
(* work on.                                                                *)
(***************************************************************************)
EXTENDS Payments, TLAPS, FiniteSetTheorems

\* A request that has not reached the provider finds no record there, and one
\* that has created no row finds none; the prompt follows the reference.
RequestInv ==
    \A t \in Pays :
        /\ req[t] \in {"new", "asked"} => status[t] = "ABSENT"
        /\ req[t] \in {"new", "asked", "trigger", "send"} => psp[t] = "none"
        /\ req[t] = "push" => ref[t]

\* A job works on a payment; once past the pull it knows what the provider
\* said, and a late one that a timeout audit exists.
JobFine(j) ==
    /\ j \in Jobs
    /\ j.at # "idle" => j.pay \in Pays
    /\ j.at \in {"apply", "recover", "reopen"} => psp[j.pay] = "paid"
    /\ j.at = "pull" /\ j.late => j.pay \in abandoned
    /\ j.at \in {"recover", "reopen"} => j.pay \in abandoned

JobInv == \A w \in Workers : JobFine(job[w])

\* Between the reading of the event and its commit, a recovery is alone with the
\* payment, a vote's, and the row is still the failed one that it locked.
RowLockInv ==
    /\ \A w \in Workers : job[w].at = "reopen" =>
         status[job[w].pay] = "FAILED" /\ Purpose[job[w].pay] = "VOTE"
    /\ \A v, w \in Workers :
         job[v].at = "reopen" /\ job[w].at = "reopen" /\ job[v].pay = job[w].pay => v = w

IInv ==
    /\ TypeOK
    /\ RequestInv
    /\ JobInv
    /\ RowLockInv
    /\ CreditedExactlyOnce
    /\ NoCreditWithoutMoney
    /\ GoodsFollowPayment
    /\ NeverOversold
    /\ FedapayPromptIsTraceable

-----------------------------------------------------------------------------
(* Lemmas: types of what the actions write, and seats.                     *)

\* Releasing or failing payments writes ticket and payment states of their
\* columns' types.
LEMMA ReleaseType ==
    ASSUME TypeOK, NEW U \in SUBSET Pays
    PROVE  Released(U) \in [Pays -> SeatStates]
BY DEF TypeOK, Released, SeatStates

LEMMA FailType ==
    ASSUME TypeOK, NEW t \in Pays, FailPayment(t)
    PROVE  /\ status' \in [Pays -> Statuses]
           /\ seat' \in [Pays -> SeatStates]
BY ReleaseType DEF TypeOK, FailPayment, Statuses

\* A set of seats that lost holders is still within the stock.
LEMMA SeatsShrink ==
    ASSUME NEW s1, NEW s2, SeatHolders(s2) \subseteq SeatHolders(s1),
           Cardinality(SeatHolders(s1)) <= Stock
    PROVE  Cardinality(SeatHolders(s2)) <= Stock
<1>1. IsFiniteSet(SeatHolders(s1))
  BY FS_Subset, PaymentsAssumption DEF SeatHolders
<1>2. /\ Cardinality(SeatHolders(s2)) <= Cardinality(SeatHolders(s1))
      /\ IsFiniteSet(SeatHolders(s2))
  BY <1>1, FS_Subset
<1> QED
  BY <1>1, <1>2, FS_CardinalityType, PaymentsAssumption

\* One more holder fits where the limit was checked with it counted.
LEMMA SeatsGrow ==
    ASSUME NEW s1, NEW s2, NEW t, SeatHolders(s2) \subseteq SeatHolders(s1) \cup {t},
           Cardinality(SeatHolders(s1)) + 1 <= Stock
    PROVE  Cardinality(SeatHolders(s2)) <= Stock
<1>1. IsFiniteSet(SeatHolders(s1))
  BY FS_Subset, PaymentsAssumption DEF SeatHolders
<1>2. /\ IsFiniteSet(SeatHolders(s1) \cup {t})
      /\ \/ Cardinality(SeatHolders(s1) \cup {t}) = Cardinality(SeatHolders(s1))
         \/ Cardinality(SeatHolders(s1) \cup {t}) = Cardinality(SeatHolders(s1)) + 1
  BY <1>1, FS_AddElement, Zenon
<1>3. /\ Cardinality(SeatHolders(s2)) <= Cardinality(SeatHolders(s1) \cup {t})
      /\ IsFiniteSet(SeatHolders(s2))
  BY <1>2, FS_Subset
<1> QED
  BY <1>1, <1>2, <1>3, FS_CardinalityType, PaymentsAssumption

-----------------------------------------------------------------------------
(* Steps that move a job and nothing else.                                 *)

\* No step makes a row that a recovery holds anything but failed: as long as
\* nobody else starts to hold it, the recovery is alone with it.
LEMMA RowLockKept ==
    ASSUME IInv, \A w \in Workers : job'[w].at = "reopen" => job'[w] = job[w],
           \A t \in Pays : status[t] = "FAILED" => status'[t] = "FAILED"
    PROVE  RowLockInv'
<1>1. \A w \in Workers : job[w].at = "reopen" => job[w].pay \in Pays
  BY DEF IInv, JobInv, JobFine
<1> QED BY <1>1 DEF IInv, RowLockInv

\* A step that gives one worker a job it can justify, other than holding a row,
\* and takes no row out of FAILED.
LEMMA OtherJob ==
    ASSUME IInv, NEW w \in Workers, NEW j, j.at # "reopen", job' = [job EXCEPT ![w] = j],
           \A t \in Pays : status[t] = "FAILED" => status'[t] = "FAILED"
    PROVE  RowLockInv'
<1>1. \A v \in Workers : job'[v] = IF v = w THEN j ELSE job[v]
  BY DEF IInv, TypeOK
<1> QED BY <1>1, RowLockKept

\* A step that only gives one worker a job it can justify keeps IInv.
LEMMA JobStep ==
    ASSUME IInv, NEW w \in Workers, NEW j, JobFine(j), j.at # "reopen",
           job' = [job EXCEPT ![w] = j],
           UNCHANGED <<event, req, psp, status, ref, age, seat, counted,
                       credits, abandoned, flags>>
    PROVE  IInv'
<1>1. TypeOK'
  BY DEF IInv, TypeOK, JobFine
<1>2. JobInv'
  BY DEF IInv, TypeOK, JobInv, JobFine
<1>3. RowLockInv'
  BY OtherJob
<1> QED
  BY <1>1, <1>2, <1>3 DEF IInv, RequestInv, CreditedExactlyOnce,
     NoCreditWithoutMoney, GoodsFollowPayment, NeverOversold, FedapayPromptIsTraceable

\* Ending a job is always justified; moving it to another step is, when that
\* step asks nothing, or only what is known.
LEMMA EndJobFine == JobFine(Idle) /\ Idle.at # "reopen"
BY DEF JobFine, Idle, Job, Jobs, JobSteps

LEMMA GoToFine ==
    ASSUME IInv, NEW w \in Workers, NEW step \in JobSteps,
           job[w].at # "idle", step # "reopen", GoTo(w, step),
           step \in {"apply", "recover"} => psp[job[w].pay] = "paid",
           step = "recover" => job[w].pay \in abandoned
    PROVE  \E j : JobFine(j) /\ j.at # "reopen" /\ job' = [job EXCEPT ![w] = j]
<1> DEFINE j == Job(step, job[w].pay, FALSE, job[w].old)
<1>1. job[w] \in Jobs /\ job[w].pay \in Pays
  BY DEF IInv, JobInv, JobFine
<1>2. JobFine(j) /\ j.at # "reopen"
  BY <1>1 DEF JobFine, Jobs, Job
<1>3. job' = [job EXCEPT ![w] = j]
  BY DEF GoTo
<1> QED
  BY <1>2, <1>3

\* Every step of a worker that writes nothing but its own job keeps IInv.
LEMMA JobMoves ==
    ASSUME IInv, NEW w \in Workers,
           \/ \E t \in Pays : Webhook(w, t) \/ PollStatus(w, t) \/ SweepRow(w, t)
           \/ ReadPayment(w) \/ PullUnresolved(w) \/ PullRefused(w)
           \/ PullMismatch(w) \/ PullPaid(w) \/ FlagLookup(w)
           \/ StepAborts(w) \/ WorkerCrash(w)
    PROVE  IInv'
<1>1. UNCHANGED <<event, req, psp, status, ref, age, seat, counted, credits,
                  abandoned, flags>>
  BY DEF Webhook, PollStatus, SweepRow, ReadPayment, PullUnresolved, PullRefused,
         PullMismatch, PullPaid, FlagLookup, StepAborts, WorkerCrash
<1>2. JobFine(job[w])
  BY DEF IInv, JobInv
<1>3. EndJob(w) => \E j : JobFine(j) /\ j.at # "reopen" /\ job' = [job EXCEPT ![w] = j]
  BY EndJobFine DEF EndJob
<1>4. ASSUME job[w].at # "idle", Unresolved(w)
      PROVE  \E j : JobFine(j) /\ j.at # "reopen" /\ job' = [job EXCEPT ![w] = j]
  BY <1>3, <1>4, GoToFine DEF Unresolved, JobSteps
<1>5. \E j : JobFine(j) /\ j.at # "reopen" /\ job' = [job EXCEPT ![w] = j]
  <2>1. CASE \E t \in Pays : Webhook(w, t) \/ PollStatus(w, t) \/ SweepRow(w, t)
    <3>1. PICK t \in Pays : Webhook(w, t) \/ SweepRow(w, t)
      BY <2>1 DEF PollStatus
    <3>2. \A o \in BOOLEAN, step \in {"read", "orphan"} :
             JobFine(Job(step, t, FALSE, o)) /\ Job(step, t, FALSE, o).at # "reopen"
      BY DEF JobFine, Jobs, Job, JobSteps
    <3> QED
      BY <3>1, <3>2 DEF Webhook, SweepRow
  <2>2. CASE ReadPayment(w)
    <3>1. CASE EndJob(w)
      BY <3>1, <1>3
    <3>2. CASE ~EndJob(w)
      <4> DEFINE t == job[w].pay
                 j == Job("pull", t, status[t] = "FAILED", job[w].old)
      <4>1. job' = [job EXCEPT ![w] = j] /\ (status[t] = "FAILED" => t \in abandoned)
        BY <2>2, <3>2 DEF ReadPayment
      <4>2. JobFine(j) /\ j.at # "reopen"
        BY <2>2, <1>2, <4>1 DEF ReadPayment, JobFine, Jobs, Job, JobSteps
      <4> QED
        BY <4>1, <4>2
    <3> QED
      BY <3>1, <3>2
  <2>3. CASE PullUnresolved(w)
    BY <2>3, <1>3, <1>4 DEF PullUnresolved
  <2>4. CASE PullRefused(w)
    BY <2>4, <1>3, GoToFine DEF PullRefused, JobSteps
  <2>5. CASE PullMismatch(w)
    BY <2>5, <1>4 DEF PullMismatch
  <2>6. CASE PullPaid(w)
    BY <2>6, <1>2, GoToFine DEF PullPaid, JobSteps, JobFine
  <2>7. CASE FlagLookup(w)
    BY <2>7, <1>3, GoToFine DEF FlagLookup, JobSteps
  <2>8. CASE StepAborts(w)
    BY <2>8, <1>4 DEF StepAborts
  <2>9. CASE WorkerCrash(w)
    BY <2>9, <1>3 DEF WorkerCrash
  <2> QED
    BY <2>1, <2>2, <2>3, <2>4, <2>5, <2>6, <2>7, <2>8, <2>9
<1> QED
  BY <1>1, <1>5, JobStep

-----------------------------------------------------------------------------
(* Steps that change the payment.                                          *)

\* A step that keeps every job and, for each payment, what the jobs know of it.
LEMMA JobsKept ==
    ASSUME IInv, UNCHANGED job, abandoned \subseteq abandoned',
           \A t \in Pays : psp[t] = "paid" => psp'[t] = "paid",
           \A t \in Pays : status[t] = "FAILED" => status'[t] = "FAILED"
    PROVE  JobInv' /\ RowLockInv'
BY RowLockKept DEF IInv, JobInv, JobFine

\* A step after which one worker is idle, as above.
LEMMA JobEnds ==
    ASSUME IInv, NEW w \in Workers, EndJob(w), abandoned \subseteq abandoned',
           \A t \in Pays : psp[t] = "paid" => psp'[t] = "paid",
           \A t \in Pays : status[t] = "FAILED" => status'[t] = "FAILED"
    PROVE  JobInv' /\ RowLockInv' /\ job' \in [Workers -> Jobs]
<1>1. Idle \in Jobs /\ Idle.at = "idle"
  BY DEF Jobs, Idle, Job, JobSteps
<1>2. RowLockInv'
  BY <1>1, OtherJob DEF EndJob
<1> QED
  BY <1>1, <1>2 DEF IInv, JobInv, JobFine, EndJob, TypeOK

\* Steps of the event, of time, of the provider and of a request that write
\* neither a payment's status nor a seat keep IInv.
LEMMA RequestMoves ==
    ASSUME IInv, NEW t \in Pays,
           \/ EventMoves \/ Ageing(t) \/ AskPayment(t) \/ TriggerPayin(t)
           \/ SendPayin(t) \/ AttachProviderRef(t) \/ PushPrompt(t)
           \/ RequestCrash(t) \/ PspResolves(t)
    PROVE  IInv'
<1> USE DEF EventMoves, Ageing, AskPayment, TriggerPayin, SendPayin,
            AttachProviderRef, PushPrompt, RequestCrash, PspResolves
<1>1. UNCHANGED <<status, seat, counted, credits, abandoned, flags, job>>
  OBVIOUS
<1>2. TypeOK'
  <2>1. age' \in [Pays -> 0..2]
    BY DEF IInv, TypeOK, MaxAge
  <2>2. req' \in [Pays -> ReqSteps]
    BY DEF IInv, TypeOK, ReqSteps
  <2>3. psp' \in [Pays -> PspStates]
    BY DEF IInv, TypeOK, PspStates
  <2>4. event' \in {"open", "ended", "closed"} /\ ref' \in [Pays -> BOOLEAN]
    BY DEF IInv, TypeOK
  <2> QED
    BY <1>1, <2>1, <2>2, <2>3, <2>4 DEF IInv, TypeOK
<1>3. RequestInv'
  BY DEF IInv, TypeOK, RequestInv
<1>4. \A u \in Pays : psp[u] = "paid" => psp'[u] = "paid"
  BY DEF IInv, TypeOK, RequestInv
<1>5. JobInv' /\ RowLockInv'
  BY <1>1, <1>4, JobsKept
<1>6. NoCreditWithoutMoney'
  BY <1>1, <1>4 DEF IInv, NoCreditWithoutMoney
<1>7. FedapayPromptIsTraceable'
  BY PaymentsAssumption DEF IInv, TypeOK, RequestInv, FedapayPromptIsTraceable
<1> QED
  BY <1>1, <1>2, <1>3, <1>5, <1>6, <1>7
     DEF IInv, CreditedExactlyOnce, GoodsFollowPayment, NeverOversold

\* What every way of closing a pending payment keeps: FailPayment, with or
\* without a timeout audit, from a request or from a job.
LEMMA FailPaymentKeeps ==
    ASSUME IInv, NEW t \in Pays, status[t] = "PENDING", FailPayment(t),
           UNCHANGED <<psp, ref, counted, credits>>
    PROVE  /\ status' \in [Pays -> Statuses]
           /\ seat' \in [Pays -> SeatStates]
           /\ \A u \in Pays : status[u] \in {"ABSENT", "FAILED"} => status'[u] = status[u]
           /\ CreditedExactlyOnce'
           /\ NoCreditWithoutMoney'
           /\ GoodsFollowPayment'
           /\ NeverOversold'
<1>1. /\ status' \in [Pays -> Statuses]
      /\ seat' \in [Pays -> SeatStates]
  BY FailType DEF IInv
<1>2. /\ status' = [status EXCEPT ![t] = "FAILED"]
      /\ seat' = [seat EXCEPT ![t] = IF @ = "RESERVED" THEN "CANCELLED" ELSE @]
  BY DEF FailPayment, Released, IInv, TypeOK
<1>3. \A u \in Pays : status[u] \in {"ABSENT", "FAILED"} => status'[u] = status[u]
  BY <1>2 DEF IInv, TypeOK
<1>4. CreditedExactlyOnce'
  BY <1>2 DEF IInv, TypeOK, CreditedExactlyOnce
<1>5. NoCreditWithoutMoney'
  BY <1>2 DEF IInv, TypeOK, NoCreditWithoutMoney
<1>6. GoodsFollowPayment'
  BY <1>2 DEF IInv, TypeOK, GoodsFollowPayment
<1>7. NeverOversold'
  BY <1>2, SeatsShrink DEF IInv, TypeOK, NeverOversold, SeatHolders, Holding
<1> QED
  BY <1>1, <1>3, <1>4, <1>5, <1>6, <1>7

\* The request's ways of closing its own payment keep IInv.
LEMMA RequestFails ==
    ASSUME IInv, NEW t \in Pays, RefuseNetwork(t) \/ FailUnsentPayment(t)
    PROVE  IInv'
<1>1. /\ req[t] \in {"send", "fail"}
      /\ req' = [req EXCEPT ![t] = "done"]
      /\ UNCHANGED <<event, psp, ref, age, counted, credits, abandoned, flags, job>>
  BY DEF RefuseNetwork, FailUnsentPayment
<1>2. ASSUME \A u \in Pays : status[u] = "FAILED" => status'[u] = "FAILED"
      PROVE  JobInv' /\ RowLockInv'
  BY <1>1, <1>2, JobsKept
<1>3. FedapayPromptIsTraceable'
  BY <1>1 DEF IInv, FedapayPromptIsTraceable
<1>4. CASE status[t] = "PENDING" /\ FailPayment(t)
  <2>1. RequestInv'
    BY <1>1, <1>4, FailPaymentKeeps DEF IInv, TypeOK, RequestInv
  <2>2. TypeOK'
    BY <1>1, <1>4, FailType DEF IInv, TypeOK, ReqSteps
  <2> QED
    BY <1>1, <1>2, <1>3, <1>4, <2>1, <2>2, FailPaymentKeeps DEF IInv
<1>5. CASE ~(status[t] = "PENDING" /\ FailPayment(t))
  <2>1. UNCHANGED status /\ seat' = seat
    <3>1. CASE RefuseNetwork(t)
      BY <1>5, <3>1 DEF RefuseNetwork, Released, IInv, TypeOK, GoodsFollowPayment, FailPayment
    <3>2. CASE FailUnsentPayment(t)
      BY <1>5, <3>2 DEF FailUnsentPayment
    <3> QED
      BY <3>1, <3>2
  <2>2. TypeOK'
    BY <1>1, <2>1 DEF IInv, TypeOK, ReqSteps
  <2>3. RequestInv'
    BY <1>1, <2>1 DEF IInv, TypeOK, RequestInv
  <2> QED
    BY <1>1, <1>2, <1>3, <2>1, <2>2, <2>3
       DEF IInv, CreditedExactlyOnce, NoCreditWithoutMoney, GoodsFollowPayment,
           NeverOversold
<1> QED
  BY <1>4, <1>5

\* The pipeline's and the sweep's ways of closing a payment keep IInv.
LEMMA WorkerFails ==
    ASSUME IInv, NEW w \in Workers, MarkFailed(w) \/ GiveUp(w) \/ ExpireOrphan(w)
    PROVE  IInv'
<1> DEFINE t == job[w].pay
<1>1. /\ t \in Pays
      /\ EndJob(w)
      /\ abandoned' \in {abandoned, abandoned \cup {t}}
      /\ UNCHANGED <<event, req, psp, ref, age, counted, credits, flags>>
  BY DEF MarkFailed, GiveUp, ExpireOrphan, Abandon, IInv, JobInv, JobFine
<1>2. ASSUME \A u \in Pays : status[u] = "FAILED" => status'[u] = "FAILED"
      PROVE  JobInv' /\ RowLockInv' /\ job' \in [Workers -> Jobs]
  BY <1>1, <1>2, JobEnds
<1>3. FedapayPromptIsTraceable'
  BY <1>1 DEF IInv, FedapayPromptIsTraceable
<1>4. CASE status[t] = "PENDING" /\ FailPayment(t)
  <2>1. RequestInv'
    BY <1>1, <1>4 DEF IInv, TypeOK, RequestInv, FailPayment
  <2>2. JobInv' /\ RowLockInv' /\ job' \in [Workers -> Jobs]
    BY <1>1, <1>2, <1>4, FailPaymentKeeps
  <2>3. TypeOK'
    BY <1>1, <1>4, <2>2, FailType DEF IInv, TypeOK
  <2> QED
    BY <1>1, <1>3, <1>4, <2>1, <2>2, <2>3, FailPaymentKeeps DEF IInv
<1>5. CASE ~(status[t] = "PENDING" /\ FailPayment(t))
  <2>1. UNCHANGED <<status, seat, abandoned>>
    BY <1>5 DEF MarkFailed, GiveUp, ExpireOrphan, Abandon
  <2>2. TypeOK'
    BY <1>1, <1>2, <2>1 DEF IInv, TypeOK
  <2> QED
    BY <1>1, <1>2, <1>3, <2>1, <2>2
       DEF IInv, RequestInv, CreditedExactlyOnce, NoCreditWithoutMoney,
           GoodsFollowPayment, NeverOversold
<1> QED
  BY <1>4, <1>5

\* A vote's new row, a scan at the door and a refund audit keep IInv.
LEMMA SmallWrites ==
    ASSUME IInv,
           \/ \E t \in Pays : CreateVotePayment(t) \/ ValidateTicket(t)
           \/ \E w \in Workers : FlagRefund(w)
    PROVE  IInv'
<1>1. CASE \E t \in Pays : CreateVotePayment(t)
  <2>1. PICK t \in Pays : CreateVotePayment(t)
    BY <1>1
  <2>2. /\ req[t] = "asked" /\ Purpose[t] = "VOTE"
        /\ status[t] = "ABSENT" /\ psp[t] = "none"
        /\ status' = [status EXCEPT ![t] = "PENDING"]
        /\ req' = [req EXCEPT ![t] = "trigger"]
        /\ UNCHANGED <<event, psp, ref, age, seat, counted, credits, abandoned,
                       flags, job>>
    BY <2>1 DEF CreateVotePayment, IInv, RequestInv
  <2>3. TypeOK' /\ RequestInv'
    BY <2>2 DEF IInv, TypeOK, RequestInv, Statuses, ReqSteps
  <2>4. JobInv' /\ RowLockInv'
    BY <2>2, JobsKept DEF IInv, TypeOK
  <2>5. CreditedExactlyOnce' /\ GoodsFollowPayment'
    BY <2>2 DEF IInv, TypeOK, CreditedExactlyOnce, GoodsFollowPayment
  <2> QED
    BY <2>2, <2>3, <2>4, <2>5
       DEF IInv, NoCreditWithoutMoney, NeverOversold, FedapayPromptIsTraceable
<1>2. CASE \E t \in Pays : ValidateTicket(t)
  <2>1. PICK t \in Pays : ValidateTicket(t)
    BY <1>2
  <2>2. /\ seat[t] = "PAID"
        /\ seat' = [seat EXCEPT ![t] = "USED"]
        /\ UNCHANGED <<event, req, psp, status, ref, age, counted, credits,
                       abandoned, flags, job>>
    BY <2>1 DEF ValidateTicket
  <2>3. TypeOK'
    BY <2>2 DEF IInv, TypeOK, SeatStates
  <2>4. JobInv' /\ RowLockInv'
    BY <2>2, JobsKept
  <2>5. NoCreditWithoutMoney' /\ GoodsFollowPayment'
    BY <2>2 DEF IInv, TypeOK, NoCreditWithoutMoney, GoodsFollowPayment
  <2>6. NeverOversold'
    BY <2>2, SeatsShrink DEF IInv, TypeOK, NeverOversold, SeatHolders, Holding
  <2> QED
    BY <2>2, <2>3, <2>4, <2>5, <2>6
       DEF IInv, RequestInv, CreditedExactlyOnce, FedapayPromptIsTraceable
<1>3. CASE \E w \in Workers : FlagRefund(w)
  <2>1. PICK w \in Workers : FlagRefund(w)
    BY <1>3
  <2>2. /\ EndJob(w)
        /\ UNCHANGED <<event, req, psp, status, ref, age, seat, counted, credits,
                       abandoned>>
        /\ flags' = [flags EXCEPT ![job[w].pay] = flags[job[w].pay] + 1]
    BY <2>1 DEF FlagRefund
  <2>3. JobInv' /\ RowLockInv' /\ job' \in [Workers -> Jobs]
    BY <2>2, JobEnds
  <2>4. flags' \in [Pays -> Nat]
    <3>1. flags \in [Pays -> Nat] /\ job[w].pay \in Pays
      BY <2>1 DEF FlagRefund, IInv, TypeOK, JobInv, JobFine
    <3>2. flags[job[w].pay] + 1 \in Nat
      BY <3>1
    <3> QED
      BY <2>2, <3>1, <3>2
  <2> QED
    BY <2>2, <2>3, <2>4
       DEF IInv, TypeOK, RequestInv, CreditedExactlyOnce, NoCreditWithoutMoney,
           GoodsFollowPayment, NeverOversold, FedapayPromptIsTraceable
<1> QED
  BY <1>1, <1>2, <1>3

\* The purchase's transaction: the limit is checked on the seats left once the
\* buyer's own unpaid purchases are released.
LEMMA Purchase ==
    ASSUME IInv, NEW t \in Pays, CreatePurchase(t)
    PROVE  IInv'
<1> DEFINE own  == OwnUnpaid(t)
           left == Released(own)
<1>1. /\ req[t] = "asked" /\ Purpose[t] = "TICKET" /\ status[t] = "ABSENT"
      /\ psp[t] = "none" /\ seat[t] = "none"
  BY DEF CreatePurchase, IInv, RequestInv, GoodsFollowPayment
<1>2. /\ own \subseteq Pays
      /\ \A u \in own : seat[u] = "RESERVED" /\ status[u] = "PENDING" /\ ref[u]
  BY DEF OwnUnpaid
<1>3. /\ Cardinality(SeatHolders(left)) + 1 <= Stock
      /\ seat' = [left EXCEPT ![t] = "RESERVED"]
      /\ status' = [u \in Pays |-> IF u = t THEN "PENDING"
                                   ELSE IF u \in own THEN "FAILED"
                                   ELSE status[u]]
      /\ req' = [req EXCEPT ![t] = "trigger"]
      /\ abandoned' = abandoned \cup own
      /\ UNCHANGED <<event, psp, ref, age, counted, credits, flags, job>>
  BY DEF CreatePurchase
<1>4. left = [u \in Pays |-> IF u \in own THEN "CANCELLED" ELSE seat[u]]
  BY <1>2 DEF Released
<1> HIDE DEF own, left
<1>5. left \in [Pays -> SeatStates]
  BY <1>4 DEF IInv, TypeOK, SeatStates
<1>6. TypeOK'
  BY <1>2, <1>3, <1>5 DEF IInv, TypeOK, Statuses, SeatStates, ReqSteps
<1>7. RequestInv'
  BY <1>1, <1>2, <1>3 DEF IInv, TypeOK, RequestInv
<1>8. JobInv' /\ RowLockInv'
  <2>1. \A u \in Pays : status[u] = "FAILED" => status'[u] = "FAILED"
    BY <1>1, <1>2, <1>3
  <2> QED BY <1>3, <2>1, JobsKept
<1>9. CreditedExactlyOnce' /\ NoCreditWithoutMoney'
  BY <1>1, <1>2, <1>3, <1>4 DEF IInv, TypeOK, CreditedExactlyOnce, NoCreditWithoutMoney
<1>10. GoodsFollowPayment'
  BY <1>1, <1>2, <1>3, <1>4, <1>5 DEF IInv, TypeOK, GoodsFollowPayment
<1>11. SeatHolders(seat') \subseteq SeatHolders(left) \cup {t}
  BY <1>3, <1>5 DEF SeatHolders
<1>12. NeverOversold'
  BY <1>3, <1>11, SeatsGrow DEF NeverOversold
<1> QED
  BY <1>3, <1>6, <1>7, <1>8, <1>9, <1>10, <1>12 DEF IInv, FedapayPromptIsTraceable

\* Honouring a pending payment whose money the provider holds keeps IInv.
LEMMA Success ==
    ASSUME IInv, NEW w \in Workers, ApplySuccess(w)
    PROVE  IInv'
<1> DEFINE t == job[w].pay
<1>1. /\ t \in Pays /\ psp[t] = "paid"
      /\ EndJob(w)
      /\ UNCHANGED <<event, req, psp, ref, age, abandoned, flags>>
  BY DEF ApplySuccess, IInv, JobInv, JobFine
<1>2. JobInv' /\ RowLockInv' /\ job' \in [Workers -> Jobs]
  <2>1. \A u \in Pays : status[u] = "FAILED" => status'[u] = "FAILED"
    BY <1>1 DEF ApplySuccess, Honour, IInv, TypeOK
  <2> QED BY <1>1, <2>1, JobEnds
<1>3. CASE status[t] # "PENDING"
  <2>1. UNCHANGED <<status, seat, counted, credits>>
    BY <1>3 DEF ApplySuccess
  <2> QED
    BY <1>1, <1>2, <2>1
       DEF IInv, TypeOK, RequestInv, CreditedExactlyOnce, NoCreditWithoutMoney,
           GoodsFollowPayment, NeverOversold, FedapayPromptIsTraceable
<1>4. CASE status[t] = "PENDING"
  <2>1. Honour(t)
    BY <1>4 DEF ApplySuccess
  <2> HIDE DEF t
  <2>2. /\ credits' \in [Pays -> Nat] /\ seat' \in [Pays -> SeatStates]
        /\ status' \in [Pays -> Statuses] /\ counted' \subseteq Pays
    BY <1>1, <2>1 DEF IInv, TypeOK, Honour, SeatStates, Statuses
  <2>3. TypeOK'
    BY <1>1, <1>2, <2>2 DEF IInv, TypeOK
  <2>4. RequestInv'
    BY <1>1, <1>4, <2>1 DEF IInv, TypeOK, RequestInv, Honour
  <2>5. CreditedExactlyOnce'
    BY <1>1, <1>4, <2>1 DEF IInv, TypeOK, CreditedExactlyOnce, Honour
  <2>6. NoCreditWithoutMoney'
    BY <1>1, <2>1 DEF IInv, TypeOK, NoCreditWithoutMoney, Honour
  <2>7. GoodsFollowPayment'
    BY <1>1, <1>4, <2>1 DEF IInv, TypeOK, GoodsFollowPayment, Honour
  <2>8. NeverOversold'
    BY <2>1, SeatsShrink DEF IInv, TypeOK, NeverOversold, SeatHolders, Holding, Honour
  <2> QED
    BY <1>1, <1>2, <2>3, <2>4, <2>5, <2>6, <2>7, <2>8
       DEF IInv, FedapayPromptIsTraceable
<1> QED
  BY <1>3, <1>4

\* Taking a failed payment back to PENDING keeps the types of its row and seat,
\* and what the rows, the credits and the money say of each other.
LEMMA ReopenKeeps ==
    ASSUME IInv, NEW t \in Pays, status[t] = "FAILED",
           status' = [status EXCEPT ![t] = "PENDING"],
           seat' = IF Purpose[t] = "TICKET" THEN [seat EXCEPT ![t] = "RESERVED"] ELSE seat,
           UNCHANGED <<psp, req, ref, counted, credits>>
    PROVE  /\ status' \in [Pays -> Statuses] /\ seat' \in [Pays -> SeatStates]
           /\ RequestInv' /\ CreditedExactlyOnce' /\ NoCreditWithoutMoney'
           /\ GoodsFollowPayment'
<1>1. status' \in [Pays -> Statuses] /\ seat' \in [Pays -> SeatStates]
  BY DEF IInv, TypeOK, SeatStates, Statuses
<1>2. RequestInv'
  BY DEF IInv, TypeOK, RequestInv
<1>3. CreditedExactlyOnce' /\ NoCreditWithoutMoney'
  BY DEF IInv, TypeOK, CreditedExactlyOnce, NoCreditWithoutMoney
<1>4. GoodsFollowPayment'
  BY PaymentsAssumption DEF IInv, TypeOK, GoodsFollowPayment
<1> QED BY <1>1, <1>2, <1>3, <1>4

\* A recovery that holds no row yet: it is refused, it takes back a seat that
\* still fits, or it holds the row of a vote that nobody else holds.
LEMMA Recovery ==
    ASSUME IInv, NEW w \in Workers, RecoverLateSuccess(w)
    PROVE  IInv'
<1> DEFINE t == job[w].pay
<1>1. /\ t \in Pays /\ psp[t] = "paid" /\ t \in abandoned
      /\ job[w].at = "recover" /\ job[w] \in Jobs /\ Recovering(t) = {}
      /\ UNCHANGED <<event, req, psp, ref, age, counted, credits, abandoned, flags>>
  BY DEF RecoverLateSuccess, IInv, JobInv, JobFine
<1>2. CASE EndJob(w) \/ GoTo(w, "flag")
  <2>1. PICK j : JobFine(j) /\ j.at # "reopen" /\ job' = [job EXCEPT ![w] = j]
    BY <1>1, <1>2, EndJobFine, GoToFine DEF EndJob, JobSteps
  <2>2. UNCHANGED <<status, seat>>
    BY <1>1, <1>2 DEF RecoverLateSuccess, EndJob, GoTo, Job, Idle, IInv, TypeOK
  <2> QED BY <1>1, <2>1, <2>2, JobStep
<1>3. CASE /\ status[t] = "FAILED" /\ Purpose[t] = "VOTE"
           /\ GoTo(w, "reopen") /\ UNCHANGED <<status, seat>>
  <2> DEFINE j == Job("reopen", t, FALSE, job[w].old)
  <2>1. JobFine(j) /\ j.at = "reopen" /\ j.pay = t
    BY <1>1 DEF JobFine, Jobs, Job, JobSteps
  <2>2. \A v \in Workers : job'[v] = IF v = w THEN j ELSE job[v]
    BY <1>3 DEF GoTo, IInv, TypeOK
  <2> HIDE DEF j
  <2>3. job' \in [Workers -> Jobs]
    BY <1>3, <2>1, <2>2 DEF GoTo, IInv, TypeOK, JobFine
  <2>4. JobInv'
    BY <1>1, <2>1, <2>2 DEF IInv, JobInv, JobFine
  <2>5. \A v \in Workers : job[v].at = "reopen" => job[v].pay # t /\ job[v].pay \in Pays
    BY <1>1 DEF IInv, JobInv, JobFine, Recovering
  <2>6. RowLockInv'
    BY <1>1, <1>3, <2>1, <2>2, <2>5 DEF IInv, RowLockInv
  <2> QED
    BY <1>1, <1>3, <2>3, <2>4, <2>6
       DEF IInv, TypeOK, RequestInv, CreditedExactlyOnce, NoCreditWithoutMoney,
           GoodsFollowPayment, NeverOversold, FedapayPromptIsTraceable
<1>4. CASE /\ status[t] = "FAILED" /\ Purpose[t] = "TICKET" /\ ~LateRefusal(t)
           /\ status' = [status EXCEPT ![t] = "PENDING"]
           /\ seat' = [seat EXCEPT ![t] = "RESERVED"]
           /\ GoTo(w, "apply")
  <2>1. PICK j : JobFine(j) /\ j.at # "reopen" /\ job' = [job EXCEPT ![w] = j]
    BY <1>1, <1>4, GoToFine DEF JobSteps
  <2> HIDE DEF t
  <2>2. /\ status' \in [Pays -> Statuses] /\ seat' \in [Pays -> SeatStates]
        /\ RequestInv' /\ CreditedExactlyOnce' /\ NoCreditWithoutMoney'
        /\ GoodsFollowPayment'
    BY <1>1, <1>4, ReopenKeeps
  <2>3. TypeOK'
    BY <1>1, <2>1, <2>2 DEF IInv, TypeOK, JobFine
  <2>4. JobInv'
    BY <1>1, <2>1 DEF IInv, TypeOK, JobInv, JobFine
  <2>5. RowLockInv'
    <3>1. \A u \in Workers : job'[u] = IF u = w THEN j ELSE job[u]
      BY <2>1 DEF IInv, TypeOK
    <3>2. \A v \in Workers : job[v].at = "reopen" => job[v].pay # t /\ job[v].pay \in Pays
      BY <1>1 DEF IInv, JobInv, JobFine, Recovering
    <3>3. \A u \in Pays : u # t => status'[u] = status[u]
      BY <1>1, <1>4 DEF IInv, TypeOK
    <3> QED BY <2>1, <3>1, <3>2, <3>3 DEF IInv, RowLockInv
  <2>6. NeverOversold'
    <3>1. SeatHolders(seat') \subseteq SeatHolders(seat) \cup {t}
      BY <1>1, <1>4 DEF SeatHolders, IInv, TypeOK
    <3>2. Cardinality(SeatHolders(seat)) + 1 <= Stock
      <4>1. IsFiniteSet(SeatHolders(seat))
        BY FS_Subset, PaymentsAssumption DEF SeatHolders
      <4> QED
        BY <1>4, <4>1, FS_CardinalityType, PaymentsAssumption DEF LateRefusal
    <3> QED
      BY <3>1, <3>2, SeatsGrow DEF NeverOversold
  <2> QED
    BY <1>1, <2>2, <2>3, <2>4, <2>5, <2>6 DEF IInv, FedapayPromptIsTraceable
<1> QED
  BY <1>2, <1>3, <1>4 DEF RecoverLateSuccess

\* The commit of a vote's recovery: its row is still the failed one it locked.
LEMMA Reopened ==
    ASSUME IInv, NEW w \in Workers, ReopenVote(w)
    PROVE  IInv'
<1> DEFINE t == job[w].pay
<1>1. /\ t \in Pays /\ psp[t] = "paid" /\ job[w].at = "reopen"
      /\ status[t] = "FAILED" /\ Purpose[t] = "VOTE"
      /\ status' = [status EXCEPT ![t] = "PENDING"] /\ GoTo(w, "apply")
      /\ UNCHANGED <<event, req, psp, ref, age, seat, counted, credits, abandoned, flags>>
  BY DEF ReopenVote, IInv, JobInv, JobFine, RowLockInv
<1>2. \A v \in Workers : v # w /\ job[v].at = "reopen" => job[v].pay # t /\ job[v].pay \in Pays
  BY <1>1 DEF IInv, JobInv, JobFine, RowLockInv
<1>3. PICK j : JobFine(j) /\ j.at # "reopen" /\ job' = [job EXCEPT ![w] = j]
  BY <1>1, GoToFine DEF JobSteps
<1> HIDE DEF t
<1>4. /\ status' \in [Pays -> Statuses] /\ RequestInv' /\ CreditedExactlyOnce'
      /\ NoCreditWithoutMoney' /\ GoodsFollowPayment'
  BY <1>1, ReopenKeeps
<1>5. TypeOK'
  BY <1>1, <1>3, <1>4 DEF IInv, TypeOK, JobFine
<1>6. JobInv'
  BY <1>1, <1>3 DEF IInv, TypeOK, JobInv, JobFine
<1>7. RowLockInv'
  <2>1. \A u \in Workers : job'[u] = IF u = w THEN j ELSE job[u]
    BY <1>3 DEF IInv, TypeOK
  <2>2. \A u \in Pays : u # t => status'[u] = status[u]
    BY <1>1 DEF IInv, TypeOK
  <2> QED BY <1>3, <1>2, <2>1, <2>2 DEF IInv, RowLockInv
<1> QED
  BY <1>1, <1>4, <1>5, <1>6, <1>7 DEF IInv, NeverOversold, FedapayPromptIsTraceable

-----------------------------------------------------------------------------
(* The theorems.                                                           *)

\* Before anything happened no payment exists and every seat is free.
LEMMA InitInv == Init => IInv
<1> SUFFICES ASSUME Init PROVE IInv
  OBVIOUS
<1>1. TypeOK
  BY DEF Init, TypeOK, ReqSteps, PspStates, Statuses, SeatStates, Jobs, Idle, Job,
         JobSteps
<1>2. JobInv
  BY EndJobFine DEF Init, JobInv, JobFine, Idle, Job
<1>3. RowLockInv
  BY DEF Init, RowLockInv, Idle, Job
<1>4. NeverOversold
  <2>1. SeatHolders(seat) = {}
    BY DEF Init, SeatHolders, Holding
  <2> QED
    BY <2>1, FS_EmptySet, PaymentsAssumption DEF NeverOversold
<1> QED
  BY <1>1, <1>2, <1>3, <1>4, PaymentsAssumption
     DEF Init, IInv, RequestInv, CreditedExactlyOnce, NoCreditWithoutMoney,
         GoodsFollowPayment, FedapayPromptIsTraceable

\* Every step of Next, and stuttering, keeps the inductive invariant.
LEMMA NextInv == IInv /\ [Next]_vars => IInv'
<1> SUFFICES ASSUME IInv, [Next]_vars PROVE IInv'
  OBVIOUS
<1>1. CASE EventMoves \/ \E t \in Pays : \/ RequestStep(t) \/ RequestCrash(t)
                                        \/ PspResolves(t) \/ Ageing(t)
                                        \/ ValidateTicket(t)
  <2>1. CASE EventMoves
    <3>1. JobInv' /\ RowLockInv'
      BY <2>1, JobsKept DEF EventMoves
    <3> QED
      BY <2>1, <3>1
         DEF EventMoves, IInv, TypeOK, RequestInv, CreditedExactlyOnce,
             NoCreditWithoutMoney, GoodsFollowPayment, NeverOversold,
             FedapayPromptIsTraceable
  <2>2. ASSUME NEW t \in Pays, RequestStep(t) PROVE IInv'
    BY <2>2, RequestMoves, RequestFails, SmallWrites, Purchase DEF RequestStep
  <2>3. ASSUME NEW t \in Pays, RequestCrash(t) \/ PspResolves(t) \/ Ageing(t)
        PROVE  IInv'
    BY <2>3, RequestMoves
  <2>4. ASSUME NEW t \in Pays, ValidateTicket(t) PROVE IInv'
    BY <2>4, SmallWrites
  <2> QED
    BY <1>1, <2>1, <2>2, <2>3, <2>4
<1>2. ASSUME NEW w \in Workers, NEW t \in Pays,
             Webhook(w, t) \/ PollStatus(w, t) \/ SweepRow(w, t)
      PROVE  IInv'
  BY <1>2, JobMoves
<1>3. ASSUME NEW w \in Workers, WorkerStep(w) \/ StepAborts(w) \/ WorkerCrash(w)
      PROVE  IInv'
  BY <1>3, JobMoves, WorkerFails, Success, Recovery, Reopened, SmallWrites
     DEF WorkerStep
<1>4. CASE UNCHANGED vars
  BY <1>4, JobsKept DEF vars, IInv, TypeOK, RequestInv, CreditedExactlyOnce,
     NoCreditWithoutMoney, GoodsFollowPayment, NeverOversold, FedapayPromptIsTraceable
<1> QED
  BY <1>1, <1>2, <1>3, <1>4 DEF Next, Workers

\* The pipeline stays within its inductive invariant.
THEOREM Invariance == Spec => []IInv
BY InitInv, NextInv, PTL DEF Spec

\* Every variable keeps the type of the column or local it stands for.
THEOREM TypeCorrect == Spec => []TypeOK
BY Invariance, PTL DEF IInv

\* A payment is credited once if it succeeded and never otherwise, however
\* often webhooks, polls and sweeps verify it.
THEOREM CreditOnce == Spec => []CreditedExactlyOnce
BY Invariance, PTL DEF IInv

\* Votes, seats and credits are backed by money the provider holds.
THEOREM MoneyFirst == Spec => []NoCreditWithoutMoney
BY Invariance, PTL DEF IInv

\* The payment row and the vote or seats it buys agree in every state.
THEOREM GoodsAgree == Spec => []GoodsFollowPayment
BY Invariance, PTL DEF IInv

\* Purchases and late recoveries together never exceed the stock.
THEOREM StockRespected == Spec => []NeverOversold
BY Invariance, PTL DEF IInv

\* A FedaPay prompt never leaves before its reference is bound.
THEOREM PromptTraceable == Spec => []FedapayPromptIsTraceable
BY Invariance, PTL DEF IInv

-----------------------------------------------------------------------------
(* The pipeline implements PaymentPromise.                                 *)

\* The values the abstract variables take.
lifeOf  == [t \in Pays |-> Life(t)]
moneyOf == {t \in Pays : psp[t] = "paid"}

\* (The promise counts with the same cardinality, under a name of its own.)
LEMMA SameCardinality == \A S : Promise!Cardinality(S) = Cardinality(S)
BY DEF Promise!Cardinality, Cardinality

\* The abstract payments that hold a seat are the seat holders.
LEMMA SeatedAreHolders ==
    TypeOK /\ GoodsFollowPayment => Promise!Seated(lifeOf) = SeatHolders(seat)
<1> SUFFICES ASSUME TypeOK, GoodsFollowPayment
             PROVE  Promise!Seated(lifeOf) = SeatHolders(seat)
  OBVIOUS
<1>1. ASSUME NEW t \in Pays
      PROVE  (Purpose[t] = "TICKET" /\ Life(t) \in {"open", "honoured"})
                <=> seat[t] \in Holding
  BY <1>1, PaymentsAssumption DEF TypeOK, GoodsFollowPayment, Life, Holding, Statuses
<1> QED
  BY <1>1 DEF Promise!Seated, lifeOf, SeatHolders

\* A step that leaves status, audits, credits and the money alone is invisible.
LEMMA Invisible ==
    ASSUME UNCHANGED <<status, abandoned, credits>>,
           \A t \in Pays : psp'[t] = "paid" <=> psp[t] = "paid"
    PROVE  UNCHANGED <<lifeOf, moneyOf, credits>>
BY DEF lifeOf, moneyOf, Life

\* Closing a pending payment, with a timeout audit or not, is GiveUp.
LEMMA FailIsGiveUp ==
    ASSUME TypeOK, NEW t \in Pays, status[t] = "PENDING", FailPayment(t),
           abandoned' \in {abandoned, abandoned \cup {t}},
           UNCHANGED <<psp, credits>>
    PROVE  Promise!GiveUp(t)
<1>1. /\ Life(t) = "open"
      /\ Life(t)' \in {"lapsed", "dead"}
      /\ \A u \in Pays \ {t} : Life(u)' = Life(u)
  BY DEF TypeOK, Life, FailPayment
<1>2. lifeOf' \in {[lifeOf EXCEPT ![t] = l] : l \in {"lapsed", "dead"}}
  BY <1>1 DEF lifeOf
<1> QED
  BY <1>1, <1>2 DEF Promise!GiveUp, lifeOf

\* Every step from a reachable state to a reachable state is a step of the
\* promise or leaves its variables as they are.
LEMMA StepRefines ==
    ASSUME IInv, IInv', [Next]_vars
    PROVE  [Promise!Next]_(Promise!vars)
<1> DEFINE Goal == [Promise!Next]_(Promise!vars)
<1> USE DEF Workers
<1>1. ASSUME UNCHANGED <<status, abandoned, credits>>,
             \A t \in Pays : psp'[t] = "paid" <=> psp[t] = "paid"
      PROVE  Goal
  BY <1>1, Invisible DEF Promise!vars, lifeOf, moneyOf
<1>2. ASSUME NEW t \in Pays, status[t] = "PENDING", FailPayment(t),
             abandoned' \in {abandoned, abandoned \cup {t}},
             UNCHANGED <<psp, credits>>
      PROVE  Goal
  BY <1>2, FailIsGiveUp DEF IInv, Promise!Next
<1>3. Promise!Fits(lifeOf')
  <2>1. (TypeOK /\ GoodsFollowPayment
           => Promise!Seated(lifeOf) = SeatHolders(seat))'
    BY SeatedAreHolders, PTL
  <2>2. Promise!Seated(lifeOf') = SeatHolders(seat')
    BY <2>1 DEF IInv
  <2>3. Cardinality(SeatHolders(seat')) <= Stock
    BY DEF IInv, NeverOversold
  <2> QED
    BY <2>2, <2>3, SameCardinality, Zenon DEF Promise!Fits
<1>4. ASSUME NEW t \in Pays, CreateVotePayment(t) PROVE Goal
  <2>1. Life(t) = "none"
    BY <1>4 DEF CreateVotePayment, IInv, RequestInv, Life
  <2>2. lifeOf' = [u \in Pays |-> IF u = t THEN "open"
                                 ELSE IF u \in {} THEN "lapsed" ELSE lifeOf[u]]
    BY <1>4 DEF CreateVotePayment, IInv, TypeOK, Life, lifeOf
  <2>3. Promise!Open(t, {})
    BY <1>3, <1>4, <2>1, <2>2 DEF CreateVotePayment, Promise!Open, lifeOf, moneyOf
  <2> QED
    BY <2>3 DEF Promise!Next
<1>5. ASSUME NEW t \in Pays, CreatePurchase(t) PROVE Goal
  <2> DEFINE own == OwnUnpaid(t)
  <2>1. own \in SUBSET (Pays \ {t})
    BY <1>5 DEF CreatePurchase, OwnUnpaid, IInv, RequestInv
  <2>2. Life(t) = "none" /\ \A u \in own : Life(u) = "open"
    BY <1>5 DEF CreatePurchase, OwnUnpaid, IInv, RequestInv, Life
  <2>3. lifeOf' = [u \in Pays |-> IF u = t THEN "open"
                                 ELSE IF u \in own THEN "lapsed" ELSE lifeOf[u]]
    BY <1>5 DEF CreatePurchase, IInv, TypeOK, Life, lifeOf
  <2>4. UNCHANGED <<moneyOf, credits>>
    BY <1>5 DEF CreatePurchase, moneyOf
  <2>5. Promise!Open(t, own)
    BY <1>3, <2>1, <2>2, <2>3, <2>4 DEF Promise!Open, lifeOf, moneyOf
  <2> QED
    BY <2>1, <2>5 DEF Promise!Next
<1>6. ASSUME NEW t \in Pays, PspResolves(t) PROVE Goal
  <2>1. UNCHANGED <<status, abandoned, credits>>
    BY <1>6 DEF PspResolves
  <2>2. CASE psp' = [psp EXCEPT ![t] = "paid"]
    <3>1. UNCHANGED lifeOf /\ moneyOf' = moneyOf \cup {t}
      BY <2>1, <2>2 DEF IInv, TypeOK, lifeOf, moneyOf, Life
    <3>2. Promise!MoneyArrives(t)
      BY <2>1, <3>1 DEF Promise!MoneyArrives, lifeOf, moneyOf
    <3> QED
      BY <3>2 DEF Promise!Next
  <2>3. CASE psp' # [psp EXCEPT ![t] = "paid"]
    <3>1. \A u \in Pays : psp'[u] = "paid" <=> psp[u] = "paid"
      BY <1>6, <2>3 DEF PspResolves, IInv, TypeOK
    <3> QED
      BY <1>1, <2>1, <3>1
  <2> QED
    BY <2>2, <2>3
<1>7. ASSUME NEW w \in Workers, ApplySuccess(w) PROVE Goal
  <2> DEFINE t == job[w].pay
  <2>1. t \in Pays /\ psp[t] = "paid" /\ UNCHANGED <<psp, abandoned>>
    BY <1>7 DEF ApplySuccess, IInv, JobInv, JobFine
  <2>2. CASE status[t] = "PENDING"
    <3>1. Honour(t)
      BY <1>7, <2>2 DEF ApplySuccess
    <3> HIDE DEF t
    <3>2. /\ Life(t) = "open"
          /\ lifeOf' = [lifeOf EXCEPT ![t] = "honoured"]
          /\ t \in moneyOf /\ UNCHANGED moneyOf
      BY <2>1, <2>2, <3>1 DEF Honour, IInv, TypeOK, lifeOf, moneyOf, Life
    <3>3. Promise!Honour(t)
      BY <2>1, <3>1, <3>2 DEF Promise!Honour, Honour, lifeOf, moneyOf
    <3> QED
      BY <2>1, <3>3 DEF Promise!Next
  <2>3. CASE status[t] # "PENDING"
    BY <1>1, <1>7, <2>1, <2>3 DEF ApplySuccess
  <2> QED
    BY <2>2, <2>3
<1>8. ASSUME NEW w \in Workers, RecoverLateSuccess(w) \/ ReopenVote(w) PROVE Goal
  <2> DEFINE t == job[w].pay
  <2>1. /\ t \in Pays /\ psp[t] = "paid" /\ t \in abandoned
        /\ UNCHANGED <<psp, abandoned, credits>>
    BY <1>8 DEF RecoverLateSuccess, ReopenVote, IInv, JobInv, JobFine
  <2>2. CASE UNCHANGED status
    BY <1>1, <2>1, <2>2
  <2>3. CASE ~UNCHANGED status
    <3>1. status[t] = "FAILED" /\ status' = [status EXCEPT ![t] = "PENDING"]
      BY <1>8, <2>3 DEF RecoverLateSuccess, ReopenVote, IInv, RowLockInv
    <3> HIDE DEF t
    <3>2. /\ Life(t) = "lapsed"
          /\ lifeOf' = [lifeOf EXCEPT ![t] = "open"]
          /\ t \in moneyOf /\ UNCHANGED moneyOf
      BY <2>1, <3>1 DEF IInv, TypeOK, lifeOf, moneyOf, Life
    <3>3. Promise!Reopen(t)
      BY <1>3, <2>1, <3>2 DEF Promise!Reopen, lifeOf, moneyOf
    <3> QED
      BY <2>1, <3>3 DEF Promise!Next
  <2> QED
    BY <2>2, <2>3
<1>9. ASSUME NEW w \in Workers, MarkFailed(w) \/ GiveUp(w) \/ ExpireOrphan(w)
      PROVE  Goal
  <2> DEFINE t == job[w].pay
  <2>1. t \in Pays /\ UNCHANGED <<psp, credits>>
    BY <1>9 DEF MarkFailed, GiveUp, ExpireOrphan, IInv, JobInv, JobFine
  <2>2. CASE /\ status[t] = "PENDING" /\ FailPayment(t)
             /\ abandoned' \in {abandoned, abandoned \cup {t}}
    BY <1>2, <2>1, <2>2
  <2>3. CASE UNCHANGED <<status, abandoned>>
    BY <1>1, <2>1, <2>3
  <2> QED
    BY <1>9, <2>2, <2>3 DEF MarkFailed, GiveUp, ExpireOrphan, Abandon
<1>10. ASSUME NEW t \in Pays, RefuseNetwork(t) \/ FailUnsentPayment(t) PROVE Goal
  <2>1. UNCHANGED <<psp, abandoned, credits>>
    BY <1>10 DEF RefuseNetwork, FailUnsentPayment
  <2> QED
    BY <1>1, <1>2, <1>10, <2>1 DEF RefuseNetwork, FailUnsentPayment
<1>11. ASSUME NEW t \in Pays,
              \/ EventMoves \/ Ageing(t) \/ AskPayment(t) \/ TriggerPayin(t)
              \/ SendPayin(t) \/ AttachProviderRef(t) \/ PushPrompt(t)
              \/ RequestCrash(t) \/ ValidateTicket(t)
       PROVE  Goal
  <2>1. UNCHANGED <<status, abandoned, credits>>
    BY <1>11 DEF EventMoves, Ageing, AskPayment, TriggerPayin, SendPayin,
       AttachProviderRef, PushPrompt, RequestCrash, ValidateTicket
  <2>2. \A u \in Pays : psp'[u] = "paid" <=> psp[u] = "paid"
    BY <1>11 DEF EventMoves, Ageing, AskPayment, TriggerPayin, SendPayin,
       AttachProviderRef, PushPrompt, RequestCrash, ValidateTicket,
       IInv, TypeOK, RequestInv
  <2> QED
    BY <1>1, <2>1, <2>2
<1>12. ASSUME NEW w \in Workers,
              \/ \E t \in Pays : Webhook(w, t) \/ PollStatus(w, t) \/ SweepRow(w, t)
              \/ ReadPayment(w) \/ PullUnresolved(w) \/ PullRefused(w)
              \/ PullMismatch(w) \/ PullPaid(w) \/ FlagLookup(w) \/ FlagRefund(w)
              \/ StepAborts(w) \/ WorkerCrash(w)
       PROVE  Goal
  <2>1. UNCHANGED <<psp, status, abandoned, credits>>
    BY <1>12 DEF Webhook, PollStatus, SweepRow, ReadPayment, PullUnresolved,
       PullRefused, PullMismatch, PullPaid, FlagLookup, FlagRefund, StepAborts,
       WorkerCrash
  <2> QED
    BY <1>1, <2>1
<1>13. ASSUME UNCHANGED vars PROVE Goal
  BY <1>1, <1>13 DEF vars
<1> HIDE DEF Goal
<1>14. ASSUME EventMoves PROVE Goal
  <2>1. UNCHANGED <<psp, status, abandoned, credits>>
    BY <1>14 DEF EventMoves
  <2> QED
    BY <1>1, <2>1
<1>15. ASSUME NEW t \in Pays, \/ RequestStep(t) \/ RequestCrash(t) \/ PspResolves(t)
                              \/ ValidateTicket(t) \/ Ageing(t)
       PROVE  Goal
  BY <1>4, <1>5, <1>6, <1>10, <1>11, <1>15 DEF RequestStep
<1>16. ASSUME NEW w \in Workers, WorkerStep(w) \/ StepAborts(w) \/ WorkerCrash(w)
       PROVE  Goal
  BY <1>7, <1>8, <1>9, <1>12, <1>16 DEF WorkerStep
<1>17. Goal
  BY <1>12, <1>13, <1>14, <1>15, <1>16 DEF Next
<1> QED
  BY <1>17 DEF Goal

\* Every behaviour of the pipeline is, seen through lifeOf, moneyOf and credits,
\* a behaviour of the promise: honoured at most once, reopened only by money.
THEOREM Refinement == Spec => ImplementsPromise
<1>1. Init => Promise!Init
  BY DEF Init, Promise!Init, Life
<1>2. IInv /\ IInv' /\ [Next]_vars => [Promise!Next]_(Promise!vars)
  BY StepRefines
<1> QED
  BY <1>1, <1>2, Invariance, PTL DEF Spec, ImplementsPromise, Promise!Spec

\* No step reopens or undoes a payment except as MayReopen allows.
LEMMA StepKeeps ==
    ASSUME IInv, [Next]_vars
    PROVE  MayReopen
<1>1. ASSUME UNCHANGED status PROVE MayReopen
  BY <1>1 DEF MayReopen
<1>2. ASSUME NEW t \in Pays, status[t] = "PENDING", FailPayment(t) PROVE MayReopen
  BY <1>2 DEF IInv, TypeOK, FailPayment, MayReopen
<1>3. ASSUME NEW t \in Pays, RequestStep(t) PROVE MayReopen
  <2>1. CASE CreateVotePayment(t)
    BY <2>1 DEF CreateVotePayment, IInv, TypeOK, RequestInv, MayReopen
  <2>2. CASE CreatePurchase(t)
    BY <2>2 DEF CreatePurchase, OwnUnpaid, IInv, TypeOK, RequestInv, MayReopen
  <2>3. CASE RefuseNetwork(t) \/ FailUnsentPayment(t)
    BY <2>3, <1>1, <1>2 DEF RefuseNetwork, FailUnsentPayment
  <2>4. CASE AskPayment(t) \/ TriggerPayin(t) \/ SendPayin(t)
             \/ AttachProviderRef(t) \/ PushPrompt(t)
    BY <2>4, <1>1 DEF AskPayment, TriggerPayin, SendPayin, AttachProviderRef, PushPrompt
  <2> QED
    BY <1>3, <2>1, <2>2, <2>3, <2>4 DEF RequestStep
<1>4. ASSUME NEW w \in Workers, WorkerStep(w) PROVE MayReopen
  <2> DEFINE t == job[w].pay
  <2>1. CASE ApplySuccess(w) \/ RecoverLateSuccess(w) \/ ReopenVote(w)
    <3>1. /\ t \in Pays /\ psp[t] = "paid"
          /\ RecoverLateSuccess(w) \/ ReopenVote(w) => t \in abandoned
      BY <2>1 DEF ApplySuccess, RecoverLateSuccess, ReopenVote, IInv, JobInv, JobFine
    <3>2. \/ UNCHANGED status
          \/ status[t] = "PENDING" /\ status' = [status EXCEPT ![t] = "SUCCEEDED"]
          \/ /\ status[t] = "FAILED" /\ t \in abandoned
             /\ status' = [status EXCEPT ![t] = "PENDING"]
      BY <2>1, <3>1 DEF ApplySuccess, RecoverLateSuccess, ReopenVote, Honour, IInv,
         RowLockInv
    <3> HIDE DEF t
    <3> QED
      BY <3>1, <3>2 DEF IInv, TypeOK, MayReopen
  <2>2. CASE MarkFailed(w) \/ GiveUp(w) \/ ExpireOrphan(w)
    <3>1. t \in Pays /\ (UNCHANGED status \/ (status[t] = "PENDING" /\ FailPayment(t)))
      BY <2>2 DEF MarkFailed, GiveUp, ExpireOrphan, Abandon, IInv, JobInv, JobFine
    <3> QED
      BY <3>1, <1>1, <1>2
  <2>3. CASE UNCHANGED status
    BY <2>3, <1>1
  <2> QED
    BY <1>4, <2>1, <2>2, <2>3 DEF WorkerStep, ReadPayment, PullUnresolved,
       PullRefused, PullMismatch, PullPaid, FlagLookup, FlagRefund
<1>5. CASE UNCHANGED vars
  BY <1>1, <1>5 DEF vars
<1> QED
  BY <1>1, <1>3, <1>4, <1>5 DEF Next, EventMoves, RequestCrash, PspResolves,
     ValidateTicket, Ageing, Webhook, PollStatus, SweepRow, StepAborts, WorkerCrash

\* A closed payment is reopened only by money that came after a timeout, and a
\* success is never undone.
THEOREM Reopening == Spec => OnlyLateMoneyReopens
<1>1. IInv /\ [Next]_vars => [MayReopen]_vars
  BY StepKeeps
<1> QED
  BY <1>1, Invariance, PTL DEF Spec, OnlyLateMoneyReopens

-----------------------------------------------------------------------------
(* The pipeline is the wallet's feed.                                      *)

\* The feed's view of the rows.
payOf    == [t \in Votes |-> IF status[t] = "ABSENT" THEN "PENDING" ELSE status[t]]
creditOf == [t \in Votes |-> credits[t]]
overOf   == IF event = "closed" THEN {TheEvent} ELSE {}
recalledOf == {t \in Votes : Recovering(t) # {}}

\* A step that leaves the rows of the votes, their credits, the event and the
\* recoveries that hold a row alone shows nothing.
LEMMA FeedUnmoved ==
    ASSUME UNCHANGED <<event, recalledOf>>,
           \A t \in Votes : credits'[t] = credits[t] /\ status'[t] = status[t]
    PROVE  [Feed!Next]_(Feed!vars)
BY DEF Feed!vars, recalledOf

\* No recovery starts or ends when a worker that holds no row goes on to
\* something else than holding one.
LEMMA RecallsKept ==
    ASSUME IInv, NEW w \in Workers, NEW j, job[w].at # "reopen", j.at # "reopen",
           job' = [job EXCEPT ![w] = j]
    PROVE  UNCHANGED recalledOf
<1>1. \A v \in Workers : job'[v] = IF v = w THEN j ELSE job[v]
  BY DEF IInv, TypeOK
<1>2. \A t \in Votes : Recovering(t)' = Recovering(t)
  BY <1>1 DEF Recovering
<1> QED BY <1>2 DEF recalledOf

\* A worker that leaves the row it held was alone with it.
LEMMA RecallEnds ==
    ASSUME IInv, NEW w \in Workers, NEW j, job[w].at = "reopen", j.at # "reopen",
           job' = [job EXCEPT ![w] = j]
    PROVE  /\ job[w].pay \in Votes /\ job[w].pay \in recalledOf
           /\ recalledOf' = recalledOf \ {job[w].pay}
<1> DEFINE t == job[w].pay
<1>1. t \in Votes
  BY DEF IInv, JobInv, JobFine, RowLockInv, Votes
<1>2. \A v \in Workers : job'[v] = IF v = w THEN j ELSE job[v]
  BY DEF IInv, TypeOK
<1>3. \A v \in Workers : v # w /\ job[v].at = "reopen" => job[v].pay # t
  BY DEF IInv, RowLockInv
<1>4. w \in Recovering(t)
  BY DEF Recovering
<1> HIDE DEF t
<1>5. \A u \in Votes : (Recovering(u) # {})' <=> Recovering(u) # {} /\ u # t
  BY <1>2, <1>3 DEF Recovering, t
<1> QED BY <1>1, <1>4, <1>5 DEF recalledOf, t

\* The conditional update that closes a payment is GiveUp, when it is a vote's.
LEMMA FailIsFed ==
    ASSUME IInv, NEW t \in Pays, status[t] = "PENDING", FailPayment(t),
           UNCHANGED <<event, credits, recalledOf>>
    PROVE  [Feed!Next]_(Feed!vars)
<1>1. status' = [status EXCEPT ![t] = "FAILED"] /\ status \in [Pays -> Statuses]
  BY DEF FailPayment, IInv, TypeOK
<1>2. CASE t \in Votes
  <2>1. payOf[t] = "PENDING" /\ payOf' = [payOf EXCEPT ![t] = "FAILED"]
    BY <1>1, <1>2 DEF payOf, Votes
  <2>2. UNCHANGED <<creditOf, overOf>>
    BY DEF creditOf, overOf
  <2>3. Feed!GiveUp(t)
    BY <2>1, <2>2 DEF Feed!GiveUp, Feed!Become, payOf, creditOf, overOf, recalledOf
  <2> QED BY <1>2, <2>3 DEF Feed!Next
<1>3. CASE t \notin Votes
  <2>1. \A u \in Votes : credits'[u] = credits[u] /\ status'[u] = status[u]
    BY <1>1, <1>3 DEF Votes
  <2> QED BY <2>1, FeedUnmoved
<1> QED BY <1>2, <1>3

\* A confirmation is Confirm, when it is a vote's.
LEMMA SuccessIsFed ==
    ASSUME IInv, NEW t \in Pays, status[t] = "PENDING",
           status' = [status EXCEPT ![t] = "SUCCEEDED"],
           credits' = [credits EXCEPT ![t] = @ + 1], UNCHANGED <<event, recalledOf>>
    PROVE  [Feed!Next]_(Feed!vars)
<1>1. CASE t \in Votes
  <2>1. payOf[t] = "PENDING" /\ payOf' = [payOf EXCEPT ![t] = "SUCCEEDED"]
    BY <1>1 DEF IInv, TypeOK, payOf, Votes
  <2>2. creditOf' = [creditOf EXCEPT ![t] = @ + 1] /\ overOf' = overOf
    BY <1>1 DEF IInv, TypeOK, creditOf, overOf, Votes
  <2>3. [u \in Votes |-> 1][t] = 1
    BY <1>1
  <2>4. Feed!Confirm(t)
    BY <2>1, <2>2, <2>3 DEF Feed!Confirm, Feed!Become, payOf, creditOf, overOf,
       recalledOf
  <2> QED BY <1>1, <2>4 DEF Feed!Next
<1>2. CASE t \notin Votes
  <2>1. \A u \in Votes : status'[u] = status[u] /\ credits'[u] = credits[u]
    BY <1>2 DEF IInv, TypeOK, Votes
  <2> QED BY <2>1, FeedUnmoved
<1> QED BY <1>1, <1>2

\* A recovery that holds no row yet is Recall when it starts to hold a vote's, with
\* the event found open, and does not show when it takes a ticket's back or ends.
LEMMA RecoveryIsFed ==
    ASSUME IInv, NEW w \in Workers, RecoverLateSuccess(w)
    PROVE  [Feed!Next]_(Feed!vars)
<1> DEFINE t == job[w].pay
<1>1. /\ t \in Pays /\ job[w].at # "reopen" /\ Recovering(t) = {}
      /\ UNCHANGED <<event, credits>>
  BY DEF RecoverLateSuccess, IInv, JobInv, JobFine
<1>2. CASE GoTo(w, "reopen")
  <2> DEFINE j == Job("reopen", t, FALSE, job[w].old)
  <2>1. /\ status[t] = "FAILED" /\ t \in Votes /\ event = "open" /\ UNCHANGED status
    BY <1>1, <1>2 DEF RecoverLateSuccess, GoTo, EndJob, Job, Idle, IInv, TypeOK, Votes,
       LateRefusal, VotingOpen
  <2>2. \A v \in Workers : job'[v] = IF v = w THEN j ELSE job[v]
    BY <1>2 DEF GoTo, IInv, TypeOK
  <2>3. j.at = "reopen" /\ j.pay = t
    BY DEF Job
  <2> HIDE DEF j, t
  <2>4. \A u \in Votes : (Recovering(u) # {})' <=> Recovering(u) # {} \/ u = t
    BY <1>1, <2>2, <2>3 DEF Recovering
  <2>5. t \notin recalledOf /\ recalledOf' = recalledOf \cup {t}
    BY <1>1, <2>1, <2>4 DEF recalledOf
  <2>6. payOf[t] = "FAILED" /\ overOf = {} /\ UNCHANGED <<payOf, creditOf, overOf>>
    BY <1>1, <2>1 DEF payOf, creditOf, overOf
  <2>7. Feed!Recall(t)
    BY <2>5, <2>6 DEF Feed!Recall, payOf, creditOf, overOf, recalledOf
  <2> QED BY <2>1, <2>7 DEF Feed!Next
<1>3. CASE EndJob(w) \/ GoTo(w, "flag") \/ GoTo(w, "apply")
  <2>1. PICK j : j.at # "reopen" /\ job' = [job EXCEPT ![w] = j]
    BY <1>3 DEF EndJob, GoTo, Idle, Job
  <2>2. UNCHANGED recalledOf
    BY <1>1, <2>1, RecallsKept
  <2>3. \A u \in Votes : status'[u] = status[u] /\ credits'[u] = credits[u]
    BY <1>1, <2>1 DEF RecoverLateSuccess, GoTo, Job, IInv, TypeOK, Votes
  <2> QED BY <1>1, <2>2, <2>3, FeedUnmoved
<1> QED BY <1>2, <1>3 DEF RecoverLateSuccess

\* The commit of a vote's recovery is ComeBack.
LEMMA CommitIsFed ==
    ASSUME IInv, NEW w \in Workers, ReopenVote(w)
    PROVE  [Feed!Next]_(Feed!vars)
<1>1. PICK j : j.at # "reopen" /\ job' = [job EXCEPT ![w] = j]
  BY DEF ReopenVote, GoTo, Job
<1>2. PICK t \in Votes : t = job[w].pay
  BY <1>1, RecallEnds DEF ReopenVote
<1>3. /\ status[t] = "FAILED" /\ status' = [status EXCEPT ![t] = "PENDING"]
      /\ UNCHANGED <<event, credits>>
  BY <1>2 DEF ReopenVote, IInv, RowLockInv
<1>4. t \in recalledOf /\ recalledOf' = recalledOf \ {t}
  BY <1>1, <1>2, RecallEnds DEF ReopenVote
<1>5. payOf[t] = "FAILED" /\ payOf' = [payOf EXCEPT ![t] = "PENDING"]
  BY <1>3 DEF IInv, TypeOK, payOf, Votes
<1>6. creditOf' = creditOf /\ overOf' = overOf
  BY <1>3 DEF creditOf, overOf
<1>7. Feed!ComeBack(t)
  BY <1>4, <1>5, <1>6
     DEF Feed!ComeBack, Feed!Become, payOf, creditOf, overOf, recalledOf
<1> QED BY <1>2, <1>7 DEF Feed!Next

\* A verification that is rolled back or dies is Forget when it held a row, and
\* does not show otherwise.
LEMMA FailureIsFed ==
    ASSUME IInv, NEW w \in Workers, StepAborts(w) \/ WorkerCrash(w)
    PROVE  [Feed!Next]_(Feed!vars)
<1>1. UNCHANGED <<event, status, credits>>
  BY DEF StepAborts, WorkerCrash
<1>2. PICK j : j.at # "reopen" /\ job' = [job EXCEPT ![w] = j]
  BY DEF StepAborts, WorkerCrash, Unresolved, GoTo, EndJob, Job, Idle
<1>3. CASE job[w].at = "reopen"
  <2> DEFINE t == job[w].pay
  <2>1. t \in Votes /\ t \in recalledOf /\ recalledOf' = recalledOf \ {t}
    BY <1>2, <1>3, RecallEnds
  <2> HIDE DEF t
  <2>2. UNCHANGED <<payOf, creditOf, overOf>>
    BY <1>1 DEF payOf, creditOf, overOf
  <2>3. Feed!Forget(t)
    BY <2>1, <2>2 DEF Feed!Forget, payOf, creditOf, overOf, recalledOf
  <2> QED BY <2>1, <2>3 DEF Feed!Next
<1>4. CASE job[w].at # "reopen"
  <2>1. UNCHANGED recalledOf
    BY <1>2, <1>4, RecallsKept
  <2> QED BY <1>1, <2>1, FeedUnmoved
<1> QED BY <1>3, <1>4

\* The other steps of a worker neither start nor end the holding of a row.
LEMMA OthersHoldNothing ==
    ASSUME IInv, NEW w \in Workers,
           \/ \E t \in Pays : Webhook(w, t) \/ PollStatus(w, t) \/ SweepRow(w, t)
           \/ ReadPayment(w) \/ PullUnresolved(w) \/ PullRefused(w) \/ PullMismatch(w)
           \/ PullPaid(w) \/ FlagLookup(w) \/ FlagRefund(w)
           \/ MarkFailed(w) \/ GiveUp(w) \/ ExpireOrphan(w) \/ ApplySuccess(w)
    PROVE  UNCHANGED recalledOf
<1>1. job[w].at # "reopen"
  BY DEF Webhook, PollStatus, SweepRow, ReadPayment, PullUnresolved, PullRefused,
     PullMismatch, PullPaid, FlagLookup, FlagRefund, MarkFailed, GiveUp, ExpireOrphan,
     ApplySuccess, Idle, Job
<1>2. \E j : j.at # "reopen" /\ job' = [job EXCEPT ![w] = j]
  <2>1. CASE \E t \in Pays : Webhook(w, t) \/ PollStatus(w, t) \/ SweepRow(w, t)
    BY <2>1 DEF Webhook, PollStatus, SweepRow, Job
  <2>2. CASE \/ ReadPayment(w) \/ PullUnresolved(w) \/ PullRefused(w)
             \/ PullMismatch(w) \/ PullPaid(w)
    BY <2>2 DEF ReadPayment, PullUnresolved, PullRefused, PullMismatch, PullPaid,
       Unresolved, GoTo, EndJob, Job, Idle
  <2>3. CASE \/ FlagLookup(w) \/ FlagRefund(w) \/ MarkFailed(w) \/ GiveUp(w)
             \/ ExpireOrphan(w) \/ ApplySuccess(w)
    BY <2>3 DEF FlagLookup, FlagRefund, MarkFailed, GiveUp, ExpireOrphan, ApplySuccess,
       GoTo, EndJob, Job, Idle
  <2> QED BY <2>1, <2>2, <2>3
<1> QED BY <1>1, <1>2, RecallsKept

\* Every step from a reachable state is a step of the feed, or does not show.
LEMMA StepFeeds ==
    ASSUME IInv, [Next]_vars PROVE [Feed!Next]_(Feed!vars)
<1> DEFINE Goal == [Feed!Next]_(Feed!vars)
<1>1. ASSUME UNCHANGED <<event, status, credits, recalledOf>> PROVE Goal
  BY <1>1, FeedUnmoved
<1>2. ASSUME NEW t \in Pays, CreateVotePayment(t) PROVE Goal
  <2>1. UNCHANGED <<event, credits>> /\ status[t] = "ABSENT"
    BY <1>2 DEF CreateVotePayment, IInv, RequestInv
  <2>2. payOf' = payOf /\ creditOf' = creditOf /\ overOf' = overOf
    BY <1>2, <2>1 DEF CreateVotePayment, IInv, TypeOK, payOf, creditOf, overOf, Votes
  <2>3. UNCHANGED recalledOf
    BY <1>2 DEF CreateVotePayment, recalledOf, Recovering
  <2> QED BY <2>2, <2>3 DEF Feed!vars, payOf, creditOf, overOf, recalledOf
<1>3. ASSUME NEW t \in Pays, CreatePurchase(t) PROVE Goal
  <2>1. \A u \in Pays : seat[u] = "RESERVED" => u \notin Votes
    BY DEF IInv, GoodsFollowPayment, Votes
  <2>2. \A u \in Votes : status'[u] = status[u] /\ credits'[u] = credits[u]
    BY <1>3, <2>1 DEF CreatePurchase, OwnUnpaid, Votes
  <2>3. UNCHANGED <<event, recalledOf>>
    BY <1>3 DEF CreatePurchase, recalledOf, Recovering
  <2> QED BY <2>2, <2>3, FeedUnmoved
<1>4. ASSUME NEW t \in Pays, RefuseNetwork(t) \/ FailUnsentPayment(t) PROVE Goal
  <2>1. UNCHANGED <<event, credits, recalledOf>>
    BY <1>4 DEF RefuseNetwork, FailUnsentPayment, recalledOf, Recovering
  <2> QED BY <1>1, <1>4, <2>1, FailIsFed DEF RefuseNetwork, FailUnsentPayment
<1>5. ASSUME NEW w \in Workers, MarkFailed(w) \/ GiveUp(w) \/ ExpireOrphan(w) PROVE Goal
  <2> DEFINE t == job[w].pay
  <2>1. t \in Pays /\ UNCHANGED <<event, credits, recalledOf>>
    BY <1>5, OthersHoldNothing DEF MarkFailed, GiveUp, ExpireOrphan, IInv, JobInv, JobFine
  <2>2. UNCHANGED status \/ (status[t] = "PENDING" /\ FailPayment(t))
    BY <1>5 DEF MarkFailed, GiveUp, ExpireOrphan, Abandon
  <2> HIDE DEF t
  <2> QED BY <1>1, <2>1, <2>2, FailIsFed
<1>6. ASSUME NEW w \in Workers, ApplySuccess(w) PROVE Goal
  <2> DEFINE t == job[w].pay
  <2>1. t \in Pays /\ UNCHANGED <<event, recalledOf>>
    BY <1>6, OthersHoldNothing DEF ApplySuccess, IInv, JobInv, JobFine
  <2>2. \/ UNCHANGED <<status, credits>>
        \/ /\ status[t] = "PENDING" /\ status' = [status EXCEPT ![t] = "SUCCEEDED"]
           /\ credits' = [credits EXCEPT ![t] = @ + 1]
    BY <1>6 DEF ApplySuccess, Honour
  <2> HIDE DEF t
  <2>3. CASE UNCHANGED <<status, credits>>
    BY <1>1, <2>1, <2>3
  <2>4. CASE /\ status[t] = "PENDING" /\ status' = [status EXCEPT ![t] = "SUCCEEDED"]
             /\ credits' = [credits EXCEPT ![t] = @ + 1]
    BY <2>1, <2>4, SuccessIsFed
  <2> QED BY <2>2, <2>3, <2>4
<1>7. ASSUME NEW w \in Workers,
             \/ RecoverLateSuccess(w) \/ ReopenVote(w)
             \/ StepAborts(w) \/ WorkerCrash(w)
      PROVE  Goal
  BY <1>7, RecoveryIsFed, CommitIsFed, FailureIsFed
<1>8. ASSUME EventMoves PROVE Goal
  <2>1. UNCHANGED <<status, credits>>
    BY <1>8 DEF EventMoves
  <2>2. payOf' = payOf /\ creditOf' = creditOf /\ recalledOf' = recalledOf
    BY <1>8, <2>1 DEF EventMoves, payOf, creditOf, recalledOf, Recovering
  <2>3. overOf' = overOf \/ overOf' = overOf \cup {TheEvent}
    BY <1>8 DEF EventMoves, overOf
  <2>4. CASE overOf' = overOf
    BY <2>2, <2>4 DEF Feed!vars, payOf, creditOf, overOf, recalledOf
  <2>5. CASE overOf' = overOf \cup {TheEvent}
    <3>1. Feed!Close(TheEvent)
      BY <2>2, <2>5 DEF Feed!Close, payOf, creditOf, overOf, recalledOf
    <3> QED BY <3>1 DEF Feed!Next
  <2> QED BY <2>3, <2>4, <2>5
<1>9. ASSUME NEW w \in Workers,
             \/ \E t \in Pays : Webhook(w, t) \/ PollStatus(w, t) \/ SweepRow(w, t)
             \/ ReadPayment(w) \/ PullUnresolved(w) \/ PullRefused(w)
             \/ PullMismatch(w) \/ PullPaid(w) \/ FlagLookup(w) \/ FlagRefund(w)
      PROVE  Goal
  <2>1. UNCHANGED <<event, status, credits>>
    BY <1>9 DEF Webhook, PollStatus, SweepRow, ReadPayment, PullUnresolved, PullRefused,
       PullMismatch, PullPaid, FlagLookup, FlagRefund
  <2> QED BY <1>1, <1>9, <2>1, OthersHoldNothing
<1>10. ASSUME UNCHANGED <<event, status, credits, job>> PROVE Goal
  BY <1>1, <1>10 DEF recalledOf, Recovering
<1>11. \/ UNCHANGED <<event, status, credits, job>> \/ EventMoves
       \/ \E t \in Pays : \/ CreateVotePayment(t) \/ CreatePurchase(t)
                         \/ RefuseNetwork(t) \/ FailUnsentPayment(t)
       \/ \E w \in Workers : \/ WorkerStep(w) \/ StepAborts(w) \/ WorkerCrash(w)
                            \/ \E t \in Pays : \/ Webhook(w, t) \/ PollStatus(w, t)
                                              \/ SweepRow(w, t)
  BY DEF Next, vars, Workers, RequestStep, RequestCrash, PspResolves, ValidateTicket,
     Ageing, AskPayment, TriggerPayin, SendPayin, AttachProviderRef, PushPrompt
<1> HIDE DEF Goal
<1>12. Goal
  BY <1>2, <1>3, <1>4, <1>5, <1>6, <1>7, <1>8, <1>9, <1>10, <1>11 DEF WorkerStep
<1> QED BY <1>12 DEF Goal

\* What the wallet's model assumes of the payments is what the pipeline does.
THEOREM Feeds == Spec => FeedsTheWallet
<1>1. Init => Feed!Init
  BY DEF Init, Feed!Init, Votes, Recovering, Idle, Job
<1>2. IInv /\ [Next]_vars => [Feed!Next]_(Feed!vars)
  BY StepFeeds
<1> QED
  BY <1>1, <1>2, Invariance, PTL DEF Spec, FeedsTheWallet, Feed!Spec

-----------------------------------------------------------------------------
(* How far the code departs from its comments.                             *)

\* A job that is about to flag a refund has seen the timeout and the money.
FlagInv ==
    /\ \A w \in Workers :
         job[w].at \in {"flag", "write"}
           => job[w].pay \in abandoned /\ psp[job[w].pay] = "paid"
    /\ RefundIsOwed

\* The provider's money stays, and so does the audit of a timeout.
LEMMA Lasting ==
    ASSUME IInv, [Next]_vars
    PROVE  /\ abandoned \subseteq abandoned'
           /\ \A t \in Pays : psp[t] = "paid" => psp'[t] = "paid"
<1>1. ASSUME NEW t \in Pays, PspResolves(t) \/ SendPayin(t) \/ PushPrompt(t)
      PROVE  \A u \in Pays : psp[u] = "paid" => psp'[u] = "paid"
  BY <1>1 DEF PspResolves, SendPayin, PushPrompt, IInv, TypeOK, RequestInv
<1>2. \/ UNCHANGED psp
      \/ \E t \in Pays : PspResolves(t) \/ SendPayin(t) \/ PushPrompt(t)
  <2>1. ASSUME NEW w \in Workers,
               \/ ReadPayment(w) \/ PullUnresolved(w) \/ PullRefused(w)
               \/ PullMismatch(w) \/ PullPaid(w) \/ MarkFailed(w) \/ ApplySuccess(w)
               \/ RecoverLateSuccess(w) \/ ReopenVote(w) \/ FlagLookup(w)
               \/ FlagRefund(w) \/ GiveUp(w) \/ ExpireOrphan(w)
        PROVE  UNCHANGED psp
    BY <2>1 DEF ReadPayment, PullUnresolved, PullRefused, PullMismatch, PullPaid,
       MarkFailed, ApplySuccess, RecoverLateSuccess, ReopenVote, FlagLookup, FlagRefund,
       GiveUp, ExpireOrphan
  <2>2. ASSUME NEW w \in Workers, StepAborts(w) \/ WorkerCrash(w) PROVE UNCHANGED psp
    BY <2>2 DEF StepAborts, WorkerCrash
  <2> QED
    BY <2>1, <2>2
    DEF Next, vars, RequestStep, WorkerStep, RequestCrash, ValidateTicket, Ageing,
        EventMoves, Webhook, PollStatus, SweepRow, AskPayment, CreateVotePayment,
        CreatePurchase, RefuseNetwork, FailUnsentPayment, TriggerPayin,
        AttachProviderRef
<1>3. abandoned \subseteq abandoned'
  BY DEF Next, vars, RequestStep, WorkerStep, RequestCrash, ValidateTicket, Ageing,
     EventMoves, Webhook, PollStatus, SweepRow, StepAborts, WorkerCrash, AskPayment,
     CreateVotePayment, CreatePurchase, RefuseNetwork, FailUnsentPayment, TriggerPayin,
     AttachProviderRef, ReadPayment, PullUnresolved, PullRefused, PullMismatch, PullPaid,
     FlagLookup, FlagRefund, MarkFailed, GiveUp, ExpireOrphan, ApplySuccess,
     RecoverLateSuccess, ReopenVote, PspResolves, SendPayin, PushPrompt, Abandon
<1> QED BY <1>1, <1>2, <1>3

\* A worker moves to a job that flags nothing, or to one that has seen what it
\* must; no flag is written.
LEMMA FlagMoves ==
    ASSUME IInv, IInv', FlagInv, [Next]_vars, UNCHANGED flags, NEW w \in Workers, NEW j,
           job' = [job EXCEPT ![w] = j],
           j.at \in {"flag", "write"}
             => j.pay \in Pays /\ j.pay \in abandoned /\ psp[j.pay] = "paid"
    PROVE  FlagInv'
<1>1. \A v \in Workers : job'[v] = IF v = w THEN j ELSE job[v]
  BY DEF IInv, TypeOK
<1>2. \A v \in Workers : job[v].at \in {"flag", "write"} => job[v].pay \in Pays
  BY DEF IInv, JobInv, JobFine
<1> QED BY <1>1, <1>2, Lasting DEF FlagInv, RefundIsOwed

\* Only a recovery that was refused leads to a flag.
LEMMA FlagNext == ASSUME IInv, IInv', FlagInv, [Next]_vars PROVE FlagInv'
<1>1. CASE UNCHANGED <<job, flags>>
  <2>1. \A v \in Workers : job[v].at \in {"flag", "write"} => job[v].pay \in Pays
    BY DEF IInv, JobInv, JobFine
  <2> QED BY <1>1, <2>1, Lasting DEF FlagInv, RefundIsOwed
<1>2. ASSUME NEW w \in Workers, NEW t \in Pays,
             Webhook(w, t) \/ PollStatus(w, t) \/ SweepRow(w, t)
      PROVE  FlagInv'
  <2> DEFINE j == Job(IF ref[t] THEN "read" ELSE "orphan", t, FALSE, age[t] = MaxAge(t))
             k == Job("read", t, FALSE, FALSE)
  <2>1. job' = [job EXCEPT ![w] = j] \/ job' = [job EXCEPT ![w] = k]
    BY <1>2 DEF Webhook, PollStatus, SweepRow
  <2>2. j.at \notin {"flag", "write"} /\ k.at \notin {"flag", "write"}
    BY DEF Job
  <2>3. UNCHANGED flags
    BY <1>2 DEF Webhook, PollStatus, SweepRow
  <2> HIDE DEF j, k
  <2> QED BY <2>1, <2>2, <2>3, FlagMoves
<1>3. ASSUME NEW w \in Workers,
             \/ ReadPayment(w) \/ PullUnresolved(w) \/ PullRefused(w) \/ PullMismatch(w)
             \/ PullPaid(w) \/ MarkFailed(w) \/ ApplySuccess(w) \/ GiveUp(w)
             \/ ExpireOrphan(w) \/ ReopenVote(w) \/ StepAborts(w) \/ WorkerCrash(w)
      PROVE  FlagInv'
  <2>1. PICK j : job' = [job EXCEPT ![w] = j] /\ j.at \notin {"flag", "write"}
    BY <1>3 DEF ReadPayment, PullUnresolved, PullRefused, PullMismatch, PullPaid,
       MarkFailed, ApplySuccess, GiveUp, ExpireOrphan, ReopenVote, StepAborts, WorkerCrash,
       Unresolved, GoTo, EndJob, Job, Idle
  <2>2. UNCHANGED flags
    BY <1>3 DEF ReadPayment, PullUnresolved, PullRefused, PullMismatch, PullPaid,
       MarkFailed, ApplySuccess, GiveUp, ExpireOrphan, ReopenVote, StepAborts, WorkerCrash
  <2> QED BY <2>1, <2>2, FlagMoves
<1>4. ASSUME NEW w \in Workers, RecoverLateSuccess(w) \/ FlagLookup(w) PROVE FlagInv'
  <2> DEFINE t == job[w].pay
  <2>1. t \in Pays /\ t \in abandoned /\ psp[t] = "paid" /\ UNCHANGED flags
    BY <1>4 DEF RecoverLateSuccess, FlagLookup, IInv, JobInv, JobFine, FlagInv
  <2>2. PICK j : /\ job' = [job EXCEPT ![w] = j]
                 /\ j.at \in {"flag", "write"} => j.pay = t
    BY <1>4 DEF RecoverLateSuccess, FlagLookup, GoTo, EndJob, Job, Idle
  <2> QED BY <2>1, <2>2, FlagMoves
<1>5. ASSUME NEW w \in Workers, FlagRefund(w) PROVE FlagInv'
  <2> DEFINE t == job[w].pay
  <2>1. /\ t \in Pays /\ t \in abandoned /\ psp[t] = "paid"
        /\ flags' = [flags EXCEPT ![t] = @ + 1] /\ UNCHANGED <<psp, abandoned>>
        /\ job' = [job EXCEPT ![w] = Idle]
    BY <1>5 DEF FlagRefund, EndJob, IInv, JobInv, JobFine, FlagInv
  <2> HIDE DEF t
  <2>2. RefundIsOwed'
    BY <2>1 DEF FlagInv, RefundIsOwed, IInv, TypeOK
  <2>3. \A v \in Workers : job'[v] = IF v = w THEN Idle ELSE job[v]
    BY <2>1 DEF IInv, TypeOK
  <2> QED BY <2>1, <2>2, <2>3 DEF FlagInv, Idle, Job
<1>6. \/ UNCHANGED <<job, flags>>
      \/ \E w \in Workers : \E t \in Pays :
           Webhook(w, t) \/ PollStatus(w, t) \/ SweepRow(w, t)
      \/ \E w \in Workers : WorkerStep(w) \/ StepAborts(w) \/ WorkerCrash(w)
  BY DEF Next, vars, Workers, RequestStep, RequestCrash, PspResolves, ValidateTicket,
     Ageing, EventMoves, AskPayment, CreateVotePayment, CreatePurchase, TriggerPayin,
     RefuseNetwork, SendPayin, AttachProviderRef, PushPrompt, FailUnsentPayment
<1> QED BY <1>1, <1>2, <1>3, <1>4, <1>5, <1>6 DEF WorkerStep

\* Nobody is put on the refund list for money that did not arrive, or before a
\* timeout gave the payment up.
THEOREM Owed == Spec => []RefundIsOwed
<1>1. Init => FlagInv
  BY DEF Init, FlagInv, RefundIsOwed, Idle, Job
<1>2. IInv /\ IInv' /\ FlagInv /\ [Next]_vars => FlagInv'
  BY FlagNext
<1>3. FlagInv => RefundIsOwed
  BY DEF FlagInv
<1> QED BY <1>1, <1>2, <1>3, Invariance, PTL DEF Spec

\* The seats of a buyer that no timeout ever touched.
Timely(b) == HeldBy(b, seat) \ abandoned

\* Fewer seats that count for a buyer's limit are within it.
LEMMA LimitShrinks ==
    ASSUME NEW b, Cardinality(Timely(b)) <= MaxPerPerson, Timely(b)' \subseteq Timely(b)
    PROVE  Cardinality(Timely(b)') <= MaxPerPerson
<1>1. IsFiniteSet(Timely(b))
  BY FS_Subset, PaymentsAssumption DEF Timely, HeldBy, SeatHolders
<1>2. /\ Cardinality(Timely(b)') <= Cardinality(Timely(b))
      /\ IsFiniteSet(Timely(b)')
  BY <1>1, FS_Subset
<1> QED BY <1>1, <1>2, FS_CardinalityType, PaymentsAssumption

\* The purchase counts itself before it takes its seat.
LEMMA PurchaseCounts ==
    ASSUME IInv, LimitButForLate, NEW t \in Pays, CreatePurchase(t)
    PROVE  LimitButForLate'
<1> DEFINE own  == OwnUnpaid(t)
           left == Released(own)
<1>1. /\ Cardinality(HeldBy(Buyer[t], left)) + 1 <= MaxPerPerson
      /\ seat' = [left EXCEPT ![t] = "RESERVED"] /\ abandoned \subseteq abandoned'
  BY DEF CreatePurchase
<1>2. left \in [Pays -> SeatStates] /\ \A u \in Pays : left[u] \in {seat[u], "CANCELLED"}
  BY DEF Released, IInv, TypeOK, SeatStates
<1> HIDE DEF own, left
<1>3. ASSUME NEW b \in Buyers, b # Buyer[t]
      PROVE  Cardinality(Timely(b)') <= MaxPerPerson
  <2>1. Timely(b)' \subseteq Timely(b)
    BY <1>1, <1>2, <1>3 DEF Timely, HeldBy, SeatHolders, Holding
  <2> QED BY <2>1, LimitShrinks DEF LimitButForLate, Timely
<1>4. Cardinality(Timely(Buyer[t])') <= MaxPerPerson
  <2> DEFINE H == HeldBy(Buyer[t], left)
  <2>1. IsFiniteSet(H)
    BY FS_Subset, PaymentsAssumption DEF HeldBy, SeatHolders
  <2>2. Timely(Buyer[t])' \subseteq H \cup {t}
    BY <1>1, <1>2 DEF Timely, HeldBy, SeatHolders, Holding
  <2>3. Cardinality(H) + 1 <= MaxPerPerson
    BY <1>1
  <2> HIDE DEF H
  <2>4. /\ IsFiniteSet(H \cup {t})
        /\ \/ Cardinality(H \cup {t}) = Cardinality(H)
           \/ Cardinality(H \cup {t}) = Cardinality(H) + 1
    BY <2>1, FS_AddElement, Zenon
  <2>5. /\ Cardinality(Timely(Buyer[t])') <= Cardinality(H \cup {t})
        /\ IsFiniteSet(Timely(Buyer[t])')
    BY <2>2, <2>4, FS_Subset
  <2> QED BY <2>1, <2>3, <2>4, <2>5, FS_CardinalityType, PaymentsAssumption
<1> QED BY <1>3, <1>4 DEF LimitButForLate, Timely

\* Every other step takes seats away, or takes back one that a timeout had freed.
LEMMA LimitNext ==
    ASSUME IInv, LimitButForLate, [Next]_vars PROVE LimitButForLate'
<1>1. ASSUME \A u \in Pays : seat'[u] \in Holding => seat[u] \in Holding \/ u \in abandoned
      PROVE  LimitButForLate'
  <2>1. \A b \in Buyers : Timely(b)' \subseteq Timely(b)
    BY <1>1, Lasting DEF Timely, HeldBy, SeatHolders
  <2> QED BY <2>1, LimitShrinks DEF LimitButForLate, Timely
<1>2. ASSUME NEW t \in Pays, CreatePurchase(t) PROVE LimitButForLate'
  BY <1>2, PurchaseCounts
<1>3. ASSUME NEW w \in Workers, RecoverLateSuccess(w) PROVE LimitButForLate'
  <2>1. job[w].pay \in Pays /\ job[w].pay \in abandoned
    BY <1>3 DEF RecoverLateSuccess, IInv, JobInv, JobFine
  <2> QED BY <1>1, <1>3, <2>1 DEF RecoverLateSuccess, IInv, TypeOK
<1>4. ASSUME NEW t \in Pays, FailPayment(t) \/ seat' = Released({t}) PROVE LimitButForLate'
  BY <1>1, <1>4 DEF FailPayment, Released, Holding, IInv, TypeOK
<1>5. ASSUME NEW t \in Pays, ValidateTicket(t) PROVE LimitButForLate'
  BY <1>1, <1>5 DEF ValidateTicket, Holding, IInv, TypeOK
<1>6. ASSUME NEW w \in Workers, ApplySuccess(w) PROVE LimitButForLate'
  BY <1>1, <1>6 DEF ApplySuccess, Honour, Holding, IInv, TypeOK
<1>7. CASE UNCHANGED seat
  BY <1>1, <1>7
<1>8. ASSUME NEW w \in Workers, MarkFailed(w) \/ GiveUp(w) \/ ExpireOrphan(w)
      PROVE  LimitButForLate'
  <2>1. job[w].pay \in Pays
    BY <1>8 DEF MarkFailed, GiveUp, ExpireOrphan, IInv, JobInv, JobFine
  <2> QED BY <1>4, <1>7, <1>8, <2>1 DEF MarkFailed, GiveUp, ExpireOrphan, Abandon
<1>9. ASSUME NEW t \in Pays, RefuseNetwork(t) \/ FailUnsentPayment(t)
      PROVE  LimitButForLate'
  BY <1>4, <1>7, <1>9 DEF RefuseNetwork, FailUnsentPayment
<1>10. \/ UNCHANGED seat
       \/ \E t \in Pays : \/ CreatePurchase(t) \/ ValidateTicket(t)
                         \/ RefuseNetwork(t) \/ FailUnsentPayment(t)
       \/ \E w \in Workers : \/ MarkFailed(w) \/ GiveUp(w) \/ ExpireOrphan(w)
                            \/ ApplySuccess(w) \/ RecoverLateSuccess(w)
  BY DEF Next, vars, RequestStep, WorkerStep, RequestCrash, PspResolves, Ageing,
     EventMoves, Webhook, PollStatus, SweepRow, StepAborts, WorkerCrash, AskPayment,
     CreateVotePayment, TriggerPayin, SendPayin, AttachProviderRef, PushPrompt,
     ReadPayment, PullUnresolved, PullRefused, PullMismatch, PullPaid, FlagLookup,
     FlagRefund, ReopenVote
<1> QED BY <1>2, <1>3, <1>5, <1>6, <1>7, <1>8, <1>9, <1>10

\* A buyer exceeds the limit only by seats that a late confirmation took back.
THEOREM LimitKept == Spec => []LimitButForLate
<1>1. Init => LimitButForLate
  <2> SUFFICES ASSUME Init, NEW b \in Buyers PROVE Cardinality(Timely(b)) <= MaxPerPerson
    BY DEF LimitButForLate, Timely
  <2>1. Timely(b) = {}
    BY DEF Init, Timely, HeldBy, SeatHolders, Holding
  <2> QED BY <2>1, FS_EmptySet, PaymentsAssumption
<1>2. IInv /\ LimitButForLate /\ [Next]_vars => LimitButForLate'
  BY LimitNext
<1> QED BY <1>1, <1>2, Invariance, PTL DEF Spec
=============================================================================
