# Verification of the SHADOMA voting platform

TLA+ models of the parts of the platform where something can go wrong between two steps: payments by mobile money,
the goods they buy (votes, tickets), the organizer's wallet, withdrawals, the settlement of closed events and the
voiding of votes; the publication of a contest and the deletion of its candidates; accounts, sessions and one-time
codes; the members who leave an organization; and the two state machines of the web pages, the ticket designer and
the tracking of a payment. TLC checks the models on small instances and TLAPS proves theorems about them for every
value of the constants. Most of what follows is translated from the API, `src/apps/api/src` (written `api/` here),
the rest from `src/apps/web`; paths in `PROJECT.json` are relative to the repository.

The API is a NestJS program over PostgreSQL (Prisma, READ COMMITTED). Its requests, its schedulers and the
Cloudflare cron worker run concurrently, on several instances. The database alone coordinates them: conditional
`updateMany` statements, unique constraints, and `SELECT ... FOR UPDATE` on the ticket type. That is where the
difficulties are, and what the models keep: **one action is one transaction, one statement or one read**, and
anything may happen between two of them.

## 1. Inventory

| Component | Code | State | Operations | What is hard | What makes it correct |
|---|---|---|---|---|---|
| Payment requests | `payments/payments.service.ts` | `PaymentTransaction`: status, providerRef | create the row, push the prompt, bind the reference, close an unsent payment | lost answers and crashes between the push and the binding; replayed idempotency keys; a row closed while its prompt is under way | the prompt is traceable; one row a vote; every row ends |
| Verify-by-pull | `payments/payment-verify.service.ts` | the same row, audits `timeout_abandoned` and `late_success_needs_refund` | decide on what the provider answers: honour, refuse, recover a late success, flag a refund | duplicated and late webhooks racing polls and sweeps; decisions taken on a row read before an HTTP call | credited exactly once and only with money; no oversale; honoured or refunded, not both |
| Reconciliation | `payments/payment-reconciliation.service.ts`, `internal-scheduler.service.ts` | age of the rows | pull old PENDING rows, abandon them, expire those without reference | lost webhooks, provider outages, failing rows | every PENDING row ends; confirmed money is honoured |
| Providers | `payments/psp/` | the provider's record | create, token, push, get (FedaPay); push, get (FeexPay) | timeouts after the effect took place | the reference is bound before the prompt (FedaPay) |
| Tickets | `tickets/tickets.service.ts` | `Ticket`: RESERVED, PAID, USED, CANCELLED | purchase, release of the buyer's own unpaid purchase, validation at the door | stock and limit per person under concurrency | never oversold; limit per person |
| Wallet | `offers/wallet.service.ts` | heldCfa, withdrawableCfa, ledger entries | credit split, conditional debit, release of the reserve | read balances, write later | no negative balance; money conserved |
| Withdrawals | `offers/withdrawals.service.ts` | `WithdrawalRequest.status` | request, approve, reject, mark paid | two administrators, two requests | only forward; amount given back at most once |
| Settlement | `offers/event-settlement.service.ts`, `payouts/payout-job-lock.service.ts` | closedAt, HELD_RELEASE entries, lock row | close an event, release matured reserves | lock expiry and takeover, crash with the lock, limit of the selection | a reserve is released once, and in the end |
| Platform control | `platform-control/` | cancelledAt, vault entries | void a vote | status read before the vault entry and the transaction | the void takes back exactly what was credited |
| Contracts, publication | `contracts/contracts.service.ts`, `events/event-lifecycle.ts`, `offers/commission-override.service.ts` | contract status, event status, terms, rates | generate, send code, sign, update, override, close, archive, delete | an update or an override writes without looking again at what it read; two signatures race | a published event runs under the signed terms and rate; the code goes with the signature |
| Events, candidates | `events/events.service.ts` | `Event`, `Candidate` | create, import, delete (with the votes) | three reads before a delete that cascades | money taken keeps its vote |
| Votes, results | `votes/votes.service.ts` | `Vote`: paidAt, cancelledAt | cast, count | the row exists before it is paid, and its payment is not tied to it by a key | only paid votes are ranked |
| One-time codes, vault unlocking | `auth/auth.service.ts`, `platform-control/vault-otp.service.ts` | attempts, consumedAt, expiresAt | send (voids the others), load, reserve an attempt, consume | each of these is a statement of its own | a code is accepted once, not after it was voided |
| Lock on logging in | `auth/auth.service.ts` | `LoginAttempt`: count, lockedUntil | look, count, compare, forget or lock | parallel logins, another one deletes the row | attempts are bounded; a spent row is locked |
| Sessions | `auth/auth.service.ts`, `web/lib/auth.ts` | `AuthSession`, the device's cookie, a tab's request | log in, refresh with a grace period, reuse, log out, sign out everywhere | tabs refresh together, answers are lost, a rotation overlaps a sign-out | a chain never forks; what is signed out stays so; no false theft |
| Accounts, invitations | `auth/`, `invitations/` | organization, wallet, account, Google link, invitation | register, verify, log in with Google, invite, accept, revoke, expire | nothing is unique per address; the steps of a sign-up are separate | one account of one's own; a closed invitation opens nothing |
| Payout destinations | `payouts/payout-destination.service.ts` | number, date of change | change, snapshot in a withdrawal | read before the withdrawal's transaction | the frozen number had rested |
| Privacy, users' administration | `privacy/`, `admin/admin.service.ts` | account, role, organization | erase oneself, change a role, delete a user with or without the organization | reads, then a write without a condition, while the organization lives | nobody and nothing is left without an owner |
| Ticket designer (web) | `web/lib/ticket-editor.ts`, designer page | design, past, future, dirty | edit, type, drag, undo, redo, save | coalescing, shortcuts in the middle of a gesture, an edit during a save | the history leads back; "saved" is true |
| Tracking of a payment (web) | `web/app/e/[slug]/use-public-vote-payment.ts` | payment, status, stream, timer, storage | submit, stream, poll, reload, retry, change of language | polls are not cancelled, errors, reloads | never silent; the page shows what it tracks |
| Statistics, offers, settings, notifications, mail, search, uploads, analytics, chat, maintenance, other pages | remaining directories | read models, single-row settings, best-effort effects | | little or no state that a promise is about | |

Interactions: a request of a payer (`PaymentsService`, `TicketsService`) creates the row and calls a gateway; the
provider answers later to the webhook controller, which only carries a *reference*: every path (webhook, status
page, sweep) goes through `PaymentVerifyService.verifyAndApplyByReference`, which pulls the provider's own record
before deciding. A success writes the vote or the tickets and credits the wallet in one transaction. The wallet is
shared with withdrawals, the settlement job and the voiding of votes. The contest ties the rest together: a signature puts
it on line, votes and payments start only while it is, its closing starts the delay of the reserve. A candidate's
deletion and a member's departure look at rows of several of these components and then write; that is what `Roster` and
`Departures` compose, each with the other components reduced to the columns it looks at. The other components
are modelled apart; where one uses another (a signature consumes a code, an accepted invitation opens an account), the
module that uses it keeps the columns it needs.

`PROJECT.json` lists every component with its status and every hazard with the line where it bites and the
properties that would catch it.

## 2. Modules

### `Payments.tla` — the life of a payment

Actors: the payer's HTTP request (`req`), the provider (`psp`), handlers started by a webhook or a status page and
runs of the sweep (`job`), the clock (`age`), the event's life (`event`). Rows: `status`, `ref` (providerRef is
bound), `seat` (the ticket), `counted` (the vote's paidAt), `credits` (transactions that credited the wallet),
`abandoned` and `flags` (the audits that the code reads back or that the refund list shows).

| Actions | Code |
|---|---|
| `AskPayment`, `CreateVotePayment`, `TriggerPayin`, `RefuseNetwork`, `AttachProviderRef`, `FailUnsentPayment` | `payments.service.ts`: initPaymentCore, triggerVotePayin, attachProviderRef, failUnsentPayment |
| `CreatePurchase`, `ValidateTicket` | `tickets.service.ts`: the purchase transaction with the release of the buyer's own blocking seats, the scan |
| `SendPayin`, `PushPrompt`, `PspResolves` | `psp/fedapay.gateway.ts`, `psp/feexpay.gateway.ts`, and the provider itself (external) |
| `Webhook`, `PollStatus`, `ReadPayment`, `Pull*`, `MarkFailed`, `ApplySuccess`, `RecoverLateSuccess`, `ReopenVote`, `FlagLookup`, `FlagRefund` | `payment-verify.service.ts` |
| `SweepRow`, `GiveUp`, `ExpireOrphan` | `payment-reconciliation.service.ts` |
| `StepAborts`, `RequestCrash`, `WorkerCrash` | lost connections, deadlock victims, process stops |

A transaction is one action where its first statements lock the rows it decides on: the conditional update of the
payment row, or the `FOR UPDATE` of the ticket type for anything that takes a seat. The late recovery of a vote is not
such a one: it locks the payment's row, then reads the event, which nothing locks, and commits afterwards. It is two actions,
`RecoverLateSuccess` (the row is held, `Recovering`; the event was found open) and `ReopenVote` (the commit), with anything between
them, the closure of the event included; another recovery of the same row waits. A purchase is one seat of one
ticket type. Time is three ages: fresh, past the first delay (15 minutes for a ticket, 60 for a row without
reference), past the second (24 hours for a vote).

### `PaymentPromise.tla` — what the platform promises

A payment is open, then honoured, dead, or lapsed; only a lapsed one whose money arrived may be opened again; open
and honoured ticket payments never exceed the stock. `Payments` implements it (`ImplementsPromise`) under the
mapping `Life`: PENDING is open, SUCCEEDED honoured, FAILED with a timeout audit lapsed, FAILED without dead; money
is what the provider's record says, `credit` is `credits`. The detailed module's crashes, lost answers, duplicated
webhooks and sweeps are stutters or one step of the promise.

### `PaymentFeed.tla` — where the payments and the wallet meet

`Payments` and `Wallet` share the rows of the payments and the credits. `PaymentFeed` is the contract between them, over a
vote's payment: it is credited once and in full when it succeeds; given up, it comes back only by a recovery that found its event
open while it held the row (`Recall`), and that may commit after the event has been closed (`ComeBack`) or be rolled back
(`Forget`); it is moved by nothing else but a void, which waits for the row. The contract does *not* say that the event is still open
when the payment comes back: the code reads the event without a lock. Both modules implement it: `FeedsTheWallet` in `Payments` (a
credit counts 1), where applySuccess, the five ways to fail and the two halves of recoverLateSuccess are `Confirm`, `GiveUp`,
`Recall` and `ComeBack`; `TakesTheFeed` in `Wallet` (a credit is the payment's net), where withdrawals, closure and job must leave the
payment alone. What either model assumes of the other is thus what the other does, with two limits: voids are in `Wallet` only, and
ticket payments, which cannot be voided and may come back after the closure, are in `Payments` only.

### `Wallet.tla` — one organizer's wallet

Rows: the two balances `held` and `avail`, the ledger entries that name a payment (`credited`, `reversed`) or an event
(`allocated`, `released`), `pay`, `cancelled`, `vaulted`, `wd`, `lock`; actors: administrators (`desk`) and executions
of the settlement job (`run`). A transaction that reads a balance or a sum first and writes conditionally afterwards is
*two* actions (`CheckWithdrawal`/`DebitWithdrawal`, `ReadBalances`/`VoidPaid`, `ReadReserve`/`ReleaseReserve`), because
READ COMMITTED lets other commits in between. The confirmation of a payment is reduced to what the wallet sees of it
(`ApplyPayment`, `AbandonPayment`, and the recovery `RecoverPayment`, `ReopenPayment`, `RecoveryAborts`, whose row is in `reopening`
between its reading of the event and its commit); the pipeline behind it is `Payments`. `Limit` is the number of
events one execution looks at (100 in the code) and `LockLapses` says whether the lock's TTL of five minutes may pass
before its release.

### `WalletPromise.tla` — what the wallet promises

The same wallet when everything is done in one step: a payment is credited, its reserve first, or taken back; a withdrawal takes its amount
if there is enough, is decided, paid or rejected with its amount given back, once each and forward only; an amount of the reserve is
released. `Wallet` implements it (`ImplementsWalletPromise`): a withdrawal that has only been checked is none yet, an entry is
`credited` or `reversed` by what the ledger says, and everything read before a conditional update, the administrators' requests, the lock
and the selection of the events are invisible. The promise contains `WithdrawalsMoveForward`, which no run repeats.

### `Publication.tla` and `EventLife.tla` — a contest goes on line

`Publication` has one contest, its contracts, its signature codes and any number of requests, each of which reads
(`pubReq` keeps what it read) and writes later: `updateEvent`, `generate`, `sign` (compare, code, publish), the two overrides
of the commission, `closeEvent`, the archive and `deleteEvent`. `EventLife` is what the head of `event-lifecycle.ts`
promises: one signature publishes, no way back to draft, archived only from draft or once closed, and the commission
charged is the signed one. `ImplementsEventLife` maps one to the other. Two ghosts say where the code departs from the promise:
`pubStale`, a request wrote the contest in another status than it had read, and `pubDrifted`, the terms were edited between
the signer's reading and the transaction.

### `OneTimeCode.tla`, `LoginLock.tla`, `Sessions.tla`, `Accounts.tla` — signing in

One action is one statement. `OneTimeCode` is both tables of codes (`otpTable`): sending voids and creates in two statements,
a check loads, reserves an attempt and consumes. `LoginLock` is the row of `LoginAttempt` under parallel logins, with a process
that may stop between the count and the lock. `Sessions` is a user's rows with their parents, the cookie of each device and one
request for each tab (the single flight of `lib/auth.ts`): rotation, grace period, reuse, logging out, signing out everywhere, lost
answers and crashes. `Accounts` is all the ways in which an address gets an account. Ghosts: `otpCrossed` (two requests
send a code at the same time), `accCrossed` (two sign-ups overlap), `logCrashed`, and `sesExcused`, the tokens that may come
back for a reason a browser cannot help.

### `PayinReplay.tla` — one payment request presented several times

The same key replayed while the first call runs, a key with another vote, another key for the same vote; the lookups and
creations of `initPaymentCore` and the conditional binding of `attachProviderRef` are separate statements. `Payments` follows one
request for each payment and all that comes after; this module has several and stops at the prompt.

### `Roster.tla` — the candidates and their ballots

A vote is cast, a payment that names it is created, taken by the provider, counted, given up, reopened or voided, while
requests delete its candidate: read, count the paid votes, list the votes, count their pending payments, delete (the votes go
by cascade, their payments stay). The payment is reduced to what the deletion and the ranking look at. `roExcused` is the ghost of
the ballots that did, after a deletion had passed the statement that looks for it, what that statement looks for, or whose payment
was created or came back after the vote was gone.

### `Departures.tla` — who may leave an organization

`anonymizeUserData` (a role read at the request's start, three parallel checks, one transaction), `updateUser` and `deleteUser`
(two rounds of counts, one transaction), while members join, a contest is drafted, signed, paid for and closed, and money is
withdrawn. A signature, a withdrawal and a payment are one step each here. `dpReasons` is the ghost of the four things that
leave an organization without an owner: `race`, `late`, `demoted`, `phantom` (see the property); each of them alone breaks it.

### `PayoutNumber.tla` — the number an organizer is paid on

Changing the number, its delay, and the withdrawal that reads it and freezes it later; the clock is a counter.

### `TicketEditor.tla`, `PaymentTracking.tla` — two pages

`TicketEditor` is the reducer with its history, gestures, typing and saving; a design is a model value. `PaymentTracking` is the hook
of the voting page: the stream, the polls that nothing cancels, the storage that a reload reads, and the change of language
that restarts the effect. Ghosts: `edTrimmed` (a step of history was dropped, or a gesture outlived its checkpoint), `edMissed` (an
edit was made during the save), `ptStray` (polls were in flight when the tracking they belong to ended).

### `MC*.tla` and `*Proofs.tla`

Model values and small constant functions for TLC; `MCServices` puts the eleven modules above, from `Publication` on, in one
run. The theorems of `Payments`, `Wallet`, `Publication` and `Sessions` are in a module each, those of `OneTimeCode`,
`LoginLock` and `Accounts` in `SignInProofs`, those of `PayinReplay` and of the two pages in `ClientProofs`, those of `PayoutNumber`,
`Roster` and `Departures` in `OrganizationProofs`, and those of their composition in `ServicesProofs`.

## 3. Runs

| Run | Instance | Shows |
|---|---|---|
| `payments_tickets` | 2 ticket payments of one buyer, FedaPay and FeexPay, 1 seat, 1 handler, 1 sweep | `CreditedExactlyOnce`, `NoCreditWithoutMoney`, `GoodsFollowPayment`, `NeverOversold`, `FedapayPromptIsTraceable`, `ImplementsPromise` |
| `payments_liveness` | 1 vote payment, 1 handler, 1 sweep | `PendingResolves`, `PaidPendingIsHonoured` under fairness of the sweep alone, and `FeedsTheWallet` |
| `payments_refund` | as `payments_tickets` | finding: `HonouredXorRefunded` is violated |
| `payments_person_limit` | 2 seats, limit 1 per person | finding: `PersonLimit` is violated |
| `payments_late_money` | 1 ticket payment, fairness of the sweep | finding: `PaidReferenceSettles` is violated |
| `wallet` | 1 event, 2 payments of 3 CFA (half of it rounds), 2 withdrawals of 2, 2 administrators, 1 execution | `NeverOverdrawn`, `MoneyConserved`, `CreditMatchesPayment`, `ImplementsWalletPromise` |
| `wallet_lock` | 2 events with a payment each, 1 withdrawal, 1 administrator, 2 executions, lock never lapses | `ReleasedOnce` |
| `wallet_release` | 2 events, 1 administrator, 1 execution that may die with the lock, limit 100, all of the net held in reserve | `ReserveReleased` under fairness |
| `wallet_starved` | the same without administrator, with limit 1 | finding: `ReserveReleased` is violated |
| `wallet_twice` | 2 executions, lock may lapse | finding: `ReleasedOnce` is violated |
| `wallet_void` | 1 administrator | finding: `VoidedIsReversed` is violated |
| `services` | eleven scenes, see below | one or two properties of each scene |

Why the bounds are enough. Each property is about one payment, one withdrawal or one event, disturbed by one other
party, or about a resource (a seat, a balance, the lock) that two parties compete for; two of each are there. One
handler and one sweep are two concurrent verifications of the same payment, and either may start again without
bound, which stands for every sequence of duplicated and late webhooks. Counters (`credits`, `flags`) are not capped:
the code bounds them. With two executions and a limit of one or of 100, both sides of the limit are reached. The
instance `wallet` declares administrators and withdrawals symmetric; no temporal liveness property is checked there.
`CHECK_DEADLOCK FALSE` is said because the model stops when all payments and events have reached their end.

### The run `services`

The eleven components share no variable. A behaviour of `MCServices` picks one of them (`scene`) and leaves the others in their
initial state, so the states of the run are the sum of theirs and not the product: 1,268,780 distinct states, about two minutes
with two workers. Only safety is checked. Senders, requests, logins, tabs, polls, withdrawals and ballots are the same two
symmetric model values in their different scenes, and so are terms and operators, and rates; keys, votes, numbers, designs and
members are not declared symmetric, because initial states or `CHOOSE` distinguish them.

| Scene | Instance | Properties |
|---|---|---|
| codes | 2 codes, 2 attempts, 2 senders, 2 checkers | `AcceptedOnce` |
| locks | 3 logins, limit 2 | `AttemptsSpentLocked` |
| sessions | 1 browser, 2 tabs, 3 rows | `ChainNeverForks`, `SignedOutEverywhere`, `ReuseExplained` |
| accounts | 2 requests, 2 organizations to come, 1 invitation | `OneOwnAccount`, `ClosedInvitationAdmitsNobody` |
| publication | 2 requests, 2 terms, 2 rates, 2 contracts, 1 code | `CodeSpentBySignature`, `PublishedAsSigned`, `ImplementsEventLife` |
| replay | 2 calls, 2 keys, 2 votes, either provider | `OneDebitPerVote` |
| editor | 2 designs, 1 field, history of 3 | `HistoryReachesLoaded`, `CleanIsSaved` |
| tracking | 2 payments, 2 polls in flight, 2 errors, 3 rounds | `NeverSilent`, `ShownIsTracked` |
| payout | 2 numbers, a delay of 2 hours, 5 hours, 2 withdrawals | `FrozenNumberRested` |
| roster | 1 candidate, 2 ballots, 1 deletion | `MoneyKeepsItsVote` |
| departures | 2 members, 2 operators | `NobodyAbandoned` |

Two actors of each kind are enough for one to overtake the other between any two of its statements, which is what the hazards
are. A second candidate adds nothing that one does not show: no step relates two. The scene of the departures stops at the
first reason, after which its property says nothing. Two operators who delete two owners at the same time leave no owner only
with a third member, who signed; the proof covers that, the run does not. `ServicesTypeOK` is the type invariant of all eleven;
those of `Payments` and `Wallet` are theorems (`TypeCorrect`) and are not checked again by their runs.

Every property of a passing run has a mutant in `PROJECT.json`: a definition with a plausible bug (a dropped
condition, a missing audit, a swapped order) under which TLC finds the property violated. The mutated forms stand
beside the definitions, introduced by "Mutant:".

### Fairness

* `Payments!FairSpec` is fair to the sweep and to the clock (`Ageing`) and to nothing else: payers' requests and handlers
  may stop for ever, and the provider need never answer. Strong fairness of the sweep's steps says that the scheduler starts it every
  few minutes for ever, that a pull does not fail for ever, and that a process does not crash at the same step for ever.
* `Wallet!FairSpec` is fair to time and, strongly, to the job: the hourly scheduler starts it again and again. It gives
  no fairness to administrators, payments or withdrawals. In `wallet_release` an administrator may void, and all of the net is held,
  so that a void can leave less in the reserve than an event's entries add up to: the case that `Settled` names is reached.

## 4. What is proved

`PaymentsProofs.tla`, for every finite set of payments, any buyers, purposes, providers, handlers, sweepers, stock and
limit that satisfy `PaymentsAssumption` (the sets' types, and that handlers and sweepers differ):

| Theorem | States |
|---|---|
| `Invariance` | the inductive invariant `IInv` holds of `Spec` |
| `TypeCorrect`, `CreditOnce`, `MoneyFirst`, `GoodsAgree`, `StockRespected`, `PromptTraceable` | the invariants of `payments_tickets` |
| `Refinement` | `Spec => ImplementsPromise` |
| `Reopening` | `Spec => OnlyLateMoneyReopens`, which the promise contains and no run repeats |
| `Feeds` | `Spec => FeedsTheWallet` |
| `LimitKept`, `Owed` | `LimitButForLate`, `RefundIsOwed`: what the findings 2 and 1 leave true |

`IInv` conjoins the properties with three facts about the actors that they need: `RequestInv` (what a request at each step
knows about its own row: before the creation the row is absent, before the send the provider has no record, before FedaPay's push the
reference is bound), `JobInv` (what a verification in flight knows whatever has happened
since its read: it works on an existing row, and one that is about to apply or to recover has seen the provider's record
"paid", which never changes again) and `RowLockInv` (one recovery at most holds a row, a vote's that stays FAILED until it commits). Without `JobInv`, a stale worker could credit a payment the provider refused, so the
properties alone are not inductive. The proof of the step has one lemma per group of actions; counting seats needs the
facts about finite sets of the library (`SeatsShrink`, `SeatsGrow`). The refinement takes every action to `Open`, `Honour`,
`GiveUp`, `Reopen`, `MoneyArrives` or a stutter.

The last two say how far the code departs from its comments. `LimitButForLate`: without the payments that have a timeout audit, no buyer holds
more seats than the limit, because a purchase counts under the lock and every other way to a seat is the late recovery.
`RefundIsOwed` rests on `FlagInv`: a job about to flag has seen the timeout and the money, neither of which goes away
(`Lasting`).

`WalletProofs.tla`, for any events, payments, nets, share of the reserve, withdrawals, administrators and executions that
satisfy `WalletAssumption` (types, a share of at most 10000/10000, "nobody" is not an execution):

| Theorem | States |
|---|---|
| `Invariance` | the inductive invariant `IInv` holds of `Spec` |
| `TypeCorrect`, `NoOverdraft`, `CreditsMatch`, `Conservation` | the invariants of `wallet` |
| `KeepsPromise` | `Spec => ImplementsWalletPromise` |
| `ForwardOnly`, `StaysFed` | `Spec => WithdrawalsMoveForward`, `Spec => TakesTheFeed` |
| `OnceWhileLocked` | `ReleasedOnce`, provided that the lock does not lapse (`~LockLapses`) |

Its `IInv` is a conjunction of parts, one for each group of variables, so that a step is charged only with the parts it
disturbs (`Frames` does the others). What makes the properties inductive is `DeskInv`: the unique vault entry lets one void
at most get past it for each vote, its vote is not cancelled yet, and a payment it saw SUCCEEDED still is. `VoteInv` says of a row
that a recovery holds that it stays FAILED, which makes the void of a paid vote none of its business. Without it, two
voids of one vote could each reverse its credit. `NeverOverdrawn` needs that the amounts read are natural numbers, among
them the reserve of a payment (`SplitBound`). `OnceWhileLocked` adds `LockInv`: an execution past the lock owns it, so no
other is active, and the amount it read of a reserve is still there. The hypothesis is needed: `wallet_twice` is the
counterexample without it.

`Conservation` is about sums over sets of any size. The library's induction on finite sets takes an operator as a parameter, so the
proof goes round it: `SubsetInduction` says, of a set `G` instead of an operator, that it contains a finite set if it contains each
subset whose strict subsets it contains, from the well-foundedness of the strict subsets (`FS_StrictSubsetOrderingWellFounded`)
and the least counterexample (`WFMin`). From it come the recursion of a sum over one element, that it depends on its
terms only, and how it moves when one term does; then each action moves one term of each sum and the balances by
as much. `KeepsPromise` needs one more invariant, `PartInv`: a void under way takes no more from the reserve than the payment brought in, so
that the rest, taken from the withdrawable balance, is a natural number.

The proofs of the eleven services hold for any sets of actors and any bounds that satisfy the assumption of each module
(`OtpAssumption`, `LoginAssumption`, ...: types, limits that are not zero, and "nobody" is nobody):

| Module | Theorems | What the inductive invariant adds |
|---|---|---|
| `SignInProofs` | `CodesOnce`, `AttemptsBounded`, `OneAccount`, `ClosedInvitation` | what a check that has loaded, reserved or compared knows of its code; how many logins may still compare on the row; which sign-ups have looked for the address and not yet created the account |
| `SessionsProofs` | `Unforked`, `SignedOut`, `Explained` | a token being exchanged is revoked and has no successor yet; what each tab's request carries and what its cookie was |
| `PublicationProofs` | `CodePerSignature`, `AsSigned`, `LivesAsPromised` | what a signer has compared still holds unless a ghost says otherwise; the refinement takes each action to a step of `EventLife` or a stutter |
| `ClientProofs` | `OneDebit` | the row and the reference that each call holds, and that a reference belongs to one call |
| `ClientProofs` | `History`, `CleanMeansSaved`, `Followed`, `ShownTracked` | what is typed on belongs to a step of history; which timers and streams a tracking may have |
| `OrganizationProofs` | `FrozenNumber`, `VotesKept`, `NobodyLeftBehind` | what a deletion or a departure has counted still holds of the rows that no ghost excuses |

`ServicesProofs` is about the run `services` itself. `ComponentsRun`: each of its behaviours is a behaviour of every component's own
specification, so that the theorems above hold of the run and the run checks the specifications that they are about.
`ServicesTypes`: `ServicesTypeOK` for every value of the constants, from one type theorem a component (`CodeTypes`, `SessionTypes`, ...),
each with the few facts about other variables that its types depend on (a poll in flight is for a payment that has been tracked, a
counter is below the bound that its guard compares it with).

Every safety property that a passing run checks is thus a theorem. Only model-checked: the liveness properties (`PendingResolves`,
`PaidPendingIsHonoured`, `ReserveReleased`), because fairness and ENABLED are out of the prover's reach, and the
counterexamples of section 5. `TakesTheFeed`, `LimitButForLate`, `RefundIsOwed`,
`WithdrawalsMoveForward` and `OnlyLateMoneyReopens` are proved and in no run.

## 5. Findings

Each is a run whose property quotes a comment of the code that the code does not keep; see `PROJECT.json` for the lines.

1. `HonouredXorRefunded`: a late payment put on the refund list can be honoured by a later delivery of its webhook.
2. `PersonLimit`: the late recovery counts the stock and not the limit per person.
3. `PaidReferenceSettles`: money confirmed around the moment of the abandon is looked at again only if a webhook arrives.
4. `ReserveReleased` with more matured events than the job's limit: released events keep being selected, others never are.
5. `ReleasedOnce` when the lock's TTL passes: two executions may take over the same expired row.
6. `VoidedIsReversed`: a payment that succeeds while it is being voided becomes VOIDED and its credit is kept.

### Divergences without a run

The properties of `services` hold of what no ghost excuses; each ghost stands for something the code does although a comment, or
the sense of the operation, says otherwise. The models show most of the following when the ghost is dropped from the property; the rest was read while modelling:

- Late recovery: « votes : le concours est encore ouvert » (`payment-verify.service.ts:205`) is true of the moment when the event is
  read; the closure may be committed before the recovery is, and the vote is then counted and credited in a closed event.
- Settlement: « la réserve de ce concours se libère après le délai réglé » (`event-settlement.service.ts:39-41`) also fails after a void.
  `voidVote` debits the reserve first and leaves the `HELD_ALLOCATION` entries, so what the job computes for an event may exceed the
  reserve, and its release then fails each time, until another event's credits fill it. `ReserveReleased` leaves out exactly that case (`Settled`).
- Sign-ups: « Un email = un compte sur toute la plateforme » (`auth.service.ts:274`) fails for two sign-ups at the same time.
- Sessions: a refresh read between another's claim and the creation of its successor is taken for a theft; so is a device whose
  session was revoked from another one, which signs the other out too; a refresh answered after a logout restores the cookie.
- Publication: `updateEvent`, `setEventCommission` and `deleteEvent` write on a stale read (`pubStale`); the terms may be edited between
  the signer's reading and the transaction (`pubDrifted`), against `events.service.ts:615` and `contracts.service.ts:195`.
  The delay of the reserve is in the contract but not frozen by it.
- Replay: with FeexPay a replayed key may prompt the payer twice, against « never re-push » (`payments.service.ts:266`, `:485`); a row that one
  replay closed may be bound and prompted by another. `initOrganizerTopup` creates a new vote at each replay, whose id enters the
  hash of the request, so a retried top-up always conflicts and leaves a vote that nobody pays.
- Candidates: a vote or a payment made between the checks of `deleteCandidate` and its delete loses its vote. A payment given up by a
  timeout does not stop the deletion; if its money arrives it is reopened, and counting it fails for ever: it is neither
  honoured nor flagged, against `events.service.ts:451`.
- Departures: an owner may leave while a payment of a closed contest is pending, which is then credited to nobody (`privacy.service.ts`:
  « sinon fonds et votants seraient abandonnés »); an erased owner counts as the owner who remains (`admin.service.ts:484`); `updateUser` takes the
  role of the only owner; an organization may be deleted with a member who joined, or a draft created, in between.
- Designer: `markSaved` after an edit made during the save says "saved"; a drag after Ctrl+Z in the middle of a gesture has no checkpoint.
- Tracking: a poll in flight after the final status overwrites it, and one of an older payment clears the storage of the new one.
- Invitations: expiring and revoking write without a condition, so an accepted invitation may be shown as revoked.

Two more were read and not modelled: `createTicketType` and `updateTicketType` read a draft and write after it may have been signed;
a process that stops between counting a chat message and taking the count back consumes the quota.

## 6. What is not modelled

Parsing, signatures of webhooks, wording of errors, notifications, mail, pages and reports: they decide nothing that the
properties tell apart. Demo mode (payments are confirmed without a provider). The limit of 200 rows and the order of the
sweep's list. Purchases of several seats and several ticket types, and the printed ticket numbers. The `credit` audit trail
beyond the entries above. Editing candidates, categories, settings and the texts of a page: single rows, the last writer wins
and nothing depends on it. Suspension of an account, which can be lifted. The components with status `not_modelled` in
`PROJECT.json`, each with its reason.

Most of the lines that no definition maps to are of that kind: the pages, components, texts and styles of `src/apps/web`, listings and statistics
of the API, validation schemas and configuration. They keep no state that two steps could disturb, so a model of them would restate
them.

## 7. What could come next

1. Purchases of several seats and the ranges of ticket numbers, in `Payments` or beside it; the catalogue of ticket types against
   the signed contract, in `Publication`.
2. Voids in `Payments`, so that `PaymentFeed` holds with both sides of a void, and the ticket payments in `Wallet`.
3. Erasure of an account against requests that the same account has under way.
4. The chat assistant's quota.
