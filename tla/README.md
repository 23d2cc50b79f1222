# Bitback: a verification project

Bitback is a NestJS monorepo: an HTTP gateway, a back office (CMS), and
services for authentication, cashback, wallet, scheduled jobs and third
parties, which talk over RabbitMQ and share one Postgres database (through
Prisma) and one Redis. This directory models the parts of it that move money
or decide who may, model-checks them with TLC and proves what matters most
with TLAPS.

## 1. Inventory

| component | state it keeps | operations | what is hard |
|---|---|---|---|
| wallet (`apps/wallet`) | `cashback_available`, its histories, `cashback_transaction`, `account_referral`, `partner_transaction` | the three handlers of its queue, each made of `increaseBalance` calls | concurrent handlers, no common transaction, ack before work |
| gateway lock (`libs/common` LockInterceptor, `libs/redlock`) | locks in Redis | acquire, refuse, answer, expire | never released, expires under a running handler |
| orders (`partner.service.ts`, `payme.controller.ts`, `partner.controller.ts`, `buyVNDC`) | `partner_transaction`, SATOSHI balance | create on three routes, cancel, confirm | check-then-create and read-then-write over `await` |
| sign-up (`gateway/auth.service.ts`, `authenticator.service.ts`) | token cache, `account`, balance rows, referral, statistics | verify the passcode, create the account, save it, reward or link it | fire-and-forget promises, unique columns, reward through another service |
| exchange (`cashback-exchange-v3.service.ts`) | token cache, balance, exchange transactions | inquiry, verifyPasscode, submit, pay-out timer | hold and revert in another service, unknown answer, crash |
| account (`gateway/auth.service.ts`, `authenticator.service.ts`, `cms/module/account`, `libs/otp`, `libs/caching`) | `account` with its histories, and in Redis tokens, codes, reservations, the profile | login, refresh, codes, change of phone, mail, passcode and status, by the customer and by the CMS | a row read and written over `await`, calls nobody awaits, delayed deletes, tokens that outlive a lock |
| views (`auth.controller.ts`, its interceptors, `jwt.strategy.ts`) | responses kept by the gateway, answers kept by the services | read a view, edit what it shows | two caches that fill each other and that no edit clears |
| ONUS (`apps/third-party`) | `vndc_transaction`, `cashback_transaction_broker`, the broker's balance, a Redis lock | precheck, callback with its queries and retries, KYC IPN | duplicate callbacks, a lock that expires, payment before record |
| AccessTrade (`apps/cronjob`) | cashback transactions of conversions | scheduled scans of pages | overlapping runs, aborted pages, retries |
| CMS: customers (`module/account`) | `account`, `cashback_transaction`, `account_referral_stats`, partner commission | approve KYC, approve commission, update accounts, notify | credits before the commit, overlapping approvals |
| CMS: its users (`module/user`, `module/auth`, `jwt`) | users and their roles, tokens in Redis | sign in, reset a password, create, edit, delete | tokens that carry an outdated role, a role read before the row is written |
| pools (`wallet/pool.service.ts`) | `pool_value`, its two histories and its rates | claim, buy, sell, deposit, withdraw | statements beside their own transaction; no module provides the service yet |
| everything else | none of its own | validation, DTOs, mail, push, swagger, logs, exercises | nothing |

The components meet in four ways. The gateway sends a request to a queue and
waits for the answer, or emits an event and does not. The authenticator sends
credits to the wallet's queue. All of them read and write the same tables,
without a lock except where a row or a Redis lock says so. Caches in Redis are
written by one service and read by others.

All queue handlers acknowledge a message before they start (`@Ack`), so that a
message is handled at most once; nothing is redelivered after a crash. Every
`await` lets any other handler run.

## 2. Modules

| module | what it models | runs |
|---|---|---|
| `Ledger` | abstract: balances to which every credit is posted in one step, once | refined by `Wallet` and `PartnerOrder` |
| `Wallet`, `MCWallet` | the wallet service; one action per awaited statement | `wallet` |
| `Pool`, `MCPool` | the pool's five methods; one action per statement | `wallet`, through `MCWallet` |
| `WalletProofs` | theorems about `Wallet` and `Pool` | |
| `LockInterceptor` | the lock around a route, for any handler | through `PartnerOrder` and `Commission` |
| `PartnerOrder`, `MCPartnerOrder` | the order service composed with the lock | `orders` |
| `PartnerOrderProofs` | theorems about `PartnerOrder` | |
| `SignUp`, `MCSignUp` | sign-up, from the token to the wallet's credit | `signup`, `signup_referral`, `signup_kyc` |
| `Session` | what Redis keeps of an account: tokens, codes, a reservation | through `Account` |
| `Account`, `MCAccount` | the handlers that read an account and write it, composed with `Session` | `account` |
| `AccountProofs` | theorems about `Account` | |
| `Views`, `MCViews` | the views of the gateway and the two caches before them | `views` |
| `Exchange`, `MCExchange` | cashback to VNDC | `payouts`, through `MCPayouts` |
| `Onus`, `MCOnus` | ONUS's callback: a transfer becomes a purchase paid by a broker | `onus` |
| `OnusProofs` | theorems about `Onus` | |
| `Kyc` | approval of an account's eKYC, which pays the pending rewards | `kyc`, through `MCKyc` |
| `CmsUsers` | the users of the back office and their roles | `kyc`, through `MCKyc` |
| `CmsProofs` | theorems about `Kyc` and `CmsUsers` | |
| `Commission`, `MCCommission` | payment of a partner's commissions, composed with the lock | `payouts`, through `MCPayouts` |
| `PayoutProofs` | theorems about `Commission` and `Exchange` | |
| `Conversions`, `MCConversions` | AccessTrade's conversions: inserted, checked and paid by overlapping jobs | `conversions`, `conversions_all` |
| `CustomerProofs` | theorems about `SignUp`, `Views` and `Conversions` | |
| `Sums` | lemmas about the sum of a function over a finite set | |

Conventions. A handler is a program counter per request (`pc`, or `step` for
the legs of the wallet, the back office's users, the exchange and the jobs)
and one action for each stretch of code between two
awaits. A step that may fail has the failure as a disjunct. A crash sets every
running handler to `lost`. Variables called history (`posted`, `credited`,
`raced`, `overran`, `held`, `paid`, ...) record what happened and guard
nothing. A section "Plausible mistakes" in each module holds one altered
definition for each property: put in the place of the definition it is named
after, it breaks that property. None is a part of `Next`. Where one module of proofs
is about two systems, the second's `Init`, `Next`, `Spec` and `TypeOK` carry its
name (`PoolInit`, `ExchangeNext`, `ConversionsSpec`, ...). `MCWallet`, `MCKyc`
and `MCPayouts` check two systems that share no state in one run: one stands
still in an initial state while the other moves.

### Wallet

`amount` and `version` are the row of `cashback_available` of one currency
(version 0: no row yet). `FindRow`, `InsertHistory`, `UpdateMany` and
`InsertCbTrans` are the statements of `increaseBalance`; a leg is one call of
it. `accountReferral` runs two legs at once and inserts the referral when both
are done. `userDeposit` opens an interactive transaction, which locks the row
of the order, and increases the balance outside it: `DepositExpires` is
Prisma's time limit. `SaveAccount` is the authenticator giving the account its
row. Any of the messages may be under way, each of version 1, which is what all
the senders put in it; one that is `lost` from the start was never sent or did
not arrive, which no sender would notice.

### Pool

`egg` and `bbc` are the row of `pool_value`; a call's `pc` names its next
statement. Most statements inside `$transaction` go through the repository's
own client and commit at once (`UpdateEgg`, `UpdateBbc`, `CreateEggRow`,
`CreateBbcRow`, `CreateRateRow`); what the transaction itself has written
appears at `Commit` and is undone by `Fails`. `LockAndUpdate` is the one update
that holds the row until then. A rate is kept as the pair it is the quotient of.

### LockInterceptor and PartnerOrder

`holder` is Redis, `gate` is the request at the gateway. The lock key is the
route's pattern and path: one key for all users. Only `buy-satoshi` is under
the interceptor; `buy-vndc` has its interceptor commented out and the outgoing
order (`inquiry`) is an emitted event. `order` and `trail` are the row of
`partner_transaction` and its histories. `TakeInHand` is the read after which
cancel and confirm no longer look at the order; `raced` notes that two
handlers held one order at once.

### SignUp

One path for each sign-up request from `token` to `done`. `needKyc` is the
configuration. `tokens` is the cache: nothing but expiry removes a token,
since the gateway deletes another key than it reads. `AfterConfig` is the
branch at the heart of `insertAccountReferral`. The wallet's queue is reduced
to what a sender sees of module `Wallet`.

### Session and Account

`Session` holds the keys of Redis, each named by the request that wrote it, and
one operator for each set, delete and expiry. `Account` has one program
counter for each request and a function per handler that gives its steps in
order (`ChangeEmail`, `ConfirmEmail`, ...), so that an action is a statement
which several handlers share: `Read`, `Write`, `VerifyOTP`, `SetToken`.
`Accepts` is the condition on the row that was read, `Updated` what the update
writes: single columns of the row as it is then, and the histories as they
were read. `unawaited` are the deletes that were issued, or have a timer, and
that reach Redis at any later time (`DeleteArrives`). A crash ends one of
the three processes. Of the history variables, `met` are the requests that were
open together with a request; every property that allows an overlap names it
through `met`. One account is modelled; what other accounts do to it is
a statement that fails.

### Views

A view is a set of items, an item a version that an edit increments. `response`
is the interceptors' cache (five seconds, under the URL and, for a user's own
views, his id), `kept` the services' (ten seconds, under the account's
id). `Validate` is the guard, which has the profile read before any handler,
an edit's included; `Intercept` answers from `response`; `Handle` answers from
`kept` or the database. Both caches are set without waiting (`inFlight`). The
ten views are of five sorts: both caches (profile, contact), the own response
only (notification, transaction history, referral), the kept answer only
(get-account), the shared ones (banners with both, ads-banner-v2 with the
response only), and none (count). The run has one of the first, which fills
its two caches from each other, and one of the second; the others have fewer
caches than the first, or the same two under another key.

### Exchange

Calls share one account. `Text` and `TextLess` are how JavaScript compares two
Decimal objects: as strings. `Outcome` is the answer of VNDC or its loss. The
wallet has no handler for `HOLD_BALANCE` and `REVERT_BALANCE` in this
repository: their effect is taken from what this service does with the answer
and marked external, and an error is always possible; with the wallet of this
repository every submit ends there.
`stale` notes the submits that held on another balance than the one they
validated: nothing in the code keeps two of them apart, and the property says how
far they overdraw together.

### Onus

A callback names a transfer of VNDC that ONUS says has arrived. It takes a
lock on the transfer (`Acquire`), asks ONUS for the transfer up to five times,
looks for a record of it, picks the broker, has the wallet pay (again up to
five times), writes the record and frees the lock. `checkTransaction` and
`doProcessTransaction` count their attempts in an argument of their own, `attempt` here.
`getTransactionInfo` returns an example that is written in the source; whether
it agrees with the callback is left open. The wallet's `BROKER_PROCESS` has no
handler in this repository: it pays or refuses, and its answer may be lost.
`unlock` may itself throw, and an error outside `ONUS_ERROR` keeps the lock
until it expires; `overran` notes the callbacks whose lock expired under them. One
broker, which is what the configuration names. `precheck` is `CheckAccount`
alone. The KYC route only forwards a message that nobody handles.

### Kyc

A request to approve an account reads the account and its referral (`Load`),
reads the rewards that are still PROCESSING together with the status of both
ends (`FindPending`), sends those that are due to the wallet one at a time,
each followed by a notification, and then commits the account's status and the
referrer's count in one transaction (`Commit`). The wallet's `APPROVE_KYC` has
no handler in this repository: it credits the receiver and makes the row a
SUCCESS, and since nothing says that it looks at the row's status first, it may
credit a row twice. Only approvals are modelled: any other status sends
nothing. The rewards are there from the start, as sign-up leaves them.

### CmsUsers

A token carries the id and the role its user had when it was signed
(`signed`); Redis only tells whether the user has any token (`signedIn`), so
an older token is as good as a newer one. `Arrive` presents a token, the
actions after it find the target and write its row. `forgot` and `reset` are
the two routes without a guard. `TokenGone` is an expiry, or
the deletion that a reset does not wait for; neither an edit nor a deletion
takes a token away. Roles are numbers, and a smaller one covers a greater one. The
module shares no state with `Kyc`, and `MCKyc` checks both.

### Commission

A request names commissions of the partner in its path. Under the lock it
reads them (`FindCommissions` refuses any that is another partner's, marked or
of a conversion that is not a SUCCESS), asks for the rate, sends one payment
for their sum to the wallet and, once it is answered, begins the transaction
that marks them without waiting for it (`Mark`, `MarkCommits`). The lock is
keyed by the route and its path, so by partner, and is not given back: it
ends 30 seconds after it was taken, which is what keeps a second request from
reading what the first has paid and not marked yet. `overran` notes the
requests whose lock ended earlier than their marks. The wallet's
`PARTNER_COMMISSION` has no handler in this repository: it pays or refuses.
Amounts and tiers are left out.

### Conversions

A row of `cashback_transaction` is named by the run that inserted it and its
conversion. `FetchOnHold`, `FindExisting` and `InsertCbTransPending` are the
job for conversions on hold; `Count`, `FindMany`, `Ask`, `Look`, `Pay` or
`WriteStatus`, and `NextBlock` are the job that checks what became of the pending
rows, block by block. The rows are ordered by time with ties in any order, the
answer of AccessTrade is looked at in any order, and the merchant decides at
any time. `Look` ends the run where the code returns. Updates are transactions
that nobody awaits (`writing`), and they set the amount to 0 even for APPROVED,
so that a conversion that was approved first is paid its daily reward alone.
The wallet's `APPROVE_DAILY_LUCKY_WHEEL` has no handler in this repository. It
is sent AccessTrade's id of the conversion, not the row's, and may find no row
by it; payments that leave the row as it was are not in `paid`, for the next
check sends them again. Nothing in the code keeps a run from starting while
another one is at work; `overlap` notes the pairs of one job that were.
`unread` notes what a check counted and has not read since, and `moved` how many
rows came to be or ceased to be pending under it. An answer in which
AccessTrade lists one conversion twice is not modelled.

The job for approved conversions is not modelled: it works on a stub with an
empty account id, on which its first statement rejects, so it writes nothing.
Nor is the partner commission of an inserted conversion, which is given the id
of another table's row and fails on its foreign key.

## 3. Runs, bounds and results

| run | bounds | result |
|---|---|---|
| `wallet` | two accounts; from the start either a reward and two deposits of one order, or a referral with two legs beside one of them. Or one call of each of four methods of a pool, any three of which run, with one refused statement and a crash | every credit has its trail, referral and deposit are paid, every message settles, refinement of `Ledger`. The rows account for the pool up to calls that were interrupted; a row is exact unless another call moved the pool meanwhile |
| `orders` | two buyers' requests under the lock, one without it, a cancel and two confirms of one order; lock expiry, two kinds of crash | one pending Satoshi order while no lock expires early, an unraced order is settled once, SUCCESS is paid, refinement of `Ledger` |
| `signup` | one person twice with one token, two friends with one referrer, KYC on and off | one account for a person, and one reward for that account but where `signup_kyc` shows two, the wallet finds its rows, statistics match links |
| `signup_referral` | one sign-up with a referrer | violated, see the findings |
| `signup_kyc` | one sign-up without | violated, see the findings |
| `account` | up to four requests in five groups: changes of the address, codes and a forgotten passcode, sessions and locks, reservations, any two that write histories; two addresses, two numbers; one request fails or is refused | an entry is lost, an address verified without its code, a code or token used twice, a locked account signed in, or two numbers reserved, only by requests that ran beside each other, a crash, or the kept profile |
| `views` | two users; one reads and edits his profile and his notifications, the other reads his profile; one edit of each item, two sets in flight | nobody is shown another's data; an edit is shown in the end |
| `onus` | two callbacks of one transfer, one of another, a balance for one of them, two attempts | paid again only if a callback lost its lock or ended before its record; a record tells of a payment; overdrawn by no more than was paid on a stale check; every callback ends |
| `kyc` | two approvals of an account, two of its referrer, the two rewards between them and a welcome reward; or up to four calls about three users of the back office, in four groups | a reward is stranded or credited again, and an account counted twice, only by approvals that overlap or a crash; nobody comes by a role that no first user could give, and a role is overwritten by one who does not cover it only if an edit beside it has given that role |
| `payouts` | two commissions; two requests for both, one for one, one on another partner's path. Or two inquiries of the exchange, two verifications, three submits, balance 10 | paid again only if a request lost its lock or ended without its mark; a mark tells of a payment; only earned commissions are paid. Money covered, statuses tell the truth, overdrawn by no more than the submits held on a stale check |
| `conversions` | six conversions, two of one transaction, blocks of three rows; two with a row and one on hold, for three of two inserting runs and two checks; or five with a row and one on hold, for one run of each job | inserted twice, or its amount paid twice, only by runs that overlap; only confirmed conversions are paid; a check leaves out less than half a block, and one row more for each that came or went under it |
| `conversions_all` | one conversion with a row, one check | violated, see the findings |

Two requests of each sort are the least that race; a third party to the race
(a crash, an expiry, a request on another route) is present in every run.
Amounts are distinct powers of two where a sum must show what it is made of.
Every request, message and call happens once; the counters that need a cap
are those of `Views`: `MaxVersion` edits of an item, so that there is a last one
to be shown, and `MaxInFlight` sets under way when a request begins. `account`
and the pool's part of `wallet` end a behaviour at the second failure: the properties speak of
requests that finished and those beside them, and one failure leaves any
partner of a race. In `account` a code is asked for before it is used and
the requests about it name its number, for a request about another one
has no token to present. The symmetry of `orders` exchanges the two confirms, that of `conversions` the two
runs of each job, which no constant tells apart. In `conversions` a block
of three is the smallest that rounding splits both ways: one row less than half
a block is left out, and five rows make two blocks, so that the second page is
skipped to after the first has been settled. All but the conversion on hold are
decided from the start, and that one goes through every state. `CHECK_DEADLOCK FALSE` is set everywhere: each system stops when all
its requests have ended.

Fairness is assumed in `wallet`, `onus` and `views`. In `wallet` it is weak
fairness of each delivery, handler and leg. It is what the Node event loop and a connected broker give; a
handler that waits for a row lock gets it, because the holder settles or its
transaction ends. Errors, expiries and crashes are never forced. Weak fairness
is enough because two deposits of one order wait for each other's row lock at
most once, and a handler that waits may also fail.

In `onus` it is weak fairness of each callback's next statement and of the
wallet's queue: an HTTP call to ONUS answers or fails, and the pauses between
attempts are timers. Nothing is assumed of the lock's expiry.

In `views` it is weak fairness of each key's expiry, which Redis and the
gateway's store give every entry, and of the sets in flight: each arrives, or
is lost with its process. Nothing is assumed of the clients: they may read for
ever and refill what has expired, or stop.

The type invariants are not among the runs' properties: each is a theorem of
section 4.

### Findings

A referred account is never linked when KYC is not needed (`signup_referral`):
`insertAccountReferral` reads the version of rows its caller has yet to create,
and the promise it rejects is awaited by nobody.

The reward of an account that needs KYC is paid before it (`signup_kyc`). Its
row says that it takes effect after eKYC, and the approval of the KYC pays the
rows in PROCESSING; but `rewardNewAccount` creates the row and then sends the
same reward to the wallet, which credits it at once and writes a second row.

The check of pending conversions does not get all of them
(`conversions_all`), as its comment says: it divides their number by the size
of a block and rounds, so that fewer than half a block (25 rows of 50) are never
read as long as no more come, and it skips over the rows that came up when
earlier ones were paid.

Things a reader of the code may not expect, and which the properties above
allow for: the version that `updateBalance` compares never moves, so it
protects nothing (the increment does); two routes for orders do not share a
lock, so that an account may have an order of each sort pending; no edit
of a profile clears a cached view; a lock leaves a session to a login that is
under way.

## 4. Theorems

Every safety invariant of a passing run is a theorem, and so is every type
invariant, for all values of the constants that satisfy the module's
assumption. The assumptions say what the code guarantees of its input: that a
reference names something that exists, that amounts are numbers, that the
parties of a race are different. Some sets are assumed finite, because a
property counts or adds up over them: the accounts of `Kyc`, the calls of
`Pool`, the submits of `Exchange`, the conversions and inserting runs of
`Conversions`. At any time finitely many requests have been
made and finitely many rows exist, so a finite set is no restriction.

Each proof has the same form. `TypeStep` shows that the types are kept;
an inductive invariant joins the property with what its next step relies on,
mostly what a program counter says about the other variables; one lemma goes
through the actions; the theorem follows with `PTL`.

### Wallet and pool (`WalletProofs`)

* `TypeCorrect`: the type invariant is inductive by itself.
* `Invariance`: `IInv` joins the type, the audit trail, `LegInv` (what each
  program counter implies about the history row, the increment and the
  transaction of a leg), the fact that a queued message has idle legs, and
  that a leg past `find` sees the version it looked for. Without `LegInv` the
  audit trail is not inductive: nothing would say that a leg at `update` has
  its history row.
* `AuditTrailHolds`, `NoMismatch`: consequences of `IInv`.
* `PaidHolds`, `ReferralIsPaid`: deposits and referrals, from `IInv`: the legs
  that `AllDone` requires are in `cbTrans`, and that set only grows.
* `Refinement`: each step posts one leg not yet posted or leaves
  `amount` and `posted` unchanged.
* `PoolTypeCorrect`: with the statements each method has.
* `RowsAreExact`: `RowsInv` says of a call that no other one disturbed how far
  the pool is from what the call read, by the statements it has run. Without it
  nothing connects the value that is read first with the row that is written
  last. No assumption is made on the amounts: `last` may be negative.
* `PoolIsAudited`: the histories add up. `AuditInv` names the set of calls that
  have moved a value and not recorded it (`EggLedger`, `BbcLedger`): a
  call enters it with its update, leaves it with its row, and stays for good if
  it is cut off in between. The value is the opening one, plus the sum of the
  rows, plus the sum of the moves in that set. `AuditSteps` says of every action
  what it is to a value (the update, its row, the commit of both, or
  neither), so that the sums are dealt with once for each.

`Sums` has the lemmas on `SumFunctionOnSet` that this, `Exchange` and `Onus` need: a
new element adds its value, a sum changes with one of its terms. The induction
they rest on is over membership of a set (`SetInduction`), which needs no
operator as a parameter.

### Orders (`PartnerOrderProofs`)

* `TypeStep` and `Invariance`: `PcInv` ties a handler's position to its kind
  and to the gate; `LockInv` says that as long as nothing overran, a running
  Satoshi request holds the lock, and its account had no pending order when it
  counted; `HandInv` says what is true of an order that one handler has in
  hand, namely that it is still PROCESSING and not credited.
* `SinglePendingUnderLock`, `Settlement`, `SuccessPaid`, `Refinement`.

### ONUS (`OnusProofs`)

* `Invariance`: `LockHeld` says that a callback past `Acquire` holds its lock
  unless the lock expired (`overran`); `Stages` what each program counter
  implies about the payment and the record; `UnrecordedUnderLock` that
  nobody records a transfer which another callback, under the lock, has found
  unrecorded, unless it overran; `RecordedOnce` that a transfer has one record.
  The last two need the first: only the lock keeps a second callback from
  looking for the record too early.
* `TypeCorrect`, `RecordedPaid`, `PaidAgain`: consequences.
* `Overdrawn`: `CheckHolds` says that the broker can pay what it is about to,
  unless another payment overtook it; what was paid on an overtaken check
  (`overtaken`) makes up for all that the broker is short of (`CostOf`). Two
  lemmas say how that sum grows with one payment.

### Back office (`CmsProofs`)

* `Invariance` of `Kyc`: `PcInv` (rows left and messages sent, by program
  counter), `HeldTwice` (two requests that both hold a reward, as a row to
  send, as a message or as a credit, overlapped or one was lost), `OtherEnd` (a
  reward held by a request has its other end approved), `Settles` (a request
  past the query that left a reward unpaid overlapped with that of the other
  end), and `ApprovedBy`, `ApprovedBeside` (who approved an account).
* `TypeCorrect`, `RewardsSettle`, `CreditedAgain`, `CreditsAreDue`:
  consequences. `KycIsCounted` is inductive relative to `IInv`, by the
  cardinality of a set that grows by at most one account.
* `UsersTypeCorrect`.
* `NoRoleIsGained`: `GainInv` says that a call past its guard presents a token
  that was signed, and that this token's role covers the one it gives.
* `UncoveredIsOverlapped`: `OverlapInv` says that the maker of a call about to
  write covers its target's role, unless an edit of the same user that ran beside
  it is done and gave that role (`GaveBeside`).

### Payouts (`PayoutProofs`)

* `Inductive`, of `Commission`: `LockHeld` says that a request which is at work
  or still marking holds its lock unless it overran; `Stages` what a program
  counter implies about the commissions it has checked, the message, the
  payment and the marks; `Beside` that two requests that are past the check for
  one commission are apart: one overran or ended unmarked. `Beside` needs both
  of the others, as the second request's check tells nothing unless the first
  has marked.
* `TypeCorrect`, `PaidAgain`, `MarksTell`, `Earned`: consequences.
* `ExchangeInductive`: `Money` says where a submit stands with its money, by its
  next statement (not held before `hold`, held and not given back at the
  timer, not paid out where it may still revert); `Validated` that a submit about
  to hold has found enough.
* `ExchangeTypeCorrect`, `CoveredAlways`, `StatusIsTrue`, `OverdraftIsRace`:
  consequences; the balance is accounted for by the sum of what is held
  and not given back. `OverdraftIsRace` splits that sum: what the submits that
  held on an outdated check (`stale`) took makes up for what is missing.

### The account (`AccountProofs`)

* `TypeCorrect`: with `StepInv` (a handler stays among its own steps) and
  `KeyInv` (what it names is of the sort it asks for).
* The others rest on `MetInv`: two requests that are open at once have met.
* `VerifiedIsConfirmed`: `ConfirmInv` says that a confirmation about
  to write names the account's address, or met a request that changes it.
* `HistoryIsKept`: `HistoryInv` says that an entry is in the row and in every
  copy about to be written, or its request met another one that records. The
  copies are what makes `HistoryKept` itself not inductive.
* `ProofIsUsedOnce`: `CodeInv` says that a code which was accepted is cleared,
  or its deletion is under way, or was lost in a crash; `TokenInv` the same of
  the token a code is exchanged for. A second request that still
  found it must have been there before the deletion, so that the two met.
* `LockEndsSessions`: `HeldInv` follows the two deletions of a lock, which
  nobody awaits: while they are under way the token may be there; `AdmittedInv`
  says of a login that is about to set one that the account was active when it
  was read, or that it met the lock, or read the kept profile.
* `ReservesOnce`: `ReservationInv` says that a reservation made beside no other
  request for one, and not expired, is the one that Redis holds.

### Customers (`CustomerProofs`)

* `TypeCorrect`, `RewardedOnce`, `WalletFinds`, `StatsMatch`, of `SignUp`:
  `Stages` says what each stage of a sign-up has left in the database and in
  the wallet; `IdentOnce` that the accounts have different identities, which the
  unique columns see to; `RewardsCreated` that a reward is one of an account that
  was created, that the wallet credits none for a referred one, and that one
  waits only where KYC is needed. So two rewards of a person can only be those
  of one sign-up, the waiting and the credited one of the finding. One conjunct
  of `Stages` is that no referral reaches the wallet: the branch that would send
  it fails (see the findings), so `WalletFinds` says nothing of what the wallet
  would do with one.
* `ShownIsOwn`, of `Views`: whatever is kept, in either cache or on its way to
  it, is of the user under whose key it stands (`CachesOwned`, `FlightOwned`), and
  what a client holds between two steps is its own (`ClientOwned`).
* `ConversionsInductive`, with these parts. `Steady`: a run that has ended holds
  nothing. `RowsExist`: what a run or a message refers to exists. `Noted`: two
  runs of one job that are both at work are in `overlap`. `OneRow`: of two rows
  of a conversion, there or about to be inserted, the runs are in `overlap`.
  `Confirmed`: what is taken for confirmed is. `PaidFor`: a row that is paid for
  is settled, and only a run that overlaps with the payer's may still pay for it
  (`MayPay`); this needs `LooksInTurn`, that a run looks at a conversion once in
  a block, else one run might pay twice. `Counted`: of the rows a check
  counted and has not read, no more have come up into the pages it has read
  (`CameUp`) than rows have moved under it, and what lies beyond its last page is
  less than half a block but for rows that were added. A row that ceases to be
  pending lets one other come up and a row that comes to be pending pushes none
  up, which is why both count once; of two rows of one conversion the code does
  not say which page has which, so the count is of the single ones (`Alone`).
* `ConversionsTypeCorrect`, `RowsAreSingle`, `PaymentsAreDue`, `FewAreMissed`:
  consequences. The last joins `Counted` with `BlocksRound` (rounding to whole
  blocks leaves out less than half a block), `PageComes` (the next page takes
  what comes first in it) and `FewLeft` (what comes after n rows is at most the
  rest); `MissedSplits` puts together what came up and what lies beyond.

### Only model-checked

`EveryMessageSettles`, `EveryCallbackEnds` and `EditShown` are liveness
under fairness, which the prover does not reach. The three properties that are
violated are findings and have no theorem.

## 5. Not modelled, and why

Passwords of the back office (sign-in has its comparison commented out) and the
edit of one's own profile there, which writes neither role nor status. The
sign-up through Google that creates an account: `SignUp` has the creation by
phone, `Account` Google's sign-in to an account that exists. Listings,
exports, paging, uploads, mail, push messages, swagger and logging are input
and output. Controllers that only forward, validation and DTOs hold no
state the properties are about.
`decreaseBalance` is never called. The order app and the
exercises under `algrorithorm` are not a part of the system. Amounts are
naturals: the columns are Decimal and the code rounds before it writes.

## 6. Plan

What is modelled covers the parts that move money or decide who may, and their
safety is proved. What is left, in order:

1. Further refinements of an abstract promise: `Exchange` as an escrow that
   holds, then pays out or gives back; `Onus` and `Commission` as payers at
   most once while no lock ends early.
2. The sign-up through Google, as further paths of `SignUp`.
3. The passwords of the back office, once sign-in compares them.
