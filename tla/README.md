# Verification of split-udhar-apis

TLA+ models of the state-changing core of this server, TLC runs over small
instances of them, and theorems checked by TLAPS. The models are translated
from the Go source; `PROJECT.json` names the lines behind every definition.

## 1. The system

A Gin HTTP server over MySQL (gorm). Every request runs in its own goroutine;
services keep no shared memory, so all interaction goes through the database:
which rows a handler reads, when it reads them, and which database transaction
writes them. After a commit a handler starts one more goroutine that hands a
push notification to an outbox table. A background poller sends what the outbox
holds through FCM. A maintenance command replays balances.

| Component | Source | State | Operations | Modelled by |
|---|---|---|---|---|
| Groups and balances | `services/group_service.go`, `repositories/group_repository.go`, `cmd/maintenance` | `groups`, `group_members` (with a balance), `group_expenses`, `group_expense_edit_logs`, generated rows of `transactions` | add, edit and delete an expense, settle, add and remove a member, delete a group, recompute | `GroupLedger`, `BalanceRounding` |
| Notification outbox | `services/notification_dispatcher.go`, `repositories/outbox_repository.go` | `notification_outbox` | enqueue, recover, claim, send, mark | `OutboxDispatch`, `OutboxAttempts` |
| Payment reports | `services/payment_report_service.go` | `payment_reports`, settlement rows of `transactions` | report, confirm, reject | `PaymentDecisions`, `PaymentReports` |
| Personal transactions | `services/transaction_service.go` | `transactions`, `transaction_edit_logs` | create, edit, delete, archive, unarchive, summary, dashboard, history | `TransactionLedger` |
| Push delivery, device tokens | `services/fcm_service.go`, `repositories/user_device_repository.go` | `user_devices` | register, unregister, send, clean up invalid tokens | `DeviceTokens`; what a send answers its job, in `OutboxDispatch` |
| Authentication | `services/auth_service.go`, `repositories/otp_repository.go`, `repositories/pending_user_repository.go` | `otp_verifications`, `pending_users`, `users` and their MPIN columns | sign up, log in, verify a code, set and verify an MPIN, sign up with Google | `OneTimeCodes`, `MpinLockout` |
| Users and images | `services/user_service.go`, image part of `services/group_service.go`, `services/storage` | `users`, `groups`, objects in storage | profile, image of a user or a group, account deletion | `ImageReferences` |
| Controllers, routes, config, e-mail, migration | | none of their own | parsing, formatting, I/O, one-off DDL | not modelled |

How they interact: `GroupService`, `TransactionService` and
`PaymentReportService` each own a `NotificationDispatcher` and call
`EnqueueNotification` from a goroutine after their commit; `cmd/server/main.go`
starts one more dispatcher that polls every 30 s. `GroupService` and
`PaymentReportService` write rows of the `transactions` table that
`TransactionService` edits. Registration links a user to `group_members` rows.

What is hard here, and what correctness means:

- **Groups.** A handler reads the group and the expense *outside* its database
  transaction, decides, and writes without looking again; so two handlers can
  act on the same reading. Balances are redundant with the expenses, and so are
  the generated transactions: three copies of one truth must agree. Numbers are
  compared normalised but updated by exact match.
- **Outbox.** Dispatchers race for rows, die while they hold them, lose answers
  and fail to write outcomes. No row may be stuck; sends may repeat only when
  something failed.
- **Payment reports.** A decision must be made once and settle money exactly
  when it is to confirm, under races, rollbacks and retries.
- **Personal transactions.** An edit is three statements and no database
  transaction: read, log, save the whole row. Edits overlap with one another and
  with the group service's deletions. The history must still explain the
  amounts, and three separately written views of the same rows must agree.
- **Images.** A row and an object in another service are written one after the
  other, each step can fail, the process can die in between, and some writes of
  a user replace the whole row. No row may name an object that is gone, and no
  object may be left behind without a reason.
- **Authentication.** Nothing is a database transaction and errors of clean-up
  statements are dropped. A code is read, used and deleted by separate
  statements; the number of a registration and its code are in two tables. The
  MPIN, its counter and its lock are columns of a row that several handlers read
  and save whole. A code must count once and for what it was asked for; every
  wrong MPIN must be counted; a lock must hold for its window and no longer.
- **Device tokens.** Accounts share devices, requests of a device are lost or
  pass each other, and pushes delete tokens they read a while ago. The token of a
  device must be registered for whoever is signed in there, and for nobody else.

`PROJECT.json` lists each hazard at its line with the properties that cover it.

## 2. Modules

### GroupLedger

The state is `members` (rows of each group in insertion order, soft-deleted ones
kept), `dropped`, `expenses` (rows by id), `ledger` (live generated
transactions), `edits` (amounts in the edit log), `plan` and `calls`.

Each handler is two steps. The *read half* (`AddGroupExpense`, `SettleGroup`,
`UpdateGroupExpense`, `DeleteGroupExpense`, `AddMember`, `RemoveMember`,
`DeleteGroup`, `RecomputeGroupBalances`) evaluates the code's guards on the
current tables and stores in `plan[h]` what the handler is going to write. The
*transaction half* (`CreateExpenseTx`, `UpdateGroupExpenseTx`, ...) writes it,
or `Rollback` discards it. Steps of different handlers interleave freely. A
transaction is one step because its statements become visible together and the
row locks its balance updates take are held until it commits.

Details that matter and are kept: `UpdateMemberBalance` matches `user_mobile`
exactly, while guards compare normalised numbers (a number is a pair of person
and written form); `SplitMembersFor` falls back to the members of the moment for
rows without a split set; gorm's `Save` in an edit brings a row back that was
soft-deleted meanwhile; `DeleteGroup` ignores the errors of its two statements
on transactions; `AddMember` does not ask whether the group is deleted.

Abstracted: names, descriptions, dates; an edit that changes only the
description (it logs an entry with equal amounts); the two reads of one handler
(group, then expense) are one step; `CreateGroup` gives the initial states and
is not an action; a recompute is one request per group, in any order; a recompute
run without `-apply` writes nothing and is left out. Amounts are whole numbers
divisible by every split in use (an ASSUME of the MC modules); what fractions of
a cent, in shares and in amounts, do to balances is the subject of
`BalanceRounding`.

### BalanceRounding

One group again, with its requests one at a time, but with the numbers the
database really holds. `balance` is in whole cents, as the `decimal(12,2)` column
is, and starts from a state in which it was right; a delta is in parts of a cent,
of which `Parts` make a cent, so that every share is exact. `Stored` is what a
column holds after a value was written: the nearest cent, and either neighbour
when the value lies half-way, because the sum is taken in double precision first
and such a value is rarely represented exactly.

The amount of a request (`Prices`) is in parts too. Nothing in the code rounds
it: it moves the balances as it is (`Asked`), while the row of the expense keeps
it to the cent (`models/group.go:48`), and reverts and replays use the row
(`TakenBack`, `RowDelta`). So a request with a fraction of a cent makes balances
and rows disagree from the start. `AddEntry`, `RemoveEntry`, `EditEntry` (a revert
of the row and a re-apply of the request) and `RecomputeBalances` are the handlers
of `GroupLedger` reduced to what they do to balances; a settlement is an expense
split over its receiver. `roundings` counts what the drift is measured against:
one for each update of the balances since the last recompute, one more for an
amount that its row rounds, and one for the recompute.

### OutboxDispatch

`event` follows a notification from the commit to the outbox, `jobs` is the row
of each idempotency key, `worker` what each dispatcher is doing, `delivered`
counts what FCM took, `faults` the faults so far. `ProcessNextBatch` is split at
every statement another dispatcher could get in between: `RecoverStaleLocks`,
`SelectCandidates` (a plain SELECT), `ClaimCandidates` (an UPDATE by id), then
`Send` and `Mark` for each job. `MarkFails`, `ContextDone`, `Crash`, `LoseEvent`
and the outcome `answer_lost` are the faults. `locked_by` is kept although no
update ever compares it: goroutines of one service share a worker id, and marks
name the id only.

Time is abstract: `LockExpires` makes a lock stale, `BackoffElapses` makes a row
due. The lock time-out is 2 minutes; a poll's context lasts 45 s, an immediate
batch's 30 s, and the context is looked at before every job, whose send lasts at
most 15 s per 500 tokens. So with `SlowWorkers = FALSE` a lock expires only when
nobody is at work on the row. `SlowWorkers = TRUE` drops that and is covered by
two of the theorems (types, locks), not by a run: deliveries are unbounded then.

### OutboxAttempts

`OutboxDispatch` with two history variables: `sent`, how often each key's
notification was handed to FCM, and `unmarked`, how many of these sends have no
outcome in the row. The `attempts` column does not say how often a row was sent:
it is written after the send, so a crash or a failed update between the two
leaves a send uncounted. `AttemptsWithinLimit` allows one send more for each of
those and for nothing else. The variables are in a module of their own because
no action reads them and the shared outbox of the liveness run does without.

### PaymentReports and PaymentDecisions

`PaymentDecisions` is the promise: a report is decided once, and deciding to
confirm and settling are one step. `PaymentReports` is the service: a handler
takes the row lock (`SELECT ... FOR UPDATE`), checks, inserts the settlement,
saves, commits or rolls back, and afterwards notifies from a goroutine that may
die first. What an open transaction wrote is private to it. `Decisions` is the
refinement mapping: the decision is the committed status, and a report's
settlements are the committed rows.

### TransactionLedger

`rows` are the transactions by id, `logs` the edit log of each, `lost` the
transactions of which an insert into the log failed (the code prints the error
and goes on), `gone` and `dropped` the group expenses that were deleted, alone or
with their group. Every expense is in a group of its own here.

An edit or a deletion is a *read* that decides (`UpdateTransaction`,
`DeleteTransaction`), the insert of the log entry (`CreateEditLog`) and
`SaveTransaction`, which writes every column as it was read. gorm's `Save` turns
into an upsert when its update matches no live row, so it also clears
`deleted_at`; the model keeps that. Archiving reads and then updates one column
of a live row (`SetArchived`). `GiveUp` is a failed write or a process that dies.
The group service's two deletions are one step each, being transactions of their
own.

A number is a pair of person and form. The checks of `CreateTransaction`,
ownership and the swap of the parties compare whole pairs, the queries and
`SameMobile` compare the person only, as the code does. The views
(`SummaryBalance`, `Dashboard...`, `HistoryRows` and the totals) are operators on
the state; the dashboard omits the caller's positions in groups, which are
`GroupLedger`'s balances. The dashboard has a loop of its own in the code, with a
figure per contact that it adds to and takes from; `DashboardNet` is that loop,
and that it arrives at the figure of the summary is part of `ViewsAgree`.
`UnarchiveTransaction` does not refuse a row of a deleted group, because the code
skips that check when the look-up of the group fails. A note is an uninterpreted
value that is only compared; the columns no decision or total reads (`is_edited`, `previous_*`, `edited_at`,
`updated_by`, `status`) are left out. A profile that changes its number is not
modelled: each row and token keeps its form.

### ImageReferences

`rows` says of each user and group whether its row is there and which key it
holds; `objects` are the keys in storage; `plan` is what each handler has still
to do. An upload is the read of the row, `PutObject`, `UpdateImageKey` and
`DeleteObject` of the key that was *read*; a removal is the same without the
first write. `UpdateImageKeyFails` is an update that returns an error, after
which an upload deletes what it put; with `LostAnswers` the update may have been
written all the same. Deleting an account deletes the object (`EraseImage`)
before the row (`RemoveUser`). A put that is reported as failed may have arrived,
the error of a deletion is ignored, and `GiveUp` is a process that dies.

The key is written by a one-column update of a live row, and touching no row is
no error; everything else about a user is written by gorm's `Save`, which writes
the key as it was read and inserts a row that is gone (`SaveUser`: profile
updates here, and MPIN and Google sign-in in `services/auth_service.go` write the
same way). `GetByID` falls back to deleted groups, so an image can be uploaded to
a dropped group: the update touches nothing and the old object is still deleted.

Two variables record history for the properties. `doubtful` are the owners a
stale save, a lost answer or a begun account deletion may have left with a key
that names nothing; the next update of the key clears it. `leaked` are the keys
that are left behind for a known reason. Left out: the bytes and the name of an
image, and the UPI id. What else an account deletion removes is in
`DeviceTokens` and `OneTimeCodes`.

### OneTimeCodes

`codes`, `pending` and `registered` are the rows of `otp_verifications`,
`pending_users` and `users` (e-mail, number, and the code an account was verified
with); `visit` is what each handler has still to do. A sign-up is a read
(`Signup`: draw a code and find the row to overwrite), `SavePending` and
`SaveCode`; a verification is a read (`VerifySignup`, `VerifyLogin`), the insert
of the account (`CreateUser`) and the two deletions whose errors are dropped
(`Tidy`). `CreateOrUpdate` looks for a row and then saves it: two at once may both
find none, and a save of a row that was deleted meanwhile inserts it again. If
another pending row has its e-mail or number by then, MySQL overwrites that row
(`Landing`: gorm inserts with ON DUPLICATE KEY UPDATE). Otherwise the unique
indices of `pending_users` and `users` refuse a row. A login code is the
same without a pending row. `Expire` lets a code's ten minutes run out at any
moment, `Abandon` is a failed statement or a process that dies, and
`FinishGoogleSignup` and `DeleteRegistration` change accounts from outside.

The other variables are history for the properties. `asked` says what each code
was drawn for and `uses` how often it opened a session. The exceptions are named:
`overlapped` (two requests for one e-mail at once, where a code read by one
handler may be replaced or used by another), `kept` (a code whose deletion after
use failed: line 355 drops the error) and `torn` (a registration whose pending
row was saved and whose code was not: lines 291 and 302 are two statements). A
complete registration clears `torn`, but only while the e-mail has no account; an
account made with the wrong number keeps it.

### MpinLockout

`accounts` are the columns of a user's row that matter here: the MPIN, the
failures since the last success, and the time its lock has left. `request` is the
row a handler read and the row it will save. Every operation is a read that
decides (`VerifyMPIN`, `SetMPIN`, `SaveProfile`, `CompleteGoogleSignup`) and
`SaveRow`, which writes the whole row as read, with the handler's change in it;
bcrypt makes the time between the two long. gorm's `Save` also inserts a row
whose account was removed (`RemoveAccount`). `SaveRowFails` is an update that
fails: `VerifyMPIN` drops that error and answers all the same. `Tick` is a unit of
time for every lock, also in the rows handlers hold, since the code stores the
end of a lock and not its length.

`wrong` counts the wrong MPINs a user was told of, `chosen` is the MPIN last
acknowledged, `overrun` the accounts whose row lost a change: a save replaced one
made after its read, or a save that was needed failed. The properties say what
holds of every account but those; that a lost update happens is what the code
allows, and what `WrongMPINsAreCounted` says is that nothing else loses a count.

### DeviceTokens

`devices` is the row of each token, `known` and `closing` the accounts that exist
and those being deleted, `push` what each push in progress has read. On the other
side of the network, `holder` is who is signed in on each device, `dead` the
devices whose app is gone, and `inbox` the requests on their way, which are served
in any order or lost. `SaveFCMToken` looks the account up and `SaveToken` then
inserts the row or takes it over; `DeleteToken` deletes it only for its owner. A
push is `SendNotificationToUser` (reads the tokens), `SendMulticastFCM` (which
tokens FCM refused) and `DeleteInvalidTokens`. `DropDevices` and `RemoveOwner` are
the first and the last statement of an account deletion.

The exceptions: `astray` are tokens whose row need not be what the app believes,
because a request was lost or refused, two requests of the device whose order
matters passed each other, or FCM refused a token that is in use; the next
sign-in with nothing else in progress clears it. A sign-out that passes the next
account's sign-in is *not* among them: that is the case the owner check is for.
`late` are registrations that came while their account was being deleted (nothing
orders the two), or whose removal failed (the error is dropped).

### Proof and MC modules

`GroupLedgerProofs`, `PaymentReportsProofs`, `TransactionLedgerProofs` and
`ImageReferencesProofs` hold the theorems of the module they are named after,
`GroupBalanceProofs` those about the balance column (of `GroupLedger`, and of
`BalanceRounding` with its cents), `AuthenticationProofs` those of `OneTimeCodes`
and `MpinLockout`, `NotificationProofs` those of `OutboxDispatch` and
`DeviceTokens`, with the one about `OutboxAttempts`. `SetSums` has the laws of sums over finite sets that the balances
and the views of the ledger need. `MCGroupSequential`, `MCGroupConcurrent`, `MCOutbox`, `MCTransactions` and
`MCImages` give constants for TLC. `MCGroupAndRounding` (`GroupLedger`,
`BalanceRounding`), `MCOutboxes` (`OutboxAttempts`, and `OutboxDispatch` with two dispatchers), `MCReportsAndLockout`
(`PaymentReports`, `MpinLockout`) and `MCAccounts` (`ImageReferences`,
`OneTimeCodes`, `DeviceTokens`) put models that share no variable into one run:
`part` says which one moves while the others stay in their initial states. Since
no action of one reads a variable of another, and every property speaks of one
model only, each is checked as if it were alone. Definitions marked
"faulty variant" are bugs the code could have had; no specification uses them.
They exist so that each property can be seen to fail when one replaces the
definition below it.

## 3. Runs

| Run | Instance | Shows |
|---|---|---|
| `group_sequential` | 1 handler, 2 members and a third to join, every operation, 2 expenses, 4 requests, drift of 0 or 5, with and without rows of an older release | `LedgerMirrorsExpenses`, `EditHistoryChains`, `BalancesStayMatched`, `RecomputeRepairs` |
| `group_concurrent` | 2 handlers, 2 members and a third to join, add, settle, edit, delete, drop, 4 requests, with and without a row of an older release; 3 members, 2 expenses of half a cent or a cent over 2 or 3 members, 5 roundings | `LedgerMirrorsExpenses` and `BalancesSumToZero` under interleaving; `DriftIsBounded`, `RecomputeEndsDrift` |
| `group_payer_format` | two written forms of b's number | a violation: an edit breaks the match of balances |
| `group_double_delete` | 2 handlers | a violation: overlapping deletions revert twice |
| `outbox` | the poller alone: 3 events on 2 keys, 2 attempts, 2 faults; poller and a goroutine: 2 keys, 2 attempts, 1 fault | `DuplicatesOnlyAfterFaults`, `AttemptsWithinLimit`, `LockMatchesStatus`, `SettledIsFinal` of the first, `EveryJobSettlesShared` of the second |
| `outbox_shared_claim` | poller and a goroutine, 1 key, no fault | a violation: both claim the row |
| `payment_reports` | 2 reports, 2 people, 2 handlers, 3 transaction ids; 1 account, 2 requests at once, 2 MPINs, lock at the second failure, for 2 ticks | all properties of `PaymentReports` and `ImplementsDecisions`; `WrongMPINsAreCounted`, `ChosenMPINCounts`, `LocksLast`, `LocksEnd` |
| `transactions` | 2 handlers, 2 callers, 3 people, 2 rows, 3 requests, rows of an older release, a group and a confirmation | `AmountsAreLogged`, `TypeMatchesDirection`, `ViewsAgree` |
| `transactions_stranded` | 1 handler, a group row | a violation: an edit writes a deleted group row back |
| `accounts` | images: 2 handlers, a user and a group, 3 keys, 5 requests, every fault; codes: 2 requests at once, 2 e-mails, 2 numbers, 2 codes; tokens: 1 device, 2 accounts, 2 pushes | `ImagesResolve`, `OrphansAreAccounted`; `CodesAreUsedOnce`, `OneCodeEach`, `AccountsAreAsVerified`; `TokensFollowHolders`, `NoTokenOutlivesAccount` |
| `images_profile` | 2 handlers, uploads and profile updates, no lost answer | a violation: a profile update brings back the key of a deleted object |
| `group_rounding` | 2 members, 1 expense of 1 or 2 cents, 2 roundings | a violation: adding and deleting an expense leaves balances a cent off |

Bounds and why they are enough. `MaxCalls` (requests served) and `MaxExpenses`
bound the group runs: four requests hold every pair of conflicting handlers on
one expense, with one request before to create it and one after to observe, and
two expenses let one expense's writes touch rows of the other. Groups share no
row (an edit naming another group is `StrayEdits`, off in these runs), so one
group is enough. `MaxFaults` bounds faults so that liveness can ask for what
happens once they stop. Three transaction ids let an insert be rolled back and
two reports still be confirmed. Three requests of the transaction runs hold the
creation of a row and two edits of it that overlap in every order of their three
steps, or two edits and a deletion by the group service over a row that was there
before. Five requests and three keys of the images hold two uploads that overlap
after a first one, with a removal, a profile update or a deletion beside them; a
user and a group cover both kinds of owner, and rows of different owners share no key (proved as `OneOwner`). The
group and transaction runs and `accounts` turn the deadlock check off because a
behaviour ends when its requests, codes or updates are used up, or when the only
device has lost its app; the other runs keep it.

What an expense costs only matters for the parts of a cent it leaves over. With
12 parts to a cent, half a cent and a cent over two and three members leave
every kind: none, a half that can be stored either way, and fractions on either
side of it (a quarter, a sixth, a third), for amounts as for shares. Five
roundings are two expenses of a cent added, one edited and one deleted, or one
of half a cent added, edited to a cent and deleted, or a recompute after any of these and
four more.

Two codes, e-mails and numbers hold the cases of `OneTimeCodes`: a second code
for one e-mail, two e-mails after one number, one e-mail after two numbers. A pending
row that is overwritten by one that had vanished (`Landing`) needs a third code
and is left to the theorems. The
constraint `OneAccount` follows a behaviour up to the state in which a second
account exists, that state included, and no further; accounts only meet through
the unique indices, so that state is where the second one is refused or admitted.
The theorems hold for any number of codes and accounts; a larger instance
showed why `torn` may not be cleared once there is an account. One device is
enough for `DeviceTokens`: no step relates two tokens except that one push reads
all of an account. Two accounts take turns on it, and two pushes let one clean up what another has just
read. In `MpinLockout` two requests at once hold every pair of a read and a save;
with `MaxAttempts` 2 the second failure locks, as the fifth does in the code, and
a `Window` of 2 lets a request see a lock that is half over.

`BalancesStayMatched` speaks of groups whose rows all carry their split
(`SplitsStored`): a row of an older release is split over the members of the
moment, so any join or removal changes what its replay gives. For such rows the
run checks `RecomputeRepairs`.

What the sequential run leaves out on purpose: a removed member who joins
again. The new row starts at 0 while old expenses still name the number, so
replaying gives another balance; `Joiners` and `Leavers` are disjoint there, and
the case is planned as a run of its own.

`BalancesSumToZero` is weaker than `BalancesMatchLedger`, and that is the
point: the second fails under concurrency (`group_double_delete`), the first
survives it, since each revert is itself balanced, also one over members that
are no longer those of the group. Its two exceptions are real and TLC finds both:
two joins of one number at once leave two rows that every delta then reaches,
and a request that was decided before the group was dropped reaches only the
members that were added afterwards.

### Findings

1. `services/group_service.go:838`: the payer of an edit is stored as spelled.
   Trace: b is stored as `+91...`; an edit names b in bare form; the credit
   reaches no row. The comment at lines 56-59 explains this very danger.
2. `services/group_service.go:801`: two overlapping deletions both revert the
   balances. The comment at lines 796-797 promises all or nothing.
3. `repositories/outbox_repository.go:81`: two dispatchers claim one row. The
   comment at line 54 calls the claim atomic.
4. `services/transaction_service.go:194`: an edit that read a generated
   transaction saves it after the group expense was deleted, and the row is live
   again. `models/transaction.go:52-54` says the link exists so that no row is
   left stranded.
5. `services/user_service.go:79`: a profile update saves the key it read. An
   upload in between deletes that key's object, so the profile names an image
   that is gone and the new object is left behind. Line 138 promises to delete
   the previous image "ONLY after new reference is safely stored".
6. `services/group_service.go:115`: shares have fractions of a cent and the column
   has none. Trace: one cent is split over two, the debit of half a cent is
   rounded, and the revert is rounded again; both balances end a cent off. With
   real amounts, 100.00 less 50.005 is stored as 50.00 and 50.005 more as 100.01.
   Lines 102-103 say that applying and then reverting is a no-op.
   `DriftIsBounded` says how bad it can get, half a cent a rounding, and
   `RecomputeEndsDrift` that the maintenance command mends it.

### Fairness

`OutboxDispatch`: weak fairness of the poller's `RecoverStaleLocks` (its ticker
fires for as long as the server runs, and `docker-compose.yml` restarts the
server), of continuing a batch once started, and of time passing. Nothing is
assumed of goroutines, events or faults; a goroutine may start a batch at any
moment, which over-approximates the batches that enqueues start.
`PaymentReports`: weak fairness of a handler's own next step: a transaction that
holds a lock goes on, fails or is rolled back. No fairness is assumed of
requests.
`MpinLockout`: weak fairness of `Tick`: time passes. Nothing else has to happen,
so `LocksEnd` says that no pattern of guesses keeps an account locked.
In `MCOutboxes` the fairness is that of the shared outbox; in
`MCReportsAndLockout` that of both models, of which the one that stands still has
nothing enabled that is asked for except `Tick`, which changes nothing there. The other modules
state safety only.

## 4. Theorems

| Theorem | Assumes | Says |
|---|---|---|
| `GroupLedgerProofs!LedgerMirrors` | `~StrayEdits` | `Spec => []LedgerMirrorsExpenses`, any number of handlers |
| `GroupLedgerProofs!RowsWellTyped` | `~StrayEdits` | types of every table and plan, the integers of the balance column excepted |
| `GroupLedgerProofs!HistoryChains` | `~StrayEdits`, one handler | `Spec => []EditHistoryChains` |
| `GroupBalanceProofs!GroupTyped` | `~StrayEdits` | `Spec => []TypeOK`, integer balances included |
| `GroupBalanceProofs!RecomputeRepairsAll` | `~StrayEdits`, one handler | `Spec => RecomputeRepairs`, whatever the drift |
| `GroupBalanceProofs!StayMatched` | `~StrayEdits`, one handler, `OneSpelling`, nobody who may be removed joins again | `Spec => BalancesStayMatched`, every operation |
| `GroupBalanceProofs!GroupSumsToZero` | `~StrayEdits`, `OneSpelling`, no removals or recomputes; initial rows name members, initial sums are zero, shares are whole | `BalancesSumToZero` always, any number of handlers |
| `GroupBalanceProofs!DriftBounded`, `!RecomputeEnds` | the named ASSUMEs only | `DriftIsBounded`, `RecomputeEndsDrift`, any number of members, entries and updates, amounts with any fraction of a cent |
| `NotificationProofs!OutboxTyped`, `!LocksMatch` | the named ASSUMEs only | types; locks match statuses, any number of dispatchers, slow ones included |
| `NotificationProofs!DuplicatesNeedFaults`, `!AttemptsBounded`, `!SettledFinal` | `OneDispatcher` | the three properties of the poller alone in `outbox`; `AttemptsBounded` of `CountedSpec` |
| `NotificationProofs!TokensTyped`, `!TokensDieWithAccounts`, `!FollowHolders` | the named ASSUMEs only | types and both safety properties, any number of devices, accounts and pushes |
| `PaymentReportsProofs!TypeCorrect`, `!OneSettlement`, `!NotificationsTrue`, `!DecisionFinal`, `!Implements` | the named ASSUMEs only | the safety properties of `payment_reports`, the refinement included |
| `TransactionLedgerProofs!TypeCorrect`, `!AmountsExplained` | the named ASSUMEs only | types; the history explains the amounts, any number of handlers |
| `TransactionLedgerProofs!DirectionsMatch` | `OneFormEach`, `InitialRowsFit` | `Spec => []TypeMatchesDirection`, any number of handlers |
| `TransactionLedgerProofs!ViewsAlwaysAgree` | `RequestsApart`, `InitialRowsApart` | `Spec => []ViewsAgree`, any number of people, rows and handlers |
| `ImageReferencesProofs!TypeCorrect`, `!ReferencesResolve`, `!OrphansAccounted` | the named ASSUMEs only | types; `ImagesResolve` and `OrphansAreAccounted` always, any number of users, groups and handlers |
| `AuthenticationProofs!CodesTyped`, `!UsedOnce`, `!OneEach`, `!AsVerified` | the named ASSUMEs only | types and the three safety properties, any number of e-mails, requests and codes |
| `AuthenticationProofs!LockoutTyped`, `!AttemptsCounted`, `!ChosenCounts`, `!LocksLastTheirTime` | the named ASSUMEs only | types, two invariants and the action property `LocksLast`, any number of requests at once |

The arguments:

- `LedgerMirrors` needs to know what a plan may be when it is carried out late.
  `IInv` is `RowsTyped /\ LedgerLinks /\ PlansFit /\ LedgerMirrorsExpenses`.
  `LedgerLinks`: a generated row points to an existing expense of its own group.
  `PlansFit`: the rows an addition or a settlement will insert are live; the
  expense an edit will save exists, is of kind "expense" and of the plan's
  group, facts no other handler can undo, and the edit's new split is the one its
  new row carries. Nothing is needed of a deletion. So an edit rebuilds the rows
  of exactly the expense it saves, whatever happened since it was read, and the
  mirror survives the interleavings that break the balances.
- `HistoryChains` adds `HistoryIsCurrent`: the log of an expense ends at its
  amount, and a decided edit starts from the row as it is. The second part is
  what fails with two handlers.
- The theorems about sums need the laws of a sum over a finite set, and the
  library's induction cannot be instantiated. `SetSums` goes another way: `Total`
  sums a function by a chosen recursive function on the subsets of its domain,
  and each law is proved from a smallest set on which it fails. The models sum
  with `MapThenSumSet`; a bridge lemma for each sum (`AmountsAreTotals`,
  `ExpectedIsTotal`, ...) shows that the two are equal.
- `GroupTyped` is `IInv` together with integer balances: a delta is an integer,
  whatever the split, and a replay a sum of integers.
- `RecomputeRepairsAll` needs that what a recompute decided is still right when it
  writes (`CorrectionsCurrent`), and that is what a second handler breaks
  (hazard at `group_service.go:1001`). Of the drift nothing is assumed.
- `StayMatched` rests on `MatchInv`: whoever a live row names is a member or has a
  number that may be removed (`RowsCovered`), and a plan is what its handler would
  decide again now (`StillSo`). Then a transaction changes each balance by the
  deltas of the rows it changes (`UpdateKeeps` and its like), and a member who
  joins starts at the zero the replay gives. Every hypothesis is a way in which
  the code breaks the match: a second handler (finding `group_double_delete`), two
  spellings of a number (`group_payer_format`), an edit through another group's
  path (`group_service.go:822`), a removed number that joins again with balance 0
  while old rows still name it (`:454`).
- `GroupSumsToZero` rests on `SumInv`: live rows and decided writes name members,
  so every delta finds its row, and the deltas of one expense sum to zero. They do
  so only if the amount divides evenly (`SharesAreWhole`, asked of the requests
  that come in; otherwise see `DriftBounded`). A removal takes a balance out of the
  sum and a recompute writes balances of an earlier read, so both are left out;
  overlapping edits and deletions, which do break the match with the rows, are
  not. With two spellings a delta can miss its row, and the sum is lost.
- `DriftBounded` follows an update at a time: storing the sum puts the column at
  most half a cent further off (`OneUpdate`), and what a row calls for is at most
  half a cent from what its request moved, because a share of a rounding is no
  larger than the rounding (`RowIsNear`). Whole amounts need no second step, which
  is why they count one rounding and the others two. The assumption is about
  units only: parts are small enough for the shares of amounts and of whole cents.
  `RecomputeEnds` holds because the tolerance of a recompute, half a cent, is no
  more than what storing the exact value can be off by.
- `ViewsAlwaysAgree` writes each view as a sum over pairs of people. The
  dashboard's loop splits the rows between two people in the same two parts as the
  summary (`NetIsSummary`). What one owes
  another is what the other is owed, so the dashboards of all people are the rows
  of an antisymmetric table, whose entries sum to zero
  (`TotalSkew`). A row from a person to himself would be a debt without another
  side, and `CreateTransaction` refuses it only as spelled
  (`transaction_service.go:43`). Hence `RequestsApart`; `ApartInv` carries it
  through edits that are decided and not yet saved.
- The outbox theorems for one dispatcher rest on `SoleInv`: it relates the
  poller's copies to the rows they were claimed from (still `processing`, same
  attempts) and counts deliveries against faults. The formula was first checked
  with TLC. Two dispatchers break it; see finding 3. `AttemptsBounded` adds
  `Budget`: the sends of a key are its row's attempts, the send whose outcome is
  still to be written, and those whose outcome was lost.
- `PaymentReports` rests on `IInv`: a handler that works on a report holds its
  lock, the row it read is still the committed one and awaiting, and the ids it
  took are in no committed settlement.

- `AmountsExplained` rests on `HistoryInv`: a pending log entry starts at an
  amount the row's history already knows (or at today's amount when there is no
  history), and a save whose entry is written writes a known amount. Both
  survive other handlers' entries, because a history only grows.
- `DirectionsMatch` rests on `DirectionInv`: rows and pending saves alike have
  the creator among their parties and the type that fits. `OneFormEach` says that
  callers and contacts write a person's number in one way. It is needed:
  `CreateTransaction` compares numbers as spelled, so a caller who writes the own
  number in two ways can be both parties. Rows whose creator is a number or empty (groups, confirmations,
  older releases) are outside the property: a confirmation is stored as "give"
  by its receiver.
- `ReferencesResolve` rests on `IInv`: a key belongs to one owner, whoever still
  works with it (`OneOwner`); the key of an upload in progress is in no row and
  known to no other handler (`NewIsPrivate`), and once it is put it stays in
  storage (`NewIsStored`); a key about to be deleted is in no row that counts
  (`OldIsReleased`). The last part is what a stale save breaks and why such a row
  is in doubt. The formula was first checked with TLC for three handlers.
- `OrphansAccounted` is inductive with the types. Its lemma `AccountKept` says what
  a step of one handler must see to: what it lets go of is deleted, named by a row
  or recorded, and what it puts in storage it holds.

- `AttemptsCounted` and `ChosenCounts` rest on `LockoutIInv`: the row a handler
  will save is the row it read with the change its answer stands for
  (`RequestsMean`). If the row in the database is still the one it read, the
  save keeps counter and history in step; if not, the account is `overrun`. Time
  must pass in the held rows too, or the first case would not be recognised.
- `UsedOnce`, `OneEach` and `AsVerified` rest on `CodesIInv`. For an e-mail
  whose requests never overlapped at most one handler is at work, so what it read
  is what is there: the row it will overwrite is the only one, a code it accepted
  has not been accepted before, and the number in the pending row is the one the
  live sign-up code was drawn for. The last part is why `torn` is needed.
- `FollowHolders` rests on `HolderInv`: for a device that is not astray, the
  requests in flight are ones whose order does not matter, and serving them ends
  in what the app believes; a token a push is about to delete is dead or astray.
  `TokensDieWithAccounts` needs that a lookup that succeeded is not carried
  out after the account is gone without being recorded in `late`.

Only model-checked: liveness (`EveryJobSettlesShared`, `LocksAreReleased`,
`LocksEnd`), which the prover's backends do not reach. Every other property of the
passing runs is the subject of a theorem, under the hypotheses of the table.

## 5. Not modelled

- Session tokens (`utils/jwt.go`, `RefreshToken`): signed values the server keeps
  nothing of.
- Two codes that are equal by chance: a code is identified by its draw.
- What a change of name or number does elsewhere: `LinkUserToGroupMembers`,
  `UpdateGroup`, and rows and tokens that hold an old number. A number handed
  from one account to another, which would let a token be found by it.
- The UPI id of a user, contents of messages and mails, batches of 500 tokens.
- `src/migrations`, run once by hand; controllers, routes and configuration, which
  parse, call one service method and format its answer; the validation of image
  bytes; friends, expenses and settlements, whose files are empty.

Of the behaviours that are modelled, these are in no run, and their hazards in
`PROJECT.json` say so: a member who rejoins (`group_service.go:454`), edits that
name another group (`:822`), a recompute beside a write (`:1001`).

## 6. Plan

Done: every module of section 2 and its runs; a proof of every invariant and
every action property of the passing runs.

Left, in order:

1. Runs for the three behaviours above.
2. A composition of a service's commit with the outbox: every committed event is
   sent unless the process dies between the commit and the enqueue.
3. The sum of balances with removals and recomputes among the requests: a removal
   takes out a balance that the sum must then remember.
