# Dofixo: specifications, checks and proofs

Dofixo is the back office of repair shops, sold as a service: many shops
(*workspaces*) in one Postgres database behind an Express server (`backend/`), a
React client (`frontend/`) and a few scripts (`ops/`). This directory holds TLA+
modules of the parts whose correctness depends on what happens *between* two
statements: money in and out of the SMS wallet, purchases and the subscription,
the nightly job, the stock of a shop's warehouses, its counts and its repair
invoices, sessions and the codes that open an account, devices with their photos,
exports, and what the client keeps between two calls.

`PROJECT.json` maps each definition to the lines it stands for and lists the
runs, the mutants each property must catch, the findings, the hazards and the
theorems. The sections below say what is in the modules and why.

    tlc -workers 2 -config MCSessions.cfg MCSessions.tla       a run
    tlapm SmsCreditProofs.tla                                  the proofs of a component

## 1. The system

Everything a request does is a chain of awaited statements in one Node process;
requests interleave at every await, and several processes may serve one
database (the nightly job is always a process of its own). A transaction is
Postgres' READ COMMITTED with a five-second limit from Prisma; row locks are the
only exclusion between requests. Object storage, sms.ir (messages) and Zibal
(payments) are called over HTTP with timeouts and no common transaction.

| Component (code) | State it keeps | Operations | What makes it correct | Modelled |
|---|---|---|---|---|
| SMS wallet (`utils/smsWallet.ts`) | `sms_wallets`, `sms_wallet_transactions` | debit, credit, refund | balance = ledger, never negative, each movement once | yes |
| Notifications (`utils/customerNotification.ts`, `lib/sms.ts`) | `sms_messages` | charge, send, record, refund | a message's row, its charge and its refund agree; no free message | yes |
| SMS top-ups (`utils/smsTopup.ts`, `lib/zibal.ts`) | `sms_topups`, Zibal's record | start, settle | credited once, for the money Zibal took | yes |
| Subscription (`utils/subscription.ts`) | `workspaces.expires_at`, `subscription_events` | trial, extend | the expiry is what its events say | yes |
| Checkout, discount codes (`subscriptionController.ts`) | `payments`, `discount_code_uses` | check a code, start a purchase | a code is spent with the days it bought | without prices |
| Settlement (`subscriptionController.ts`) | the same | return page, called by the job too | paid ⇔ extended | yes |
| Referrals (`utils/referral.ts`) | `referrals` | link, reward | one reward per introduction | reward |
| Nightly job (`utils/subscriptionJob.ts`, `…Schedule.ts`, `ops/subscription-cron.sh`) | `subscription_notifications`, `workspaces.status` | warn, mark, delete, sweep open payments | no doubled message, no early deletion, no paid purchase lost | yes |
| Workspace deletion (`utils/workspaceDeletion.ts`, `lib/storage.ts`) | all tenant rows, bucket | delete | rows after objects | rows |
| Stock service (`utils/stock.ts`) | `item_stocks`, `items.current_stock`, `inventory_transactions` | post a document's lines | the tables agree with the ledger; all of a document or nothing | without prices |
| Purchase, sale, transfer (`*InvoiceController.ts`, `stockTransferController.ts`) | their headers and lines | create, edit, delete | a document has moved exactly its lines | stock side |
| Warehouses (`warehouseController.ts`) | `warehouses` | set default, retire, revive | one active default; retired ones stay empty | yes |
| Numbers (`utils/invoiceNumber.ts`) | counters on `workspaces` | next number | no gap, no twin | yes |
| Repair invoices (`repairInvoiceController.ts`) | `repair_invoices`, lines, payments | draft, issue, cancel, pay, delete | the parts that are out agree with the status | yes, without prices |
| Stock counts (`stockCountController.ts`, `StockCountDetail.tsx`) | `stock_counts`, lines; the fields of a page | create, add a line, save a figure and a note, apply, cancel | a sale made after the shelf was counted is neither undone nor counted twice (refuted: it holds from the last save of the line) | yes |
| Adjustments (`stockAdjustmentController.ts`) | their headers and lines | post | as any document | as a document beside a count |
| Items (`itemController.ts`, `avgPurchasePrice.ts`, `ItemFormModal.tsx`) | `items`, opening rows of the ledger | create, correct the opening, quick purchase and sale, remove | one opening, the one last entered; the average of the corrected history | kardex and average |
| Sessions (`authController.ts`, `middleware/auth.ts`, `api/index.ts`, `AuthContext.tsx`) | `refresh_tokens`; cookie, access token, the one renewal in flight | login, refresh, logout, reset; retry after a renewal | a renewal fails only for a cause; lost accounts lose their access | yes |
| Codes, registration, reset (`authController.ts`, `utils/otp.ts`) | `otp_codes` | send, register, reset | a code opens once; the ceilings hold | yes |
| Personnel (`personnelController.ts`, `middleware/authorize.ts`) | `users.role_id`, `is_active` | create, update, toggle, remove | a super admin loses that standing only to whom the code lets take it; an admin acts on technicians only (not so: section 3) | yes |
| Devices (`deviceController.ts`, `assignmentController.ts`) | `devices` | update, notify, remove | one message and one date per transition | status and message |
| Photos and pictures (`imageController.ts`, `settingsController.ts`, `lib/storage.ts`) | rows and objects | upload, delete, delete with the device, replace | what a row points at is in the bucket (refuted where a deletion ends between the two) | yes |
| Exports (`exportController.ts`, `utils/export/build.ts`) | `backups`, the builds of a process, zips | create, build, remove | what is offered for download is there | yes |
| Lists and forms (`RepairInvoiceList.tsx`, `DeviceList.tsx`, `ModalContext.tsx`, `DeviceFormModal.tsx`, `ImageUploader.tsx`) | search, page, rows; forms, queue of photos | type, page, save, close; submit, upload | a list shows what it asks for; work arrives once | these |
| Pricing (`utils/pricing.ts`, `utils/smsPricing.ts`) | none | pure | totals and rounding | no |
| Customers, categories, services, other settings | one row each | create, update, delete | one statement each | no |
| Tenancy (`lib/prisma.ts`, RLS policies) | `app.workspace_id` of a connection | set before every query | a query sees its workspace only | taken as given |
| Reports, HTTP surface, the rest of the frontend, ops scripts, documentation | | | | no |

How the parts meet: a device that changes status calls **notifications**, which
spend the **wallet** that **top-ups** fill. A **checkout** creates a payment that
Zibal collects; the return page and the **nightly job** both call the same
**settlement**, which spends a code, **extends** the subscription and then
rewards a **referrer** outside its transaction. The job deletes a workspace and
everything under it. **Invoices, transfers, warehouses** and **repair
invoices** go through the one **stock service**, each taking locks of its own
before the service takes its locks, and so do **counts** and **adjustments**. A
**device** that goes takes its **photos** along, unless an invoice names it. A
**tab** calls refresh when a request of a page is refused; **personnel** and
**reset** end sessions, and only the next renewal notices. A **list** asks again
when a **form** over it has saved.

The hard behaviours (all of them in `PROJECT.json` "hazards", at their lines):
repeated and concurrent return pages; answers of Zibal and sms.ir that are lost;
processes that die between two awaits; a job that works from a list it read
long ago; reads made outside the transaction that acts on them; locks taken in
different orders; lines of many documents over the same items; a snapshot, a
form or a list that is older than what it is used on; objects and rows that no
transaction holds together; and answers that arrive in any order.

## 2. The modules

    SmsWallet ◁── CustomerNotification ─┐
        ▲                               ├── SmsCredit ── MCSessions, SmsCreditProofs
        └──────── SmsTopup ─────────────┘

    Subscription ◁── Checkout ◁── Settlement ◁── NightlyJob ◁── Billing
                                                   ── MCBilling, MCTransactions, BillingProofs

    StockLedger (abstract) ◁── StockLedgerProofs (with Sums)
                           ◁── StockService ─┬─ MCTransactions, StockServiceProofs
                           ◁┄┄ StockCount    │  ── MCStockCount, StockCountProofs
                           ◁── RepairInvoice │  ─┐            (with Sums)
                               Kardex ───────┘   │
                                                 │
    RefreshTokens ◁── Sessions ── MCSessions,    │
                                 SessionsProofs  │
                                                 │
    Verification, Personnel, Pictures, Devices, ─┴─ MCWorkshop
    Exports, ListPage, DeviceForm ── MCDeviceForm

    Verification, Personnel, RepairInvoice, Pictures, Devices,
    Exports, ListPage, DeviceForm ◁── WorkshopProofs

The proofs about the kardex are in StockServiceProofs; those of the stock
service, the kardex and the repair invoices rest on StockLedgerProofs.

**SmsWallet**: the wallet's row and its ledger. A debit is one guarded
`UPDATE … WHERE balance >= cost` and one ledger line in one transaction, so it
is one action; `HasRow(type, ref)` is the unique index that makes a refund or a
credit happen once.

**CustomerNotification**: one call of `notifyCustomer` per message. `notifying[m]`
is where the call stands between its awaits, `message[m]` its row. Actions are
the awaits in order: `RecordRefusal`, `Charge` or `InsufficientBalance`,
`SendAccepted`, `SendThrows` (the message may have been delivered all the same),
`MarkSent`, `MarkSentThrows`, `RefundFailedSend`, `RefundThrows`,
`RecordOutcome`, `OuterCatch`, and `NotifyCrash`.

**SmsTopup**: `startTopup` (`starter[t]`) and any number of return pages that
run `settleTopup` (`settler[s]`), against Zibal's own record (`gateway[t]`).
Result 201, "already verified", is answered to every verification after the
first.

**Subscription**: `now`, `expires`, the events; `ExtendSubscription` starts at
the later of now and the old expiry, as the code does.

**Checkout**: `checkout[p]` is the handler, `payment[p]` its row, `uses` the
spent codes. **Settlement**: a *call* per return page and one for the job; the
steps are read, verify, record a mismatch, commit (payment, use and days
together, aborted by the unique index), then the referral's count, claim,
reward or revert. **NightlyJob**: `job` is the run with the list it read
(`snap`, `listed`), its own clock, the workspace or payment in hand, and what
is left. **Billing** composes them with the customers, the clock and the faults.

**StockLedger** is the *abstract* stock of a shop: `Post` moves all lines of one
document at once (`PostLines`), keeps `stock`, `total` and `ledger` in agreement
and never takes a shelf below zero; `Refused` is what `planStockMovements` throws
for, the closed warehouse included. `LedgerSpec` is any sequence of such posts.

**StockService** is the detailed one: each clerk's transaction `tx[c]` wants
rows in the order of the code's statements, holds them in FOR UPDATE or FOR KEY
SHARE mode until it ends, sees only what was committed when it got the lock,
and posts at commit. Its kinds of request are purchase, sale, transfer, edit,
delete, retire, revive and move the default. `Rollback` stands for refusal, a
broken connection, the five-second limit and Postgres' choice of a deadlock's
victim; it is always possible. The refinement is by identity on the ledger's
variables: a commit is a `Post`, every other step stutters, which the run
checks as the property `LedgerSpec`.

**RepairInvoice** uses the stock as `StockLedger` promises it. Its handlers that
lock the invoice (`lockInvoice`) are one action each; `addPayment` is two,
`ReadForPayment` and `WritePayment`, because it reads before its transaction.

**StockCount** joins the counting page with the transactions behind it. `field`
is the figure and the note of a line as its page has them; both go with every
save, which is made when either is left with one of them not saved (`Leave`), when
an answer finds one changed meanwhile (`Saved`), and, after an error, when a field
is entered and left again. `requests` are the saves on their way (`sent`, `read` once
the snapshot is taken, `stored` or `refused`), `count` the row with its lines,
`desk` an apply between its review and its movements. `updateLine` is two steps,
`SaveRead` and `SaveWrite`, for the snapshot is read without a lock and `counted_at`
after it, whether the figure is another one or the same; the lock on the count's row is `Shared` and `Free`. A document is
`Begin` and `Commit`, since its rows carry the moment its transaction began. The
module maps its shelf and rows to `StockLedger` by `INSTANCE … WITH` and promises
`MovesAsLedger`: each document and each applied count is one `Post`.

**Kardex** is one item's rows of the ledger with its moving average. An edit
form is filled when it is opened (`OpenForm`) and sends its opening with whatever
it saves (`SaveForm`); a correction reads the live opening without a lock
(`ReadLive`), then the share of it that is still on the shelf (`Weigh`),
and posts the new opening and the reversal (`PostCorrection`).
Costs are fractions in lowest terms.

**RefreshTokens** is the server's half of a session: `Prove` and `Issue` of a login,
`Lookup`, `Spend` and `Issue` of a refresh, with the grace in which a spent token
is still honoured and the alarm after it, `EndSession`, `ResetPassword`,
`ToggleActive`, `Remove`. **Sessions** is the browser's half: tabs that share a
cookie, one renewal in flight per tab, requests that wait for it and go out once
more, reloads, lost answers, access tokens that run out. A row that neither a
cookie nor a call holds is forgotten (`Forget`), which makes the state finite
although sessions are renewed for ever.

**Verification**: `codes` are the rows of one number in id order; `caller[c]` is a
request between its statements. `AskCode` (user and count), `Supersede`,
`MakeCode`, `SendCode` and `DropCode` are send-otp; `UseCode` (newest code and
verdict), `CountAttempt`, and the transactions `SignUp` and `NewPassword` are
register and reset-password.

**Personnel**: each user has an access token with the role it was signed with,
and a request judged by it (`act`) that writes one step later. `act` also records
by what it was judged: the role in the token and the one the account had.

**Pictures**: `work[r]` is a request between its object and its row.
`putObject` may throw and have stored all the same; a deletion that fails is
logged and forgotten, so any subset of the keys goes. `stranded` is of no column: the
keys that a deletion had in hand when it ended between its objects and its rows. **Exports** is alike, with a
build that belongs to the process and dies with it.

**Devices**: `ReadStatus`, `WriteDevice`, `NotifyIfAsked`, three statements of one
update on several desks. What becomes of a message is `SmsCredit`'s.

**ListPage**: `flight` holds the requests for rows, each with the question it asked
and the changes it is sure to see; `Arrive` takes any of them. `Debounce` asks
with the old page and, when that is not the first, again with the first, as
the two effects of the page do. The picker of a row's status (`PickStatus` to
`RowAnswered`) asks again with the question it closed over; a form's save
(`SubmitModal` to `ModalAnswered`) outlives the form.

**DeviceForm**: the form in front, the save of each form (device, then
assignments), the photos in its queue; `TellSaved` closes whatever form is in
front, as `closeModal` does.

**Sums** has no model in it: it is what the proofs need of sums over finite sets
of integers and of sequences, in any order.

In each module the definitions whose name ends in a wrong form (preceded by the
comment *A wrong form*) are not part of any specification: each is what a
plausible mistake in the code would have made of the definition after it, and
substituting it must break the property `PROJECT.json` names.

## 3. The runs

Passing runs:

| Run | Instance | Question |
|---|---|---|
| `billing_life` | 1 shop, 1 payment, 1 page, days 0–4 with trial 1, grace 1, deletion 3, the job every night, 1 fault | From the trial to the deletion, with runs repeated, failing and dying: is nothing sent twice, nothing deleted early, no paid purchase written off, and does money become days though nobody returns to the page? |
| `transactions` | service: 2 clerks, 2 items, 2 warehouses, 2 documents of one or two lines, at most 3 movements before the last post; kardex: an edit form and a bare request, 2 openings, 5 entries; settlement: 2 shops, 2 payments of the invited one, 1 code, 2 return pages, 2 faults, no nights | Do concurrent documents keep the ledger, their numbers, the default and the retired warehouses right, implement `LedgerSpec` and block one another only through a purchase's line rows? Does a correction leave the opening that was entered and the average that history would have? Do days, codes and rewards agree with the money, whatever settles what twice? |
| `stock_count` | 2 counts of one item to which a second can be added, 1 adjustment that empties the first shelf and fills the second, 2 figures or notes typed; with one count alone 3 of them, or 2 and a field whose connection drops | Is a count applied against the last snapshot of each line, does its review miss a movement only for its two causes, does the page show what is stored, through errors, late answers and saves sent again, and do all of them implement the ledger? |
| `sessions_and_credit` | sessions: 1 account, 2 tabs of one browser, 2 requests of one of them, 2 calls, 1 event (a lost answer, reload, logout, reset, disabling, an old token); credit: 2 messages, 1 top-up, 2 return pages, costs 1–2, amounts 2–3, crashes unbounded | Does a renewal fail only for a cause, is every request answered, and does a lost account lose its access? Do the money, the rows and the gateway agree in every interleaving, and does every call end? |
| `workshop` | eight scenes of two actors each, see below | Do codes, roles, repair invoices, photos, messages, exports, lists and forms hold what they promise? |

A *scene* is a part of the project that shares no variable with the others in the
same run: the initial state picks one, and the others stay where they start, so
the state space is the sum of the scenes and not their product. `transactions` has
three and `sessions_and_credit` two; what is fair of one of these two is not enabled where
it starts, and so asks nothing of it while the other runs. The scenes of `workshop`:

| Scene | Instance | Property |
|---|---|---|
| codes | 2 requests, 3 codes, ceiling 1 and 1 attempt, one failure; a number without a user, with one, or with one that is disabled | `CodeOpensOnce`, `CeilingsHaveCause` |
| personnel | the owner and one more account, tokens that outlive their roles | `StandingIsTaken` |
| repairs | 2 invoices that want the same 2 parts, 2 cashiers | `PartsMatchStatus`, `PaidWasCollected` |
| pictures | 2 requests, 2 photos of one device, 1 more picture of the settings | `RowsHaveObjects` |
| devices | 2 desks, moves up to three | `ToldOncePerMove` |
| exports | 2 exports, 2 requests, a process that dies | `ReadyHasArchive` |
| list | 2 searches, 2 pages, 2 requests under way, 2 changes | `ShowsWhatIsAsked` |
| form | 2 forms one after the other, 2 photos | `WorkArrivesOnce` |

Several properties name a *cause* (`CeilingsHaveCause`, `RenewalFailsForCause`,
`UnflaggedHasCause`, `DeadlockHasCause`, and `overtook`, `outdated`, `slipped`, `raced`,
`interleaved`, `odd`, `undone` in others). The code has a window there that no comment
denies; the property says that it is the only one: outside it, whatever happens, the
promise is kept. A cause is set only by the step that opens the window, and each
of these runs does reach states without it in which everything else went wrong.
What such a property does not do is catch its cause: the race that the hazard in
`PROJECT.json` describes does happen in `OpeningAsTyped`, `DraftKeepsItem`,
`ResetEndsSessionsAtRest`, `UnflaggedHasCause`, `CeilingsHaveCause`, `ToldOncePerMove`,
`ShowsWhatIsAsked` and `WorkArrivesOnce`, and is what they excuse; they fail for
any other way to the same end.

`RowsHaveObjects` has an exception of another kind, for its comment does deny it: the
keys a deletion ended with are `stranded`. What a comment says of them is
`NoRowWithoutObject`, which a run refutes; what is left is that no upload, no
failure, no other deletion and no replacement leaves a row without its objects.
In the same way `AppliedFromLastStamp` is what the code keeps of the refuted
`NeitherUndoneNorTwice`, and `StandingIsTaken` says exactly by what a super admin's
standing can be taken, an admin's update of another role among them (see below). It follows from it
that whoever acts as a super admin, with a token that is still true, leaves a super
admin standing, namely themselves; it does not follow that a workspace keeps one. Two who remove
each other at once leave none, and so may an admin.

Runs that refute a comment (each checks one property and ends in a
counterexample; `PROJECT.json` "findings" quotes the comment):

| Run | What the trace shows |
|---|---|
| `billing_extended_twice` | Two settlements read one pending payment; the second commits on top of the first and its days are given twice. |
| `billing_same_code` | Two paid payments carry one code; the second settlement is aborted by the unique index every night, so the payment stays open for ever. |
| `billing_deleted_while_paid` | The job reads its list, the shop renews, the job deletes the shop on the expiry it had read. |
| `repair_comes_back_once` | A payment read before a cancellation is written after it, the cancelled invoice reads as paid, and deleting it returns its parts again. |
| `count_note_restamps` | A figure is sent and a note typed while the save is out; stock leaves the shelf; the note's save sends the figure again, which is stamped against the shelf as it is by then; applying the count puts back what left, and the review flags nothing. A note typed an hour later does the same. |
| `photo_lost` | A photo's object is deleted, the deletion of its row fails, and the row stays: the order that the comment chose so as to avoid it. |
| `form_forgets_photos` | Photos chosen for a new device wait for an id that the form never passes on, and are forgotten when the device is saved. |

Four more disagreements were seen and have no run of their own. The comment above
`roleRestriction` (`personnelController.ts:64`) says that an admin may only ever act on
technicians. `update` gives it the role that is assigned (`:375-383`) and never reads the one the
account has, so an admin can make a technician of a super admin, and `toggleActive`
refuses an admin super admins only (`:429`), so they may switch off another admin. The
second disjunct of `StandingIsTaken` is that case, and the model reaches it. The comments of
`customerNotification.ts` speak of a recovery sweep for messages left pending by
a crash; nothing reads such rows again. The comment at the locks of `stock.ts` says
that documents over the same items queue rather than deadlock: `DeadlockHasCause`
states for which it is so. A save that is answered after its form was closed
closes whatever form has been opened since, with what was typed in it:
`WorkArrivesOnce` names it as a cause.

*Bounds.* Everything bounded is a CONSTANT or a set in the MC module. Two
concurrent actors per shared row are enough for every race of section 1, since
each is between one stale reader and one writer; a third return page or clerk
only repeats one of the two. Two costs and a wallet filled by one top-up make
the balance run out; two amounts make a wrong payment. A day is enough of a
clock because the job compares whole days; the constants of the schedule (7, 1,
grace 3, deletion 30) become 1, 1 and 3, which keeps their order and makes each
message due on its own night. `SettlementWindow` is 9 in `billing_life`, beyond its
five days (`MaxNow` 4): there the window never closes, and `PaidGetsItsDays` is about payments
inside it, where the code has 7 days. With 2 the property would fail, as the
code means it to: the clock may pass over nights, and a paid purchase older than the
window is only logged. `MaxFaults` bounds failures, so that "finitely many
failures" is what liveness assumes. In the stock, `MaxRows` 3 allows a
purchase of two lines followed by another document's change of the same rows,
and one edit or deletion; opening stock is one of each item, so the second
taker is refused. In the repair shop two invoices want the same two parts, so
one of them is refused until the other is cancelled. Five entries of a kardex are
an opening, a purchase, a sale, and the two of a correction. Two figures of which
one is below and one above the shelf make a count write off and write on; the
adjustment that empties a shelf makes its write-off impossible. Two notes, none and
one, are enough for a save of the note alone. A third entry, or an error, which leaves something to
send again, is explored with the other count not begun (the constraint
`OneCountGoesFurther`), for what two counts share is the shelf. One event of each
kind is enough for the sessions because each cause is a single loss or a single
crossing; the code's grace is one more use of the same token. A ceiling of one
code and one attempt is passed by two requests at once as a ceiling of three is
by four. Three pictures make the second photo of a device and a settings picture
that is replaced once.

*Deadlock* is not checked (`CHECK_DEADLOCK FALSE`) because every instance stops
where it has nothing more to do: each message, payment or document is created
once and the clock and the faults are bounded.

*Fairness.* Calls that are not killed go on: a statement returns or throws, and
every HTTP call has a timeout (`AbortSignal.timeout` in `lib/sms.ts` and
`lib/zibal.ts`), so weak fairness on the steps of a running call. Cron starts
the job again (`WF(CronRuns)`) and a run that is not killed goes on
(`WF(JobStep)`). Nothing is assumed of customers: paying, buying, returning to
a page are not fair, nor are crashes or faults. In the sessions the server answers, a page's requests are served and renewed,
and an access token runs out in the end, as its fifteen minutes do; nothing is
assumed of users, of logins or of the network, which may lose an answer.
`PaidGetsItsDays` is conditional on a payment without a discount code, because `billing_same_code` shows that it
fails with one, and on a workspace that still exists.

## 4. What is proved

Each proof module gives, for its component, one inductive invariant (`IInv`,
`BillingInv`, `CountInv`, …) that holds in every state of the specification, and
the properties of the runs as its consequences. Only the named assumptions beside
the constants are used, so a theorem is for every number of shops, payments,
requests, clerks, items, counts and failures. Below: what each one establishes,
and what had to be added to the properties to make them inductive, for that is
what the code relies on.

*The SMS credit.* `SmsCreditProofs` proves its safety for every number of
messages, top-ups and return pages and every set of positive costs and amounts
(`WalletAssumption` and the assumptions beside the constants are all that is
used; crashes are unbounded):

* `CreditTyped`: type correctness.
* `WalletSound`: the ledger is a chain (each line starts where the one before
  ended), the balance is its last line, and neither ever goes below zero.
* `MessagesPaidOnce`: each message is charged at most once, refunded at most once
  and for the same amount; its row agrees with the ledger; none is delivered
  without a charge.
* `TopupsCreditedOnce`: a top-up is verified exactly when it was credited, once,
  with the amount Zibal took; `CreditedStaysVerified`: and stays so.

The argument is one inductive invariant, `IInv`. The properties alone are not
inductive: a notification that holds a stale position could refund twice, a
settler that was told "paid" could credit an amount nobody took. Three
strengthenings close this. `CallInv` ties the position of a call to what its
row and the ledger say (a running call's message is pending and is not refunded
before the step that says so). `StarterInv` orders the start of a top-up: no
gateway record before the request, no tracked row before the end. `SettlerInv`
says that what a settler learnt is still true when it acts: Zibal's answer
never changes once given. The proof has one lemma per module's next step
(`NotifyKeeps`, `StartKeeps`, `SettleKeeps`, `CrashKeeps`), each with one step
per action, and two lemmas on what a new ledger line disturbs (`NewLine`,
`NewRow`); the same invariant gives the action property and `RowsAgreeWithLedger`,
that the row of a message says what the ledger says of it.

*Billing.* `BillingProofs` proves, for any shops, payments, codes, return pages and
nights, the seven properties of the billing runs (`BillingExpiryIsChain`,
`BillingVerifiedIffExtended`, `BillingCodeSpentOnce`, `BillingReferrerRewardedOnce`,
`BillingRemindersSentOnce`, `BillingDeletedWasOverdue`, `BillingPaidNeverWrittenOff`)
and the action property `BillingPurchasesMove`: what was bought, asked of the gateway and
settled stays so. `BillingInv` adds five parts. `PurchaseStages` is the life of a payment
over its handler, its row and Zibal's record. `CallsKnow` is what a settlement read
and may still rely on: that the money moved and how much of it, never that the
row is still pending, which is why two settlements may both reach their commit.
`ClaimHeldOnce`: a claimed reward is in the hands of one settlement, or given.
`RunKnows` is the same for the nightly job: each expiry in its list was one of the
workspace's, and the payment in its hand is a payment whose hour is over.
`AboutToSend`: between a message and its row, the job has it in hand and no row of
that message exists. That the days of the schedule keep their order
(`JobAssumption`: the warning, the grace and the deletion) is used for the deletion alone.

*The stock service.* `StockServiceProofs` proves, for every finite set of items
and of warehouses and any clerks, documents and goods (`LedgerAssumption`,
`ServiceAssumption`; goods are never an empty list, as the code's schemas have it):

* `ServiceImplementsLedger`: `Spec => LedgerSpec`. A commit is a `Post`, every other
  step leaves the ledger's tables alone.
* `ServiceStockIsLedger`: by the refinement, its tables add up as the abstract
  ledger's do.
* `OneActiveDefault`: one default warehouse, and it is active.
* `NumbersRunOn`: the numbers of a kind have no gap and no double.
* `RetiredStayEmpty`: a warehouse is retired only empty, and afterwards nothing but
  the reversal of an old document reaches it.
* `MovedAsListed`: what the ledger has moved for a document is what its lines say.
* `DocumentsQueue`: two documents that wait for one another include a purchase
  that shared items by writing its line rows first.

None of them is inductive: that a commit adds to the right total is true
only because nobody changed the item since the transaction read it. The
invariant (`ServiceInvariant`) says what a row lock buys. `LocksExclude`: a row
locked to be written has one holder. `ReadIsCurrent`, `OpenIsActive` and
`NumberIsNext`: the total, the active warehouse and the next number that were
read under a lock are still so. `LocksAhead`: each transaction has, or still asks
for, the lock of every row its end depends on, so that at its commit, when it
asks for no more, it has them (`CommitHolds`). `DocumentsKept`: a new document is
one request's alone, and what a document holds is a list of lines. Each action
has its lemma (`BeginCreateKeeps`, …, `CommitDocumentKeeps`); the ones that begin,
and the ones that end, share `BeginKeeps` and `EndKeeps`. Two further invariants stand on it. `AllKnow`: the
lines of a transaction follow from its request and, for an edit or a deletion,
from the document as it was when its row was locked; a commit then gives the
document exactly the sum that is moved for it (`DocumentsMoved`). `AllInLine`: what a
transaction holds and what it still asks for are parts of one order (the
document's own row, the counter with nothing else held, warehouses only shared,
items by rising id), so of two that wait for each other one has left the order,
which only a purchase's line rows do. `RetiredStayEmpty` needs, beside the locks, that no shelf is below
zero, so that an empty total is empty shelves. Below them are the facts
about the lists the model is built of: `AscendingLists` (ids in order are all the
ids), `GoodsGiveLines`, `EditsGiveLines`, `ServiceLocksItems` (the service asks for
every item it moves).

*The stock ledger.* `StockLedgerProofs` proves `LedgerAddsUp`: in every state of the
abstract ledger a total is the sum of its shelves, a shelf is its opening and the rows of
the ledger about it, each row starts where the one before it on that shelf ended, and no shelf is or was
below zero. The invariant (`FiguresAdd`) says so in sums over all rows up to the n-th; the work is in
`Post`, whose lines may name one shelf several times: what the k-th line finds is what the first
k-1 left (`MovedNext`, by `Sums`). The detailed modules have it by refinement.

*The kardex.* In `StockServiceProofs`. `OpeningsStand`: while no correction was posted
after another had replaced what it read (`overtook`) and no form saved an opening that was out of
date (`outdated`), the opening that counts is the one that was last entered. `OpeningInv` has three parts: openings and reversals add up to the
openings that count (`Balanced`), at most one counts (`Lone`), and it is what was entered
(`Stands`); each kind of entry keeps them (`OtherEntry`, `OpeningEntry`, `ReversalEntry`,
`CorrectionStands`). `DraftsKeepItems`: an item that a purchase draft names is not
removed; `DraftInv` says the same already of a draft that was checked and is not stored yet.

`CorrectionsAreExact` is what the comment at `itemController.ts` claims of the moving
average: after a first correction of an opening's cost, with no purchase taken back and no
correction overtaken, stock and average are exactly those of a history that had the corrected
opening from the start, for any number of purchases and sales before and after it, in any
order and at any prices. `KardexIsReplayed` holds without any of these conditions: the stock is
the sum of all entries and never below nothing, and the columns are what replaying the
entries gives. Both follow from `KardexInv`, in three parts. `Replayed` is the second theorem.
`Ordered` says that each opening names an earlier one or none, and that one which does is
followed at once by a reversal, and `Traced` says what the average is worth in each phase: before the first
correction, for *every* other price `p1` the opening might have had, the average of that other
history differs by what `p1 - p` makes on the share of the opening that is still there
(`Uncorrected`, `Apart`); the reversal that `correctOpening` posts costs exactly that share at
the old price and the rest at the new one, so the difference is gone (`Corrects`); and from then
on the two histories go through the same entries to the same average (`Settled`). `Aims` is
what a correction in progress read. The averages are fractions in lowest terms (`FractionIs`,
`FractionSame`: one number, one fraction), and what the two recursive functions of the
history come to is found by least counterexample (`RunGoesOn`, `RunAlike`): appending an
entry makes the next value from the last, and nothing is assumed of the length.
TLC finds `KardexInv` true in every state of the kardex scene.

*Counts.* `StockCountProofs` proves, for any counts, items, documents, figures, notes and
moments, `CountsAppliedFromLastStamp`, `UnflaggedOnlyForCause` and `FieldsAreStored`, and
the refinement `CountsPostToLedger`: every document and every applied count is one
`Post` of the abstract ledger. `CountInv` has four layers, each used by the next.
`ShapeInv` is types and which rows may exist at all. `ReviewInv` is what an apply in
progress may rely on: its count is still a draft, no save of that count has read and not
yet written, and, unless it was acknowledged, no row the review has seen came from a
transaction that had not begun when the line was stamped (`ReviewStands`). `PageInv` ties a
field of the page to its saves under way and to the line they will leave. `LedgerInv` is the
arithmetic: a figure read after some row, and what moved since, is what the shelf holds; once
the count is applied it is the figure that was counted. "Since" is since the last save that
carried the figure, a save of the note included, and not since the counting: from there it is no
theorem (`count_note_restamps`). The refinement also needs that what
a `Post` sums up over a document's lines is what the module's rows add up to. Both rest on
`Sums`: a `MapThenSumSet` over a finite set is an integer, adds over disjoint sets and does
not depend on the order. The induction is on the subsets of a finite set, by a least
counterexample, and so needs no theorem with an operator for a parameter.

*The office*, first part of `WorkshopProofs`. `PersonnelStandingIsTaken`: an
active super admin loses that standing to a request of somebody else alone, which was begun with a
super admin's token, or by an admin who gives another role or who found no super
admin there, for any accounts, tokens of any age and requests in any order, with no case excused; the
strengthening, `ActsWithStanding`, is what a request was judged by when it began. The third way, a
technician who is promoted while the request that switches them off is under way, takes
three accounts: the run has two, the theorem any number. `OtpCodeOpensOnce` and `OtpCeilingsHaveCause`: a code is spent exactly when one
thing came of it, and a ceiling is passed only when requests overlapped or a
statement was lost; `CodesInHand` is what a request knows of the code it read, `OneAtATime`, `CeilingHasRoom` and
`MissedIsCounted` say what is still true as long as no cause is set. `InvoicePaidWasCollected`: an invoice that
reads as paid was paid, whoever took the money (`PaymentsInHand`, `NoneIsUnpaid`).
`InvoicePartsMatchStatus`: the stock has gone down by an invoice's parts exactly while
its status says they were used; `PartsInv` says of each status what all rows of the
invoice move of an item, and what its takings alone do, against the parts it lists. `InvoicesPostToLedger`: every step of an invoice is one `Post`
or leaves the stock alone, so that `InvoiceStockIsLedger` follows from the abstract ledger.

*The bench*, its second part: `DeviceToldOncePerMove` (`ReadIsSo`: the status a desk
read; `MovesCoverMessages`: the messages sent and still owed against the moves made),
`ExportReadyHasArchive` (`BuildComesFirst`, `AskedRows`: what a build has stored and a
removal has in hand) and `PicturesRowsHaveObjects`, for any pictures, requests, failures and lost
answers: each picture is in the hands of one request at most, and a deletion drops only keys whose rows are
gone or that it took along or, where it ended between the two, left `stranded`.

*The screens*, also there: `ListShowsWhatIsAsked` and `FormWorkArrivesOnce`, for any
searches, pages, forms and photos. The last request under way
asks what the page asks now, and is sure to see every change the page was told of (`LastAsksNow`), and with none
under way the rows are that request's (`RestShowsLast`); the form's invariant says what each form has made and where its save is.

*Sessions.* `SessionsProofs`, for any users, any finite number of browsers and tabs, and any
requests. `SessionsTyped` is more than types: that every session which is opened finds a
place for its row is a count of the cookies and calls that may hold one
(`PlaceIsFree`; one value of each cookie and five of each tab, of which the caller's is
still 0). `ResetsEndSessions`: no session outlives a reset that its proof came
before, but for users whose calls held a proof at the reset; `ResetInv` says the same of
the proofs in the hands of calls. `RenewalsFailForCause`: a false alarm, or two successors of
one token, goes back to a rotation answered to nobody or to two tabs of a browser that
renewed at once. Its invariant (`RenewInv`) speaks of the states before the
first such cause. A browser has one renewal under way (`OneRenewal`); a row that may be
presented is one browser's (`OneHome`); a row that was issued is nobody's before its answer
arrives, and not spent (`IssuedAlone`); what a renewal is about to present is not
spent (`AskedStands`); a cookie whose row is spent belongs to a renewal that will
replace it (`SpentIsRenewed`). The last two hold each other up: a renewal that starts
presents the cookie, and no other renewal that could have spent it is under way. `OwnRow` and
`AccountsStand`: where the INSERT finds the account gone, the spent row went with it, so that the
cookie which still names it raises no alarm. Most
steps let each call go on with what it had (`Fades`); the
four that do more have a lemma each (`StartKeeps`, `SpendKeeps`, `IssueKeeps`, `CookieKeeps`).

Six definitions were changed for the proofs, none in what it allows:
`SessionsAssumption` says that browsers and tabs are finite, which its count of places meant;
`WritePayment` (`RepairInvoice`) writes its row column by column; `RemindersSentOnce` counts to
exactly one; `JobAssumption` names the order of the schedule; `CountAssumption` says that
the lines of a document are a list; `Post` (`StockLedger`) says that what
the ledger gained is a list of lines and not an empty one. Scenes that had no specification of their own
(`PersonnelSpec`, `OtpSpec`, `DevicesSpec`, `ExportsSpec`, `PicturesSpec`, `ListSpec`, `KardexSpec`) have one.

Only model-checked: the liveness properties (`CallsEnd`, `PaidGetsItsDays`,
`RequestsSettle`, `DisabledLosesAccess`), since the prover has neither fairness nor
ENABLED. Every other property of the passing runs is stated by a theorem.
`TypeOK` of Billing, StockService, RepairInvoice, Sessions, StockCount and SmsCredit
is stated for the reader and is in no run; `SessionsTyped` proves that of Sessions, `BillingInv`
and `IInv` of SmsCredit contain theirs.
The theorems prove `NoFreeMessage` and `VerifiedIsFinal` as well, which no run checks.

## 5. Abstractions

* A price, a text, a name and a plan are members of small sets. The stock
  service has quantities and no costs; the moving average is in `Kardex`, with
  exact fractions where the columns keep two decimals.
* A day is the nightly run. Zibal's one hour of an open payment is a flag
  (`fresh`) that an hour, or a day, takes away.
* The job takes workspaces and payments in any order, where the code goes by
  id, and reads the open payments of all workspaces at once. One run of the job at a
  time: cron starts it nightly, and nothing in the script keeps a second one,
  started by hand, from overlapping it, which is not modelled.
* A transaction commits or rolls back as one step at its commit; a commit whose
  answer is lost is the same as a crash right after it, where the process keeps
  nothing in memory. A commit whose connection breaks while the process lives,
  so that the code runs its error path after a commit that took place, is not
  modelled.
* Users of a deleted workspace open no pages: their rows went with it.
* `item_stocks` rows are locked under their items' locks and never wait, so they
  are not separate locks. A transaction's own writes become visible at its
  commit.
* A count has one page in `StockCount`, though several phones may fill in one count
  (`stockCountController.ts:458`): two pages that save one line, the later one over the
  other's figure, are not modelled. Its notes are texts that no `trim` makes alike.
* The key of an export's zip is the export's own in `Exports`; the code makes it of the
  workspace and the time (`build.ts:107`), so that two builds of one workspace within one
  millisecond would share it, which is not modelled.
* Sales have no lines without a stock movement (services, deposits). In
  `StockCount` the service is one step, which its locks justify (`LedgerSpec` of
  `transactions`), and every other document is a list of lines.
* `CorrectedHistory` is stated for the first correction of a cost without
  purchases taken back, which is where the code's comment claims it; elsewhere
  the average is another one.
* A request body that passed validation is any member of the sets in the MC
  module; what validation refuses never reaches a model.
* A code's age, an export's half hour and a token's life are steps that time may
  take at any moment; only their order is kept.
* In the client, state set by React in one handler changes in one step, and an
  effect runs before anything else happens.
* In `RepairInvoice` all warehouses stay open and a sale never takes the parts
  away; both are in `StockService`. A cancelled invoice keeps its payments, as in the
  code.
* `delivered` (of a message) is what sms.ir did, which the code cannot see.

## 6. The plan

Done, in this order: SMS credit with its proofs; billing and the nightly job;
the stock ledger, its service with the proofs of its locks, the repair
invoices; sessions; counts; the kardex; codes and personnel; devices, photos,
exports; lists and the device form. Left:

1. *Prices* of documents: `updatePayment` reads a total and writes a status in two
   statements, and an edit may come between.
2. *Checkout*: the referral's discount, decided by the payments verified so far,
   and the ceiling of a code at settlement.

### Not modelled

* Reports, lists and detail handlers only read, in one query each.
* Customers, categories, services and most settings are one statement per
  operation, and foreign keys keep what a deletion must not take.
* Prices and message prices are pure arithmetic with unit tests of their own.
* Row-level security and the context of a request are taken as given: the models
  work inside one workspace or index their state by it.
* Routes and schemas parse requests; the scripts of `ops/` and the import of
  legacy data are run by hand, one at a time.
* Most of the frontend, which is more than half of the implementation's lines,
  is layout, wording, formatting and the parameters of one call. What it keeps
  between two calls is in `ListPage`, `DeviceForm`, `Sessions`, `StockCount` and
  `Kardex`. The other lists and forms follow the same two patterns; the map names
  the lines of the ones that were read, so it covers a small share of the code.
