# A specification of Vayu

Vayu is a web app for design studios and galleries: a React app, installed or in
a browser tab, against one Cloudflare Worker that keeps its data in D1, files and
sessions in KV and R2, and open sockets in a Durable Object. All of it is under
`src/frontend/`; the paths below leave that prefix out.

The modules here model the parts in which the order of steps decides whether the
app is right, and in which tests hardly reach the orders that matter:

- **staying up to date** - how a tab's screen and its saved copy follow the
  server's change log through failures, reloads, restarts, changes of access, a
  second tab and the person's own optimistic edits; and how a change signal reaches
  the tabs of a browser through one socket that breaks, lapses and changes hands;
- **being paid** - how one Razorpay payment, confirmed by the browser, the webhook
  and a recheck at once, changes an organization's plan exactly once; and how the
  payment links of a workspace are made once, followed and counted;
- **keeping books** - how documents get their numbers, are issued, credited and
  cancelled, how sales are recorded, also without a connection, and what both do to
  stock;
- **talking** - how messages, receipts, reactions and the members of private rooms
  survive retries and each other;
- **having a workspace** - how an application becomes an organization, step by step
  and again after a failure, and how its team always has an owner and fits its plan.

Contents: 1 the system, 2 the modules, 3 the runs, 4 the gaps, 5 fairness,
6 the proofs, 7 what is left out, 8 the plan.

## 1. The system

| Component | State it keeps | Operations | Interacts by |
|---|---|---|---|
| Change log, delta sync server (`deltaSync.ts`, mutations in `worker.ts`) | business tables, `change_log` (seq, item, op, changed_at), `lastPruneAt` per isolate | every mutation's batch, `GET /api/sync` boundary and pages, pruning | HTTP; shares D1 with every handler |
| Delta sync client (`services/deltaSyncClient.ts`, `syncMerge.ts`, `db.ts`, `refreshScheduler.ts`, `hooks/useEntityData.ts`) | lists on screen, lists and position saved on the device, the engine's cursor and flags | pass, full copy, classic reload, sign-in and out, restart | fetch; `localStorage` shared with other tabs; socket signals |
| Optimistic edits (`hooks/useHandlers.ts`) | the edit in flight and what undoing it puts back | create, update, delete, answer, undo | the same lists as the sync; fetch |
| Plan billing (`platform/billing.ts`, `plans.ts`) | connected Razorpay account, `billing_payments`, `subscriptions` | checkout, confirm, webhook, recheck, verify keys, move, extend | Razorpay's API and webhooks; one D1 batch |
| Payment links (`paymentLinks.ts`, `paymentLinkPolicy.ts`) | links, request keys, refunds, the amount an invoice shows as paid | create, webhook, recheck, scheduled check, extend, cancel and remove, refund | Razorpay's API and webhooks; writes invoices |
| Realtime hub (`realtime.ts`, `services/realtimeService.ts`) | sockets in memory and attached, leases; per tab: leader, socket, connected, what to fetch | connect, renew, broadcast, acknowledge, revoke, hibernate; elect, dial, reconnect, relay | WebSocket; the Worker's calls; a lock and a channel among tabs; starts passes of the sync |
| Messages, receipts, private rooms (`messageReceipts.ts`, `privateRooms.ts`, handlers in `worker.ts`) | conversations, messages with status, readers and reactions | create, update and delete a room; send, send again, acknowledge, react | the change log; hub signals; push |
| Invoicing (`invoicing.ts`, `invoices.ts`) | documents, number series | save, issue, cancel, remove | pieces of the inventory; payment links write its documents |
| Sales and stock (`sales.ts`, `services/salesService.ts`) | the sales ledger, stock, the device's pending sales | record, keep, upload, refuse, delete, discard; edit the piece | an outbox on the device; a D1 batch with the piece; shares pieces with invoicing |
| Organizations (`platform/applications.ts`, `orgs.ts`, `invitations.ts`, `orgTeam.ts`, `plans.ts`) | applications, organizations, memberships, invitations, subscriptions | apply, decide, approve and approve again; invite, join; add, change, remove members; change the plan | D1 batches and triggers; the plan's limit of members |
| Jobs and webhook health (`platform/jobs.ts`) | jobs, locks | schedule, retry | every timed part |
| Sessions, roles, limits | KV sessions, counters | sign in, revoke | every request |
| Secrets (`platform/secrets.ts`, `secretRotation.ts`) | encrypted values, key versions | store, rotate | billing, links |
| Notifications, inbox, push; roster; routing, files, pages | little of their own | | |

What is hard, and where:

- **Concurrency without locks.** A handler is a chain of `await`s; D1 serializes
  statements and batches, nothing more. Everything read before an `await` may be
  out of date after it. The client is one thread, but its promises interleave the
  same way, and tabs share `localStorage`.
- **Failure.** Requests are lost or time out; a phone has no room to save a list;
  the page is closed between two steps; a Worker dies between recording a payment
  and applying it; Razorpay delivers an event late, twice or not at all.
- **Ordering.** Pages, full copies, answers of saves and undos arrive in any
  order; time stamps are taken before sequence numbers are given.

What makes each part correct:

- *Sync*: a tab whose cursor is at c has seen every change up to c; the saved
  position is never ahead of the saved lists; a tab left alone ends up showing
  what the server has.
- *Edits*: once an edit is over, the screen shows the server's row; a refused
  edit leaves nothing behind and hides nobody else's change.
- *Billing*: the plan changes once per payment and only for money Razorpay has;
  two payments never buy the same time; paid time is never taken back; opening a
  checkout twice is one order; a payment finally changes the plan though nobody
  looks.
- *Links*: a request makes one link; a link only moves forward and is never removed
  with money on it; a payment is announced once; the invoice shows what was paid
  less what was refunded, and links never ask for more than it comes to.
- *Invoicing and sales*: a number goes to one document and none is left out; what is
  issued stays; credit notes stay within their invoice; units add up over invoices,
  sales and edits of the piece; the device is right about the sales it keeps.
- *Messages*: receipts and reactions survive a message sent again; statuses only go
  forward; members are notified once; only managers change a private room;
  acknowledgements die down.
- *Realtime*: while a browser counts as connected, no signal it was sent is missed;
  it has one socket; presence is true; it is connected again at last.
- *Organizations*: a workspace exists only of an approved application and is called
  set up only when it is, whatever failed on the way; it always has an active owner;
  nobody joins beyond the plan, two at once for the last seat included.
- *Not modelled*: a revoked session is refused; a stored secret can always be read.

`PROJECT.json` lists every component with its status and every hazard at its line.

## 2. The modules

```
ChangeLog  <-  DeltaSync  <-  SecondTab, OptimisticEdits
               DeltaSync  <-  DeltaSyncProofs
               SecondTab, OptimisticEdits, DeltaSyncProofs  <-  TabProofs
PaidPlans  <-  PlanBilling  <-  PlanBillingProofs
Applications  <-  Team  <-  TeamProofs
Invoicing  <-  Sales  <-  SalesProofs
PaymentLinks  <-  PaymentLinksProofs
Conversations  <-  ConversationsProofs
Realtime  <-  RealtimeProofs
MCDeltaSync, MCSecondTab, MCOptimisticEdits, MCPlanBilling, MCPaymentLinks,
MCSales, MCConversations, MCRealtime, MCTeam: instances for TLC
```

**`ChangeLog`** is the server of the sync. `table` gives each row the sequence
number of the change that wrote it, which is all that the sync's properties tell
apart; `log` is every change ever made, `kept` the ones retention has left.
`Commit` is a mutation's D1 batch (business write and `changeLogStmt`), `Put`,
`PutMissing` and `Delete` its forms, `Prune` is `pruneChangeLog`. `CursorExpired`,
`PageRows` and `Attached` are the three queries of `handleSync`, apart, because
other statements run between them.

**`DeltaSync`** is one tab against it. Its variables come in groups: what the
device keeps (`saved`, `mark`), what the tab shows (`who`, `screen`, `cursor`,
`intact` for `!savedCopyFailed`, `shown` for `lastPayloads`), the pass in flight
(`phase` is the `await` it is at), and the load in flight (`todo`, `fetched`,
`got`; `orphan` once the user object it closed over has been replaced).

| Actions | Code |
|---|---|
| `Run`, `RunAgain` | `createDeltaSync().run`, single flight |
| `Boundary`, `FullLoad`, `Rejected`, `NextPage` | `takeFullCopy`, `handlePage`, the run's loop |
| `ReadBounds`, `ReadPage`, `ReadRecords` | `handleSync`, a query at a time |
| `Apply`, `SavePage`, `SaveCursor`, `StartCursor` | `applyChanges`, `applyPage`, `savedCursor` |
| `StartLoad`, `LoadFetch`, `LoadApply`, `LoadFail`, `LoadDone` | `loadAll`: each section settles on its own |
| `Reload` | `syncAll`'s classic reload after a failed pass |
| `Restart`, `ChangeAccess`, `SignInAgain`, `RenewUser`, `MarkAges` | start-up, `applyAuthUser`, sign-out and in, `FULL_COPY_MAX_AGE_MS` |

**`SecondTab`** adds another tab of the same person: its own cursor, the same
`localStorage`. Its pass is one step, and comes while this tab is at rest (`AtRest`)
unless the gap `tabs` is open: between two passes, with no page of the last one
outstanding. A pass that failed after its last page was asked for leaves a cursor
behind what this tab has read, so it is not at rest until a pass succeeds. A mark that
is not `fresh` may be ahead of lists that one tab could not store: no start-up uses
it, and `MarkNeverAheadAtRest` says so.

**`OptimisticEdits`** adds the person's own edits: `Edit` shows and sends one,
`Land` is the server's batch, `Refuse` a refusal or a lost answer, `Confirm` and
`Undo` are what `sendInBackground` and the handlers do with the answer, `Close`
ends the page with edits on their way. What an undo will put back (`AsItWas`) is the
row on screen for `Artworks`, and the saved one for every other list. Contacts and
billing documents show the server's answer (`Answered`); documents (`Invoices`) wait
for it first.

**`PaidPlans`** is what billing promises, in three states per checkout: unpaid,
paid, applied. **`PlanBilling`** is the code: `row` is `billing_payments`, `sub`
the organization's `subscriptions` row, `bank` what Razorpay knows of the order,
`owed` an event not yet answered, `call` the confirmations in flight.

| Actions | Code |
|---|---|
| `StartCheckout`, `CheckoutOpens`, `CheckoutFails` | `startCheckout` |
| `PaymentFails`, `PaymentAuthorized`, `PaymentCaptured` | the customer at Razorpay (external) |
| `Begin` | `confirmCheckout`, `receiveBillingWebhook`, `recheckOrgPayment`, `recheckAnyPayment`; `keysForPayment` |
| `Ask`, `Unreachable`, `Capture`, `Record` | `reconcileBillingPayment` |
| `Apply`, `PeriodStart`, `Take` | `applyPaidPayment`, its last batch in `Take` |
| `Connect`, `Disconnect`, `VerifyReads`, `VerifySaves` | the billing account |
| `Move`, `SetStatus`, `ExtendReads`, `ExtendWrites` | `plans.ts`, the control centre |
| `Die` | the Worker ends or throws at any step |

**`PaymentLinks`** is the links of a workspace on one invoice, each handler a chain
of awaits whose place is `job[h].at`. `rz` and `rzRefund` are what Razorpay has,
`link`, `claim`, `refund`, `indexed` the tables, `shown` the invoice's
`linkPaidPaise`.

| Actions | Code |
|---|---|
| `Approve`, `Claim`, `Post`, `PostFails`, `Lookup` | `handlePaymentLinkCreate`: `approveAmount`, `claimLinkRequest`, `createAtRazorpay` |
| `Deliver` | `applyPaymentLinkEvent` |
| `Check`, `Recheck`, `Ask` | `reconcileWorkspace`, `handlePaymentLinkDetails`, `reconcileOpenLink` |
| `Extend`, `Patch` | `handlePaymentLinkUpdate` |
| `Remove`, `Cancel`, `CannotCancel`, `Delete` | `handlePaymentLinkDelete`, `cancelOpenLink` |
| `Save`, `Sync`, `Write`, `SyncFails`, `Tell` | `saveLink`, `syncInvoicePaid`, `finishLinkRequest`, `announcePaymentReceived` |
| `FindRefund`, `RecordRefund` | `reconcileRefunds` and refund events, `recordRefund` |
| `MakeAtDashboard`, `Pay`, `PayPart`, `Expire`, `RefundChanges` | Razorpay and the customer (external) |
| `Die` | the Worker ends or throws at any await |

**`Invoicing`** is the documents that concern one piece: proformas, challans,
invoices and credit notes with one line each. `row` is the table, `last` the series -
one for each kind and each of `Series`, which stands for `owner|FY` in `seriesKeyFor` -
and `given` remembers every number handed out. A number has two forms, as in the code:
`taken` is the columns `series_key` and `seq`, and `number` is what the document says,
which `docNumberFor` makes of the `seq` and of the document's *present* store and date
(`series`). A save may move a draft from one series to another (`in`). `Save`, `Issue`,
`Cancel`, `Remove` read and check; `Allocate` is the batch that takes a number and the
read after it, from which the number is made; `Write` the batch that stores a document,
its source and the piece; `Recount` and `Recounted` are `syncInvoicePaid` rewriting a
document from the other side.

**`Sales`** is the ledger of sales beside those documents, over the same piece. `sale`
is the table, `box` the device's pending sales, `flush` what the upload under way has
left of the list it started with, `till` the requests on the server; `by` says who
waits for one: the person at the form, the upload, or nobody any more.

| Actions | Code |
|---|---|
| `Record`, `RecordOffline`, `Keep` | `record`: post, or keep on the device |
| `StartFlush`, `Upload`, `StopFlush` | `flushPendingSales` |
| `Answer`, `Lose` | its answer, or none: a lost one, a dead worker, the app closed |
| `Discard`, `Retry` | `discardPending`, `retryPending` |
| `Look`, `Insert` | `newSaleId`; `insertSale`, its batch with the piece |
| `StartRemove`, `RemoveSale` | `DELETE`, its read and its batch |
| `OpenPiece`, `SavePiece` | the form's `stockSeen`, `handleArtworksUpdate` |

**`Conversations`** is one conversation and its messages. `Create`, `Update`,
`Delete` read the room, `WriteRoom`, `UpdateRoom`, `DeleteRoom` write it; `Post`,
`Look`, `Store`, `Push`, `Answer`, `Lose` follow a message from the device and back;
`React` and `Reacted`, `Ack` and `Hear` are reactions and receipts; `Notify` is the
hub telling those who may use the room.

**`Realtime`** is one person's browser and the hub. `sock` holds both ends of each
socket and what is on its way, `held` and `hydrated` the hub's memory, `tab` each
tab's leadership, dials, connection and pending fetch, `waiting` those who wait
for the lock, `relay` the channel. What a fetch brings is the business of `DeltaSync`; here it is a number.

| Actions | Code |
|---|---|
| `HubConnect`, `HubDrop`, `Revoke`, `Late`, `Notify` | `connect`, `dropSocket`, `revokeUser`, `webSocketMessage`, `broadcastEvents` with `deliver` |
| `Evict`, `Lapse` | hibernation, a browser asleep past its lease |
| `OpenTab`, `CloseTab`, `Elect` | `start`, `stop`, the lock's callback |
| `Dial`, `Ticket`, `NoTicket`, `ComesOnline` | `RealtimeService.connect`, `onOnline` |
| `Receive`, `Break`, `Hear` | `onSocketMessage`, `onSocketClose`, `onTabMessage` |
| `Hide`, `Show`, `SafetySync`, `Fetch`, `FetchFails` | `useEntityData`'s `catchUp`, the scheduler, `run` |

**`Applications`** is one application and the organization it becomes, which has its
id. An approval is a chain of statements whose place is `job[h].do`: `claim`, `create`,
`look`, `assign`, `finish`, or `fail` after any of them. **`Team`** adds that
organization's invitations and members over the same handlers. A membership has an id,
and a job that has read one keeps in `row` whether it is still the one stored.

| Actions | Code |
|---|---|
| `Submit`, `RequestInformation`, `StartDecide`, `Decide` | `submitMyApplication`, `requestInformation`, `rejectApplication`, `withdrawMyApplication` |
| `StartApprove`, `Claim`, `Create`, `Look`, `Assign`, `Finish` | `approveApplication`, `claimApproval`, `setSubscription` |
| `Fails`, `RecordFailure`, `Die` | its `catch`, or a worker that ends |
| `StartInvite`, `Invite`, `Revoke`, `Expire` | `createInvitation`, `revokeInvitation`, `invitationState` |
| `StartJoin`, `Join` | `acceptInvitation`: `insertMemberWithinSeatLimit` or `rejoinStatement` |
| `StartAdd`, `Add`, `StartUpdate`, `Update` | `addMember`, `updateMember`, `requireSeat` |
| `StartChangeRole`, `ChangeRole`, `StartRemove`, `Remove` | `usersUpdate` with `syncPlatformRole`, `usersDelete` |
| `SetStatus`, `ChangePlan` | `setOrganizationStatus`; `setSubscription`, `setOverride` |
| `LastOwner`, `Updated` | the triggers of `0002_organizations.sql` |

Operators marked "Mutant" in the modules are not part of a specification: each is
a plausible mistake in the definition after it, kept to show that the property
`PROJECT.json` names is one such a mistake would break.

## 3. The runs

| Run | Shows | Bounds |
|---|---|---|
| `sync_core` | `CursorNeverSkips`, `MarkNeverAhead`, `OnlyFullCopyRenewsMark`, types | 2 items (one an invoice), 2 identities, 2 changes, page of 1, 2 pages a run, 1 fault, 1 restart; 3.5M states |
| `second_tab` | `MarkNeverAheadAtRest` and `Converges` (fair), with two tabs taking turns | 1 item, 1 identity, 3 changes, page of 2, a fault or a restart (`MCOneDisturbance`); 0.7M |
| `edits_settle` | `EditsSettle` | an artwork and a contact, 1 edit, 2 changes, a fault or a restart (`MCOneDisturbance`); 2.6M |
| `billing_renewals` | `PeriodsDoNotOverlap`, `PaidTimeIsKept`, `OneOpenCheckout` | 2 orders, 2 requests at once, browser and webhook, one decision after connecting; 2.4M |
| `billing_confirm` | `KeepsPromise` (it implements `PaidPlans`), `PaidIsApplied`, fair | 1 order, webhook and recheck, 2 plans, 2 keys, 2 decisions, 2 faults; 0.4M |
| `billing_renewal_race` | a violation: section 4 | the least that shows it |
| `links_alone` | `OneLinkPerRequest`, `OnlyForward`, `AnnouncedOnce`, `AsksNoMoreThanOwed`, `CountedAtRest`, `RefundsAreFinal` | 2 links, 2 requests, 1 refund, an invoice of 2 units, one handler at a time, 1 fault; 1.7M |
| `links_overlap` | `KeepsPaidLinks`, `PaidIsShown` (fair) | 1 link, 1 request, 1 refund, two handlers at once; 0.1M |
| `books` | `OneDocumentPerNumber`, `NoneLeftOut`, `CreditWithinInvoice`, `OnlyOnIssued`, `UnitsAddUp`, `OutboxIsTrue`, `IssuedForever` | a proforma, a challan, an invoice of each, 2 credit notes, at most 3 of them at once; 2 years, one invoice in the second and the other moved there or back while it is a draft; 2 sales, 2 requests on the ledger, 1 edit of the piece, of which one at a time beside an invoice; 2 units of stock, 1 to 2 numbers a series, 1 fault; 0.3M |
| `messages` | `ReceiptsKept`, `OnlyResendGoesBack`, `PushedOnce`, `PrivateByManagers`, `Quiet` (fair) | an admin and a member, 1 message, 2 requests on the room, 3 sends or reactions, two at once; 0.4M |
| `realtime` | `FetchesWhatItHears`, `OneSocket`, `PresenceIsTrue`, `SeenAtLast`, `Reconnects` (fair) | 2 tabs, 2 sockets, 1 change, 1 fault, 1 tab closed or hidden; 0.7M |
| `organizations` | `SetUpAsApproved`, `AlwaysAnOwner`, `NewMembersFitPlan` | the applicant and two others, plans of 1 and 2 members, 1 invitation, 2 handlers, 4 requests, 1 fault; 1.5M |

Why the bounds are enough to be interesting. With a page of one row and two
changes a run needs two pages, so that the cursor rests in the middle of the log
and everything can happen between the pages; two changes to one item exercise the
"last row decides" rule, two items the independence of sections. Pruning with two
rows can delete one that a cursor still needs. With two tabs it is one item on a full
page that is deleted there and back on the next: three changes and a page of two, the
least in which one tab can replay what the other has got past. One fault at any `await` and one
restart at any step reach every error path, and the proofs of section 6 cover the
other sizes. In billing a second order is what makes renewals race; one
checkout already lets two confirmations, a lost answer and a dead Worker meet, and
the theorems cover the three together.

A link on an invoice of two units can be part-paid, and two links can together ask
for too much; one fault puts a lost answer or a dead worker between any two awaits
of making, paying, cancelling and refunding. Two credit notes of the invoice's whole
worth, and two invoices of one piece, are the least that can exceed it: three documents
at once (`MaxInUse`) are an invoice and two notes, an invoice, its challan and a note, or
two invoices and what one of them was made from; each may be removed and another take its
place. Two years and an invoice that may be in either are the least
in which a draft changes its series before it takes a number, and another document is in
the series it comes to. Two sales of two units, and two requests, are an upload beside a
form, an upload beside a deletion, and one sale deleted twice. Beside invoices one sale
or one edit (`BesideDocs`, `MaxBeside`) is enough for each pair of steps on the piece to
meet; `UnitsAreRight` covers the rest. Two tabs are
one leader and one follower, and two sockets an old one that the hub has not seen
end and its successor.

Two people besides the applicant are the least that race for the last of two seats,
and a second owner, disabled or not, the least for which the triggers matter; two
handlers are an approval and its repetition, or it and a decision.

Larger instances that were also checked, by changing `MCEdits`: a billing document alone,
and a contact alone, each with 2 edits, a fault and a restart.

Clocks, changes, edits, decisions, faults and restarts are capped by constants
with names (`MaxTime`, `MaxChanges`, ...), each a guard of the actions it bounds.
The billing runs have `CHECK_DEADLOCK FALSE`: customers, staff and the clock are
bounded, and when all is paid and applied nothing need happen again; the same is so of links, documents, messages and sockets. The sync runs check
for deadlock.

Symmetry is used for orders, requests, the two credit notes, the two sales, and the
two others of a team, in runs without liveness properties.

## 4. The gaps

Modelling found behaviour that the code does not exclude and after which a comment
of the code is not true. Each case has a name in the constant `Gaps` (`SaleGaps` in
`Sales`, `DocGaps` in `Invoicing`). With a name in the constant the model does what the
code does. Without it, one of two things differs:

- for most names the *interleaving* is missing: a guard keeps the two steps apart, and
  everything the model does is something the code does;
- for `undo`, `lateAnswer`, `renewal`, `extension`, `accountCheck`, `answered` and
  `decide` a *step of the code* is replaced by what a repair of it would do: an undo or
  an answer that looks whether a newer row has come, a period or an extension counted
  from the subscription as it is when written, keys left as they are, a webhook that is
  not answered 200 when Razorpay could not be asked, a decision or an approval that goes
  no further when the other has come first.

The passing runs have the constant empty. So they say that, *apart from these,* the
property holds, and of the second kind that it holds once the step is repaired. They are
conditional results: no run or theorem that closes a name says anything of the code in the
case the name stands for. One gap has a run of its own and a finding in
`PROJECT.json` that quotes the comment. Every other one is seen by adding its name to the
constant in the .cfg named here and checking the property beside it.

| Name | What happens | Where | Seen with |
|---|---|---|---|
| `renew` | the user object is replaced during a full copy: its lists are dropped and its boundary is saved | `useEntityData.ts:198` | `MCDeltaSync`, `CursorNeverSkips` |
| `signin` | signing out and in again as the same person keeps the cursor over emptied lists | `useEntityData.ts:308` | the same |
| `undo` | an undo puts back a row older than the one the sync has applied | `useHandlers.ts:54` | `MCEdits`, `EditsSettle` |
| `renewal` | two payments applied at once buy the same period | `billing.ts:448` | run `billing_renewal_race` |
| `answered` | a webhook is answered 200 although Razorpay could not be asked | `billing.ts:681` | `MCBillingConfirm`, `PaidIsApplied` |
| `prune` | pruning between the bounds and the page of one request: the page starts after a hole | `deltaSync.ts:303` | `MCDeltaSync`, `CursorNeverSkips` |
| `stamp` | `changed_at` is taken before the commit, so a later row can be pruned before an earlier one, a hole that the expiry test cannot see | `deltaSync.ts:73` | the same, `MaxChanges = 3` |
| `reload` | the classic reload runs beside a new pass and shows lists older than its cursor | `useEntityData.ts:352` | the same |
| `olderCopy` | a failed section of that reload shows the saved copy, which may be behind the cursor | `useEntityData.ts:206` | the same, `MaxFaults = 3` |
| `regain` | access taken away and given back resumes from the mark over emptied lists | `deltaSyncClient.ts:172` | the same, `MaxRestarts = 2` |
| `unchanged` | after a sign-in, a list equal to the one last shown is not shown | `useEntityData.ts:134` | the same |
| `invoices` | invoices that the device cannot store leave the mark valid | `useEntityData.ts:164` | `MCDeltaSync`, `MarkNeverAhead` |
| `tabs` | two tabs' passes overlap, or one comes between a pass that failed and its next: a mark moved on after the lists were read, an older list under a newer mark | `deltaSyncClient.ts:170`, `useEntityData.ts:200` | `MCSecondTab`, `CursorNeverSkips` or `MarkNeverAheadAtRest` |
| `replay` | a tab puts an older page into the shared lists and is closed, or has no room, before its cursor is saved | `useEntityData.ts:277` | `MCSecondTab`, `MarkNeverAheadAtRest` |
| `lateAnswer` | a save's answer overwrites a newer row | `useHandlers.ts:295` | `MCEdits`, `EditsSettle` |
| `savedBefore` | an item other than an artwork is edited while the device has an older row of it than the screen, or none, after a failed write: a refusal puts that back, or nothing (`useHandlers.ts:49` says screen and saved copy are put back as they were) | `useHandlers.ts:81`, `:293` | the same |
| `undoFails` | an undo the device has no room for leaves the refused edit on screen | `useHandlers.ts:54` | the same |
| `closed` | the page is closed during an edit that is then refused | `useHandlers.ts:71` | the same |
| `extension` | extending writes a date counted from one read before a payment | `plans.ts:505` | `MCBillingRenewals`, `PaidTimeIsKept` |
| `doubleClick` | two requests at once make two orders | `billing.ts:361` | `MCBillingRenewals`, `OneOpenCheckout` |
| `accountCheck` | verifying brings back keys replaced meanwhile | `billing.ts:159` | `MCBillingConfirm`, `CheckLeavesKeys` |
| `redial` | the network returns while a ticket is fetched: a second dial, and a second socket (`realtimeService.ts:2` says one) | `realtimeService.ts:142` | `MCRealtime`, `OneSocket` |
| `overlap` | a message is sent again while its first request still runs: both find it new and notify | `worker.ts:1765` | `MCConversations`, `PushedOnce` |
| `decide` | an application is rejected or withdrawn while it is being approved: the decision overwrites the approval, or the approval goes on over the decision | `applications.ts:325`, `:244`, `:385` | `MCTeam`, `SetUpAsApproved` |
| `seats` | a member comes back, or a plan changes, between the count of the seats and the write (`invitations.ts:15` says counted in the same batch; coming back is not) | `invitations.ts:212`, `orgs.ts:216` | `MCTeam`, `NewMembersFitPlan` |
| `reread` | an invitation is used or revoked after it was read: the join goes through (`invitations.ts:10` says single use) | `invitations.ts:176` | `MCTeam`, `OpenInvitationsOnly` |
| `resent` | a sale is given up, kept and sent again while the server still works on the first request: the second is refused by a piece the first one sold, and a recorded sale is shown as refused (`sales.ts:275` says an upload finds the first one) | `salesService.ts:52`, `sales.ts:282` | `MCSales`, `OutboxIsTrue` |
| `restock` | one sale deleted twice at once puts its unit back twice | `sales.ts:397` | `MCSales`, `UnitsAddUp` |
| `redated` | a draft whose worker died after it took a number is given another date or store, and issued: it says that number in a series which gives it to another document (`invoices.ts:193` says a retry gets the same number) | `invoices.ts:331`, `:307` | `MCSales`, `OneDocumentPerNumber` |
| `discard` | a pending sale is discarded while the upload under way still has it on its list: it is recorded all the same. No property is broken, but the person has thrown it away | `salesService.ts:48` | `MCSales`, a sale recorded that is not `promised` |

In the other modules the overlap of two handlers is itself the gap. Some of their
properties are stated for handlers that run one at a time, and the run gives
`Handlers` (or `RoomHandlers`) one element; giving it two shows what the code does
not exclude:

| With two handlers | Where | Seen with |
|---|---|---|
| an answer read before a payment is saved after it: the link goes back to open, and is announced again | `paymentLinks.ts:144` | `MCPaymentLinks`, `OnlyForward`, `AnnouncedOnce` |
| two requests are approved against the same amount | `paymentLinks.ts:435` | the same, `AsksNoMoreThanOwed` |
| an older sum is written over a newer one | `paymentLinks.ts:342` | the same, `CountedAtRest` |
| a document is written back whole, as it was before it was issued; or removed as the draft it was | `paymentLinks.ts:346`, `invoices.ts:379` | `MCSales`, `IssuedForever` |
| a draft is moved to another year or store while it is being issued: its number belongs to one series and is said in the other | `invoices.ts:316`, `:331` | the same, `OneDocumentPerNumber` |
| a draft issued twice at once takes its unit out twice | `invoices.ts:335` | the same, `UnitsAddUp` |
| two credit notes are issued against the same room, or one while its invoice is cancelled | `invoices.ts:214`, `:348` | the same, `CreditWithinInvoice`, `OnlyOnIssued` |
| a member pins a room and writes a removed member back | `worker.ts:1616` | `MCConversations`, `OthersLeaveMembers` with 3 requests on the room and no sends |
| a manager removed meanwhile completes a change of the room | `worker.ts:1607` | the same, `PrivateByManagers` |

Two statements of the source do not hold even of handlers one at a time, and are
kept in the modules beside those that do: `NeverUndoesASale` (`invoices.ts:122`: an
older document never undoes a later sale; cancelling an invoice puts its unit back
whatever happened to it since), and `ForwardOnly` (`realtime.ts:319`: statuses only
go forward; a message sent again is set back to sent, which is why
`OnlyResendGoesBack` makes that exception). A hub that is evicted while a socket it
has closed is still closing finds it again and counts it as present: `Evict` leaves
that moment out, and without its guard `PresenceIsTrue` is violated.

## 5. Fairness

- `DeltaSync!Fairness`: weak fairness of each step of the engine and of a load. A
  visible, online tab polls (`refreshScheduler.ts`), requests are answered or time
  out, and promise callbacks run. Nothing is assumed of writers, pruning, faults,
  restarts, or of how soon; those are bounded, so that "once they stop" is reached.
  Pruning being bounded matters: a reader that is slower than retention for ever
  would for ever be told to start over.
- `PlanBilling!FairSpec`: Razorpay sends an event until it is answered, and a Worker
  that runs proceeds. Customers, staff, rechecks and the clock need not do
  anything. `PaidIsApplied` excuses a checkout whose keys are no longer connected:
  `keysForPayment` then cannot ask.
- `PaymentLinks!Fairness`: a handler that is under way continues (weak fairness for
  each), and the job of every ten minutes comes round to every link that can still
  be paid (strong fairness, since handlers are busy in between). Webhooks need never
  arrive.
- `Conversations!FairSpec`: the hub sends what it was given, devices fetch what they
  hear of. Nobody has to acknowledge anything; `Quiet` says they cannot keep it up.
- `Realtime!FairSpec`: timers fire, the lock is granted, passes end, the network
  comes back, and what is sent arrives unless its socket breaks. Signals to the hub
  and its memory are not assumed to survive.

## 6. The proofs

All are checked by TLAPS for every value of the constants. Where a theorem needs a gap
of section 4 closed, or handlers that come one at a time, its statement says so in front
(`"renewal" \notin Gaps => ...`, `OneAtATime => ...`): without it TLC shows the property
violated. A model with more handlers is not excluded by assumption anywhere else.

**Types** (`TypeCorrect`, `BillingTypes`, `TeamTypes`, `InvoicingTypes`, `SalesTypes`,
`ConversationTypes`, `LinkTypes`, `RealtimeTypes`) hold with every gap open and any number of handlers.
`TypeCorrect` needs one fact about control, `Positioned`: at `ask` and after it the cursor
is a number. `BillingTypes` needs `Grounded`: a call in flight stands on a stored row, one
about to take a payment on a row recorded as paid; `TeamTypes` needs `BySent`: a join
stands on an invitation that was sent, so that the row it takes its role from exists;
`LinkTypes` needs `Claimed`: a handler that makes a link has taken its request's key;
`RealtimeTypes` needs `Owned`: a socket with a client end has its tab.

### Sync

**`NewestKept`** - retention never deletes the newest row; it follows from the
choice of `Max(kept)` in `Prune`, and is what makes `MaxSeq = Len(log)`.

**`NothingSkipped`** and **`MarkBehindCopy`** (`DeltaSyncProofs`) are the main
results of the sync, under `NoGaps`. Neither invariant is inductive: whether a
saved cursor is right depends on the page it came from, and that on what retention
left when the page was read. The invariant has four parts:

1. `LogInv` - what is kept is a suffix of the log (so that "no hole at the cursor"
   means "no hole after it"), and an item whose last row is a delete is gone (so
   that a tombstone is the table's state);
2. `PhaseInv` - which load may run in which phase: a complete load only at
   `loading`, a classic reload only while the engine has no page in flight;
3. `PositionInv` - the saved mark is never ahead of the cursor in memory, nor either
   ahead of the log;
4. `DataInv` - what each holder (screen, saved copy, list in flight, page in
   flight) owes to each position it may come to stand behind, all in terms of one
   notion, `Current(l, t, v, i, c)`: v is what table t has, if item i has no change after c.

The two steps that matter: a commit gives its item a change after every position
(`WrittenCurrent`), so nothing that was current becomes wrong; and a page that
starts at a cursor with no hole is a prefix of what follows (`PageIsPrefix`), so an
item that the page does not mention has not changed up to its end.

**`CopyAge`** is the action property `OnlyFullCopyRenewsMark`, with every gap open: each
step that writes the mark writes none, or one that is fresh only as far as the one
before was, but for the step that ends a full copy.

**`SharedMark`** (`TabProofs`), with a second tab, needs another invariant, since
`MarkInv` is false there: while this tab replays a page, the shared lists may lack rows
that the other tab's mark covers. `TabsInd` says of a fresh mark what it is worth
between two replays (`TabsMarkInv`), and of the other tab's cursor what the lists owe
to it (`OtherInv`), except while this tab is on its way (`Behind`) from the mark
through pages the other has read. It ends because a page that is not full reaches as
far as anyone has read (`LastPage`, `TabsPositionInv`), and a pass of the other tab in
one step brings the lists to the end of the log (`WholePage`, `OtherTabPasses`). The
proof is what showed how long the other tab has to stay out: if its pass may come after
one of this tab's that read its last page and lost it, the property is false, which takes
a page of two and three changes to see. **`ScreenBesideOther`** is the same invariant's
word on the screen: `CursorNeverSkips` holds of a tab that has another beside it.

**`EditsLeaveNoTrace`** (`TabProofs`), with the person's edits, is the invariant of the
sync with one word changed: a list that is up to date holds the server's row, or an edit
under way whose undo would put that row back (`Showing`). `EditKeeps` says that each
step of an edit keeps such a list so. It rests on three facts: no list holds a row
newer than the log (`Young`), so a commit is of a row that no list has and no undo
puts back (`Overwritten`); an edit's own value is never a row (`MineEdits`); and
an answer or undo without its gap is put only over what the edit itself showed.
The rest of the sync's invariant (`SyncInd`: log, phases, positions, pages) does not
mention the lists and is kept as it is (`SyncIndStep`, `SyncIndKept`).

### Billing

**`OnlyPaidApplies`** and **`AppliedExactlyOnce`** (`PlanBillingProofs`) hold with
every gap open: no race of the code counts a payment twice or one that was not
made. The invariant is `TypeOK /\ Grounded /\ Honest`, where `Honest` follows the
word "paid" from Razorpay through the answer a call holds to the row and to the
applied payment. Each action is then a step of `PaidPlans` or leaves it alone:
`Capture` and `PaymentCaptured` are its `Pay`, `Take` its `Apply`.

**`PeriodsAddUp`** and **`TimeIsKept`** need `renewal` and `extension` closed. That two
periods do not overlap is not inductive; `RunsToEnd` is what was missing: as long as an
organization stays on one plan, it is active and every applied period ends no later than
the date it has paid up to, which is where the next one starts. **`CheckoutIsReused`**
needs `doubleClick` closed; its invariant, `NothingRecent`, says that a request which
found no order to reuse still has none to reuse when it stores its own.

### Payment links

`PaymentLinksProofs` has two parts. The first is for **any number of handlers at once**.
Its invariant, `Sound`, is `Typed /\ Told`: whatever is stored of a link, and whatever any
handler holds of one, is `Behind` what Razorpay has - an earlier status, no more money,
and the same end if it says it has ended - and what Razorpay has is `Consistent` with the
events it sends. So an old answer may be stale but never wrong about an end, and
**`PaidLinksAreKept`** follows: a handler that removes a link has seen it expired or
cancelled, and such a link was not paid. **`OneLinkEach`** follows from the claim of a
request's key and Razorpay's knowledge of references, **`RefundsEnd`** from what
`recordRefund` does not overwrite.

The second is for **one handler at a time** (`OneAtATime`), which section 4 shows to be
needed. `Fresh` says that what the handler has read is what is stored, that what it
saves is no step back, and that what it announces is news: **`PaymentIsAnnouncedOnce`**
and **`LinksGoForward`**. `Fits` adds the link about to be made to those asked for:
**`LinksFitTheInvoice`**. `Counted` says that the invoice shows `Net` but while the handler
is about to write it, with `Traced`, which ties refunds to paid links:
**`InvoiceIsRight`**. Sums are cardinalities of sets of units (`SumOf`), so that adding,
removing and changing one link are facts about finite sets and need no induction.

### Documents and sales

`SalesProofs` first proves about `Invoicing` what it then lifts to the ledger
beside it, since sales touch no document and handlers of documents touch no sale.

**`NumbersGivenOnce`**, **`NumbersHaveNoGap`** and, beside sales, **`NumbersBesideSales`**
are about the series and hold for any handlers and every gap. The invariant, `Numbered`,
has five parts: the numbers in the columns of rows (`RowsKnown`) and in handlers' hands
(`JobsKnown`) were given to that document, none is beyond the series' last (`UpToLast`),
none was given twice (`GivenOnce`) and none was left out.

What a document *says* is another matter, and **`NumbersAreUnique`**
(`OneDocumentPerNumber`) needs `OneAtATime` and `redated` closed. `Said` is what it adds:
a document that says a number says the one in its columns, and one that has taken a
number and does not say it yet is still in that number's series (`Agrees`), which is what
`redated` breaks; and what a handler is about to write does so too, with columns that are
still the ones on record (`JobSays`, `SaysStill`).

Under `OneAtATime`, `Fresh` says that what a handler is about to write may be written
(`MayStore`): the status fits the kind, an issued document stays issued with its number,
and a credit note stands on an issued invoice. From it come **`IssuedIsFinal`** and
**`NothingOnCancelled`**; with `Covered` - the notes on a document and the one about to be
issued come to no more than it - **`CreditIsCovered`**; and with `UnitsRight`, which says of
each step what it does to the piece and to `Out`, **`UnitsAreRight`** (and `restock`
closed: `RemovesOnce`).

**`DeviceKnows`** needs only `resent` closed. Its invariant, `DeviceRight`, relates the
device to the server while an answer is out: what is refused is not on the upload's list
(`BoxRight`), a request in whose name someone waits is about a sale that the device
accounts for (`AskRight`), and at most one request is waited for by the form and one by
the upload (`OneWaits`).

### Messages

**`ReceiptsSurvive`** and **`AcksGoForward`** hold for any handlers and every gap, from
what each statement does to a row (`RowStep`): the statements look for themselves, so
what a handler read before does not matter. **`NotifiedOnce`** needs `overlap` closed:
`OneSender` says that one request sends a message at a time, `NewIsNew` that a message
it found new is still not stored when it stores it, and not told when it tells.
**`ManagersOnly`** is for requests on the room that come one at a time: `Stands` says that
what such a request read of a private room is still so when it writes.

### Realtime

**`PresenceIsRight`** (`RealtimeProofs`) holds with the gap open. It is not inductive: an
evicted hub has forgotten what it announced. `Remembers` says what it will find when it
wakes (`Hydrated`): what it last said is of that, and while it has its memory, that is of
its open sockets and perhaps some that are closing, but of none that has gone.

The other two need `redial` closed. `Led` is about who may dial: one tab leads, only a tab
that leads dials, waits to dial or has a socket, and one of the three at a time
(`TabRight`); a socket with a client end is the one its tab has. **`OneSocketOnly`** is a
consequence of it. **`HeardIsFetched`** has a third invariant on top of both, `CatchesUp`:
while the leader counts as connected over a socket in order that brings no news, every
open tab has the last change the hub was told of, is fetching, failed to, will when it is
shown, or has news on its way from the leader. A signal puts news into that socket because
the hub remembers every open one (`Remembers`); a socket that ends and a new leader each
leave nobody connected, and the first message over a new socket is news for every tab.

### Organizations

**`OwnerAlways`** (`TeamProofs`) holds with every gap open: the triggers look at what
is stored, so what a handler read before does not matter. It needs `Founded`: before
there is an organization it has no members, so that `Create` does insert the owner,
and nobody acts on its team. Each write of a membership is then one of four operators
(`Inserted`, `Updated`, `Rejoined`, the deletion), with a lemma each.

**`ApprovedThenSetUp`** needs the gap `decide` closed. Its invariant, `ApprovalKnows`,
says what a handler may rely on at each step of an approval - that the application is
approved, that the organization and then the subscription are there - and `Progress`
that none of it is taken back by the team's handlers or another approval.

**`JoinersFit`** needs `seats` closed, and that there are finitely many people, as in any
database. `SeatKnown` says what a handler's count of the seats still says when it writes.

### With TLC only

Liveness (`Converges`, `PaidIsApplied`, `PaidIsShown`, `Quiet`, `SeenAtLast`,
`Reconnects`), which is beyond the prover. Every safety invariant and action property
that a passing run checks is the subject of a theorem. What a period, a sum of
money or a page of rows looks like in the code's own types is not reasoned about.

## 7. What the models leave out

Sync. A row's content is its version. Snapshot mode, which no client requests, the
polling path against a server without `/api/sync`, receipts, and the upload of
data from before the server existed are left out. `attachRecords` reads all
records of a page at once (the code reads them kind by kind). What an identity
may read is fixed; a chat member added later is a listed hazard. A change of
access always makes a new engine, as the next `getEngine` does. `lastPayloads` is
kept only with the gap `unchanged`, since without that gap every other way of
setting the screen forgets it. One edit of an item is under way at a time; two
are a listed hazard. A load whose user object was replaced still stores the invoices it
got (`useEntityData.ts:164`, before the check of line 198); the model drops them with the
rest. That a load begins by showing the saved invoices (`useEntityData.ts:182`) is left
out. The other tab's pass is one step that does not fail, at a moment that nothing in the
code chooses (`AtRest`): each tab has its own scheduler, and the passes that overlap are
the gap `tabs`.

Billing. One organization. Prices, offers, trials, waivers and free plans do not
meet the confirmations and are left out. The order and the list of its payments
are read in one step, with the payment's date left open where the two reads may
differ. A period is a length and is added, where the code adds calendar months
and clips the day: a listed hazard, with its own module in the plan. The webhook
secret goes with the account. An order is reused whatever its amount (`billing.ts:357`
asks for the same one), since prices do not change here. The browser's confirmation and
the reconciliation each look for the order's keys (`billing.ts:414`, `:490`); the model
looks once, as a call begins.

Payment links. One invoice, in whole units, without the permission to ask for more
than is owed; live and test mode, the two Razorpay accounts and their mismatch,
messages to the customer and reports are left out. Razorpay is assumed to cancel
only what nothing was paid on, and to know a reference it was given before. A call
ends within 15 s and a claim is respected for 60 s, so a claim is taken over only
from a handler that is gone. A deleted link that Razorpay still sends an event of
comes back as an unknown one, as in the code; a payment whose worker dies between
saving and announcing it is not announced: `AnnouncedOnce` says at most once. The
scheduled check works on the copies of all links that it read as the run began
(`paymentLinks.ts:939`); the model's check reads its one link when it begins and may wait
before it asks, so a run over several links is several handlers. A check that fails only
notes the time (`saveCheckMarks`, line 881), and times of checks are not modelled.

Invoicing. One line of one unit; parties, taxes, settings, proformas in the old shape
and debit notes are left out, and so are partial returns. What a device has not
seen of a document that it saves whole is lost, which is a matter of the sync. A
number taken for a draft that is then removed stays without a document: `NoneLeftOut`
speaks of numbers given. An owner (store or GSTIN) and a financial year are one value of
`Series`, and that is all there is of a document's date and store. What a document says
is taken to name its series: of two GSTINs the text of a number may be the same
(`prefixFor` adds only a store's code), and the GSTIN beside it tells them apart; two
stores with one code, or none, that number on their own do print the same text, which is
a matter of the settings. Those - whether series go by store, prefixes, codes, GSTINs, the
first number, here 1 - do not change; a change of them before a numbered draft is issued
would do what the gap `redated` does.

Sales. A sale is of one unit of one piece; there is one device and one person, and no
correction of a sale, its number, tags, photos and totals. Pieces are neither deleted nor
re-created. Refusals are for want of the piece: a sale refused for its form is not sent
again by the app as it is. A sale thrown away while it is being uploaded is a gap.

Messages. Names, titles, pins, archives and last messages are left out: they are
written with the row and nothing depends on them. A receipt by the hub uses a copy
of the room up to a minute old; the model lets anyone through there, since the
statements check for themselves. Inquiry messages have neither readers nor rooms.

Realtime. One person; roles, rate limits, tickets' single use, the cap on sockets and
typing are left out. A ticket refused because the session is over (401,
`realtimeService.ts:156`) ends the dialling; here every failed ticket is tried again, so
`Reconnects` is about sessions that last. The safety sync needs a screen with lists
(`useEntityData.ts:462`), which every tab here has. A lease renewed in time changes nothing and is not a step. A
message that repeats the one before it on the same channel is kept once.

Organizations. One application, made by one applicant; its details, accounts, tokens
and invited addresses are left out, and so are organizations that the control centre
makes directly and the members' records in the app's own storage, which follow the
membership. The app's roles below admin are one, staff. What a handler reads it reads
in one step. An approval may be given again with another plan version, as in the code. A
failure of the very last batch, after the `try` (`applications.ts:443`), records nothing
and is like the worker's end (`Die`). With `seats` closed no plan changes, and so no
approval gives one, while a seat is being taken after its count.

Not modelled at all, and why: the roster, background jobs,
sessions, secrets and notifications are further protocols of the same kind, left for
later; routing, storage, pages and views have no state of their own that another part
relies on; tax rules, reports and the layout of documents are calculations that the
repository's own tests cover. Most of the repository's lines are views.

## 8. The plan

What is modelled was taken in the order of how much depends on it. Left, in that order:

1. `Jobs` (`platform/jobs.ts`): locks that lapse, retries, two crons at once.
2. `Sessions` and `SecretRotation`: KV's eventual consistency; re-encryption beside writers.
3. `Calendar`: `addPeriod` against a reference definition over months and days.
4. `Realtime` composed with `DeltaSync`: a fetch as a pass of the engine.
5. Two edits of one item at a time in `OptimisticEdits`.

Further proofs: the second tab's pass in more than one step, and two edits of one item,
each after the model is extended to them.
