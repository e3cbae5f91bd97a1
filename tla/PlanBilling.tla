----------------------------- MODULE PlanBilling -----------------------------
(***************************************************************************)
(* One organization paying for its plan (platform/billing.ts): checkouts,  *)
(* the three ways a payment is confirmed - the browser, the webhook and a  *)
(* recheck - and the platform's Razorpay account.                          *)
(*                                                                         *)
(* A confirmation is a chain of awaits; each is a value of its "step", so  *)
(* that confirmations, the customer at Razorpay and the control centre     *)
(* interleave wherever the code yields. A batch is one step.               *)
(*                                                                         *)
(* Gaps names what the code does with a value read before an await that    *)
(* may be out of date after it: "renewal", "extension", "accountCheck",    *)
(* "doubleClick"; and "answered", a webhook answered 200 though Razorpay   *)
(* could not be asked.                                                     *)
(***************************************************************************)
EXTENDS Integers

CONSTANTS
    Orders,       \* Razorpay orders, one for each checkout
    Payers,       \* owners and admins of the organization
    Tabs,         \* requests starting a checkout
    Calls,        \* the confirmations that may run
    Plans,        \* plan versions on offer
    Length,       \* period -> the time it buys
    ReuseTime,    \* REUSE_ORDER_MS
    Keys,         \* Razorpay keys
    MaxTime,      \* bound: the clock
    MaxDecisions, \* bound: changes made in the control centre
    MaxFaults,    \* bound: lost requests and dead workers
    Gaps

ASSUME PlanBillingAssumption ==
    /\ Length \in [DOMAIN Length -> Nat \ {0}]
    /\ Calls \subseteq {"browser", "webhook", "recheck"}
    /\ ReuseTime \in Nat /\ MaxTime \in Nat
    /\ MaxDecisions \in Nat /\ MaxFaults \in Nat
    /\ "none" \notin Plans \cup Keys \cup Tabs

VARIABLES
    account,    \* the connected key, and whether it was verified
    checking,   \* the account as a verification in flight read it
    opening,    \* checkouts being started
    row,        \* billing_payments
    sub,        \* the organization's row of subscriptions
    extending,  \* the paid-up-to date as an extension in flight read it
    bank,       \* the order and its payments, at Razorpay
    bankAt,     \* when the payment was made
    owed,       \* a webhook event of the order is undelivered
    call,       \* confirmations in flight
    now,
    moves,      \* changes of plan or status in the control centre
    decisions,
    faults

checkout == <<opening, row>>
centre   == <<account, checking, extending, moves, decisions>>
razorpay == <<bank, bankAt, owed>>
vars     == <<checkout, centre, razorpay, sub, call, now, faults>>

NoAccount == [key |-> "none", verified |-> FALSE]
NoRow     == [status |-> "absent"]
Periods   == DOMAIN Length
Item      == [payer : Payers, plan : Plans, period : Periods, key : Keys]
Closed    == [item |-> "none"]
NotPaid   == -1
Idle      == [step |-> "idle"]
Statuses  == {"created", "attempted", "paid"}

Row == [item : Item, made : Nat, status : Statuses, paidAt : Nat \cup {NotPaid},
        applied : BOOLEAN, start : Nat, end : Nat]
Sub == [plan : Plans \cup {"none"}, active : BOOLEAN, end : Nat]

Call ==
    {Idle} \cup [step : {"ask", "apply"}, order : Orders]
           \cup [step : {"capture", "record"}, order : Orders,
                 saw : {"created", "attempted", "authorized", "paid"}]
           \cup [step : {"take"}, order : Orders, seen : Sub]

TypeOK ==
    /\ account \in [key : Keys \cup {"none"}, verified : BOOLEAN]
    /\ checking \in [key : Keys \cup {"none"}, verified : BOOLEAN]
    /\ opening \in [Tabs -> Item \cup {Closed}]
    /\ row \in [Orders -> Row \cup {NoRow}]
    /\ sub \in Sub
    /\ extending \in Nat \cup {-1}
    /\ bank \in [Orders -> {"none", "created", "attempted", "authorized", "paid"}]
    /\ bankAt \in [Orders -> Nat]
    /\ owed \in [Orders -> BOOLEAN]
    /\ call \in [Calls -> Call]
    /\ now \in Nat /\ moves \in Nat /\ decisions \in Nat /\ faults \in Nat

Init ==
    /\ account = NoAccount /\ checking = NoAccount
    /\ opening = [t \in Tabs |-> Closed]
    /\ row = [o \in Orders |-> NoRow]
    /\ sub = [plan |-> "none", active |-> FALSE, end |-> 0]
    /\ extending = -1
    /\ bank = [o \in Orders |-> "none"]
    /\ bankAt = [o \in Orders |-> 0]
    /\ owed = [o \in Orders |-> FALSE]
    /\ call = [c \in Calls |-> Idle]
    /\ now = 0 /\ moves = 0 /\ decisions = 0 /\ faults = 0

Fault == faults < MaxFaults /\ faults' = faults + 1
Decision == decisions < MaxDecisions /\ decisions' = decisions + 1

-----------------------------------------------------------------------------
(* The platform's Razorpay account, in the control centre.                 *)

(* New keys start unverified, whatever they replace. *)
Connect(k) ==
    /\ Decision
    /\ account' = [key |-> k, verified |-> FALSE]
    /\ UNCHANGED <<checking, extending, moves, checkout, razorpay, sub, call, now, faults>>

Disconnect ==
    /\ Decision
    /\ account # NoAccount
    /\ account' = NoAccount
    /\ UNCHANGED <<checking, extending, moves, checkout, razorpay, sub, call, now, faults>>

(* verifyBillingAccount reads the account, then asks Razorpay. *)
VerifyReads ==
    /\ account # NoAccount /\ checking = NoAccount
    /\ checking' = account
    /\ UNCHANGED <<account, extending, moves, decisions, checkout, razorpay, sub, call, now, faults>>

(* It saves the whole account as it read it ("accountCheck": over keys     *)
(* connected or disconnected meanwhile) with the answer.                   *)
VerifySaves ==
    /\ checking # NoAccount
    /\ \E ok \in BOOLEAN :
         account' = IF "accountCheck" \in Gaps \/ account.key = checking.key
                    THEN [key |-> checking.key, verified |-> ok] ELSE account
    /\ checking' = NoAccount
    /\ UNCHANGED <<extending, moves, decisions, checkout, razorpay, sub, call, now, faults>>

-----------------------------------------------------------------------------
(* Starting a checkout.                                                    *)

Stored(o) == row[o].status # "absent"
Unpaid(o) == row[o].status \in {"created", "attempted"}

(* An unpaid checkout of the same thing, started recently: it is offered   *)
(* again instead of a new order. Mutant: not once a payment failed.        *)
RecentCreated(o, item) ==
    row[o].status = "created" /\ row[o].item = item /\ row[o].made > now - ReuseTime
Recent(o, item) ==
    Unpaid(o) /\ row[o].item = item /\ row[o].made > now - ReuseTime

(* Nothing recent: Razorpay is asked for an order. Two requests may both   *)
(* have found nothing ("doubleClick").                                     *)
StartCheckout(t, item) ==
    /\ opening[t] = Closed
    /\ account.verified /\ item.key = account.key
    /\ ~\E o \in Orders : Recent(o, item)
    /\ "doubleClick" \in Gaps \/ \A u \in Tabs : opening[u] # item
    /\ opening' = [opening EXCEPT ![t] = item]
    /\ UNCHANGED <<row, centre, razorpay, sub, call, now, faults>>

CheckoutOpens(t, o) ==
    /\ opening[t] # Closed /\ bank[o] = "none"
    /\ bank' = [bank EXCEPT ![o] = "created"]
    /\ row' = [row EXCEPT ![o] = [item |-> opening[t], made |-> now, status |-> "created",
                                  paidAt |-> NotPaid, applied |-> FALSE, start |-> 0, end |-> 0]]
    /\ opening' = [opening EXCEPT ![t] = Closed]
    /\ UNCHANGED <<bankAt, owed, centre, sub, call, now, faults>>

(* Razorpay made no order, or its row was never stored: nobody sees it.    *)
CheckoutFails(t) ==
    /\ opening[t] # Closed
    /\ opening' = [opening EXCEPT ![t] = Closed]
    /\ Fault
    /\ UNCHANGED <<row, centre, razorpay, sub, call, now>>

-----------------------------------------------------------------------------
(* The customer in Razorpay's checkout. A failed or captured payment is an *)
(* event for the webhook; one that is only authorised is not.              *)

Owe(o) == owed' = [owed EXCEPT ![o] = TRUE]
Elsewhere == UNCHANGED <<checkout, centre, sub, call, now, faults>>

PaymentFails(o) ==
    /\ bank[o] = "created"
    /\ bank' = [bank EXCEPT ![o] = "attempted"]
    /\ Owe(o)
    /\ UNCHANGED bankAt /\ Elsewhere

PaymentAuthorized(o) ==
    /\ bank[o] \in {"created", "attempted"}
    /\ bank' = [bank EXCEPT ![o] = "authorized"]
    /\ bankAt' = [bankAt EXCEPT ![o] = now]
    /\ UNCHANGED owed /\ Elsewhere

PaymentCaptured(o) ==
    /\ bank[o] \in {"created", "attempted"}
    /\ bank' = [bank EXCEPT ![o] = "paid"]
    /\ bankAt' = [bankAt EXCEPT ![o] = now]
    /\ Owe(o) /\ Elsewhere

-----------------------------------------------------------------------------
(* A confirmation: reconcileBillingPayment and applyPaidPayment.           *)

At(c, step) == call[c].step = step

(* What starts it: the browser's signed result, checked with the keys of   *)
(* the checkout; a delivery whose signature the connected account's        *)
(* webhook secret verifies; or somebody looking.                           *)
Starts(c, o) ==
    CASE c = "browser" -> bank[o] \in {"authorized", "paid"} /\ account.key = row[o].item.key
      [] c = "webhook" -> owed[o] /\ account # NoAccount
      [] c = "recheck" -> TRUE

(* keysForPayment: only the keys the checkout was made with can ask.       *)
Begin(c, o) ==
    /\ At(c, "idle") /\ Stored(o) /\ Starts(c, o)
    /\ call' = [call EXCEPT ![c] =
                  [step |-> IF account.key = row[o].item.key THEN "ask" ELSE "apply", order |-> o]]
    /\ owed' = IF c = "webhook" THEN [owed EXCEPT ![o] = FALSE] ELSE owed
    /\ UNCHANGED <<checkout, centre, bank, bankAt, sub, now, faults>>

(* The order and the payments on it, as Razorpay has them. *)
Ask(c) ==
    /\ At(c, "ask")
    /\ LET o == call[c].order IN
       call' = [call EXCEPT ![c] =
                  [step |-> IF bank[o] = "authorized" THEN "capture" ELSE "record",
                   order |-> o, saw |-> bank[o]]]
    /\ UNCHANGED <<checkout, centre, razorpay, sub, now, faults>>

(* Razorpay is out of reach: what was recorded last is applied. A webhook  *)
(* is answered 200 all the same ("answered"), so that it is not sent again.*)
Unreachable(c) ==
    /\ At(c, "ask") /\ Fault
    /\ LET o == call[c].order IN
       /\ call' = [call EXCEPT ![c] = [step |-> "apply", order |-> o]]
       /\ IF c = "webhook" /\ "answered" \notin Gaps THEN Owe(o) ELSE UNCHANGED owed
    /\ UNCHANGED <<checkout, centre, bank, bankAt, sub, now>>

(* An authorised payment is captured. The call may fail, or find it        *)
(* captured by another, or only its answer be lost.                        *)
Capture(c) ==
    /\ At(c, "capture")
    /\ LET o == call[c].order
           Seen(saw) == call' = [call EXCEPT ![c] = [step |-> "record", order |-> o, saw |-> saw]]
           Taken == bank[o] = "authorized" /\ bank' = [bank EXCEPT ![o] = "paid"] /\ Owe(o)
       IN  \/ Taken /\ Seen("paid") /\ UNCHANGED faults
           \/ Taken /\ Seen("authorized") /\ Fault
           \/ Seen("authorized") /\ Fault /\ UNCHANGED <<bank, owed>>
           \/ bank[o] # "authorized" /\ Seen("authorized") /\ UNCHANGED <<bank, owed, faults>>
    /\ UNCHANGED <<checkout, centre, bankAt, sub, now>>

(* The row's status for what Razorpay says: a payment still authorised is  *)
(* only an attempt.                                                        *)
Found(saw) == IF saw = "authorized" THEN "attempted" ELSE saw

(* Whoever finds it paid applies it. Mutant: only who finds it paid first. *)
AppliesFirst(o, found) == found = "paid" /\ Unpaid(o)
Applies(o, found) == found = "paid"

(* A paid row stays paid, with the date it was first given: the payment's, *)
(* or this moment when the payments were read before it was made.          *)
Record(c) ==
    /\ At(c, "record")
    /\ LET o == call[c].order
           found == Found(call[c].saw)
       IN  \E at \in {bankAt[o], now} :
             /\ row' = [row EXCEPT ![o].status = IF @ = "paid" THEN "paid" ELSE found,
                                   ![o].paidAt = IF found = "paid" /\ @ = NotPaid THEN at ELSE @]
             /\ call' = [call EXCEPT ![c] =
                           IF Applies(o, found) THEN [step |-> "apply", order |-> o] ELSE Idle]
    /\ UNCHANGED <<opening, centre, razorpay, sub, now, faults>>

(* applyPaidPayment reads the payment and the subscription. *)
Apply(c) ==
    /\ At(c, "apply")
    /\ LET o == call[c].order IN
       call' = [call EXCEPT ![c] =
                  IF row[o].status = "paid" /\ ~row[o].applied
                  THEN [step |-> "take", order |-> o, seen |-> sub] ELSE Idle]
    /\ UNCHANGED <<checkout, centre, razorpay, sub, now, faults>>

(* Mutant: a renewal starts when it is paid for. *)
PeriodStartAtPayment(o, s) == row[o].paidAt

(* The same plan, still running: the new period follows on from it. *)
PeriodStart(o, s) ==
    IF s.plan = row[o].item.plan /\ s.active /\ s.end > row[o].paidAt
    THEN s.end ELSE row[o].paidAt

(* The row is this call's to apply. Mutant: it is not asked.               *)
MineAlways(o) == TRUE
Mine(o) == ~row[o].applied

(* Its batch: the first to come takes the payment, and with it the plan    *)
(* changes; the others change nothing. The period is the one computed from *)
(* the subscription as it was read ("renewal": out of date when another    *)
(* payment was applied meanwhile).                                         *)
Take(c) ==
    /\ At(c, "take")
    /\ LET o == call[c].order
           start == PeriodStart(o, IF "renewal" \in Gaps THEN call[c].seen ELSE sub)
           end == start + Length[row[o].item.period]
       IN  IF Mine(o)
           THEN /\ row' = [row EXCEPT ![o].applied = TRUE, ![o].start = start, ![o].end = end]
                /\ sub' = [plan |-> row[o].item.plan, active |-> TRUE, end |-> end]
           ELSE UNCHANGED <<row, sub>>
    /\ call' = [call EXCEPT ![c] = Idle]
    /\ UNCHANGED <<opening, centre, razorpay, now, faults>>

(* The worker dies, or throws: a delivery not answered is sent again.      *)
Die(c) ==
    /\ ~At(c, "idle") /\ Fault
    /\ IF c = "webhook" THEN Owe(call[c].order) ELSE UNCHANGED owed
    /\ call' = [call EXCEPT ![c] = Idle]
    /\ UNCHANGED <<checkout, centre, bank, bankAt, sub, now>>

-----------------------------------------------------------------------------
(* The subscription in the control centre (platform/plans.ts).             *)

(* moveVersionOrganizations: only the plan changes. *)
Move(p) ==
    /\ Decision /\ moves' = moves + 1
    /\ sub.plan \notin {"none", p}
    /\ sub' = [sub EXCEPT !.plan = p]
    /\ UNCHANGED <<account, checking, extending, checkout, razorpay, call, now, faults>>

(* setSubscription, giving a status: the paid-up-to date is kept. *)
SetStatus ==
    /\ Decision /\ moves' = moves + 1
    /\ sub.plan # "none"
    /\ \E active \in BOOLEAN : sub' = [sub EXCEPT !.active = active]
    /\ UNCHANGED <<account, checking, extending, checkout, razorpay, call, now, faults>>

(* extendSubscription reads the date, then writes a later one ("extension":*)
(* counted from the date it read).                                         *)
ExtendReads ==
    /\ extending = -1
    /\ sub.plan # "none" /\ (sub.active => sub.end > 0)
    /\ extending' = sub.end
    /\ UNCHANGED <<account, checking, moves, decisions, checkout, razorpay, sub, call, now, faults>>

ExtendWrites ==
    /\ extending # -1 /\ Decision
    /\ LET end == IF "extension" \in Gaps THEN extending ELSE sub.end
       IN  sub' = [sub EXCEPT !.active = TRUE, !.end = 1 + IF end > now THEN end ELSE now]
    /\ extending' = -1
    /\ UNCHANGED <<account, checking, moves, checkout, razorpay, call, now, faults>>

Tick ==
    /\ now < MaxTime /\ now' = now + 1
    /\ UNCHANGED <<checkout, centre, razorpay, sub, call, faults>>

-----------------------------------------------------------------------------
AccountNext == Disconnect \/ VerifyReads \/ VerifySaves \/ \E k \in Keys : Connect(k)

CheckoutNext ==
    \E t \in Tabs :
      \/ \E item \in Item : StartCheckout(t, item)
      \/ \E o \in Orders : CheckoutOpens(t, o)
      \/ CheckoutFails(t)

CustomerNext == \E o \in Orders : PaymentFails(o) \/ PaymentAuthorized(o) \/ PaymentCaptured(o)

Proceed(c) == Ask(c) \/ Capture(c) \/ Record(c) \/ Apply(c) \/ Take(c)

CallNext ==
    \E c \in Calls :
      \/ \E o \in Orders : Begin(c, o)
      \/ Proceed(c) \/ Unreachable(c) \/ Die(c)

CentreNext == SetStatus \/ ExtendReads \/ ExtendWrites \/ \E p \in Plans : Move(p)

Next == AccountNext \/ CheckoutNext \/ CustomerNext \/ CallNext \/ CentreNext \/ Tick

Spec == Init /\ [][Next]_vars

(* Razorpay sends an event until it is answered, and a running worker goes *)
(* on. Customers, staff and the clock need not do anything.                *)
Deliver == \E o \in Orders : Begin("webhook", o)
FairSpec == Spec /\ WF_vars(Deliver) /\ \A c \in Calls : WF_vars(Proceed(c))

-----------------------------------------------------------------------------
Applied == {o \in Orders : Stored(o) /\ row[o].applied}

(* The plan changes only once Razorpay has the money, whichever call says  *)
(* so (billing.ts:14-15).                                                  *)
AppliedWhenPaid == \A o \in Applied : bank[o] = "paid"

(* Paying for the same plan again adds the period on to the end of the     *)
(* current one: no two payments buy the same time (billing.ts:16-17).      *)
PeriodsDoNotOverlap ==
    moves = 0 /\ (\A o, q \in Applied : row[o].item.plan = row[q].item.plan) =>
        \A o, q \in Applied : o # q => row[o].end <= row[q].start \/ row[q].end <= row[o].start

(* Staying on a plan, no paid time is taken back. *)
KeepsTime == sub.active /\ sub'.active /\ sub'.plan = sub.plan => sub'.end >= sub.end

(* While an organization stays on a plan, the date it has paid up to only  *)
(* moves on, whoever pays or extends it at the same time                   *)
(* (plans.ts extendSubscription, billing.ts applyPaidPayment).             *)
PaidTimeIsKept == [][KeepsTime]_vars

(* Opening a checkout again reuses its order: nobody has two unpaid orders *)
(* of the same thing to pay (billing.ts:353).                              *)
OneOpenCheckout ==
    \A o, q \in Orders :
        o # q /\ Unpaid(o) /\ Unpaid(q) /\ row[o].item = row[q].item =>
            row[o].made >= row[q].made + ReuseTime \/ row[q].made >= row[o].made + ReuseTime

(* A verification that ends leaves the keys connected as they are. *)
LeavesKeys == checking # NoAccount /\ checking' = NoAccount => account'.key = account.key

(* Verifying the account says whether its keys work and never changes them:*)
(* only the control centre connects or removes keys (billing.ts:140).      *)
CheckLeavesKeys == [][LeavesKeys]_vars

(* The account the checkout was made with. *)
Connected(o) == Stored(o) /\ account.key = row[o].item.key

(* Money taken changes the plan, though nobody looks at it again: the      *)
(* event Razorpay owes finishes what an earlier call did not, unless the   *)
(* account the checkout was made with is replaced (billing.ts:9-13, 676).  *)
PaidIsApplied ==
    \A o \in Orders :
        bank[o] = "paid" /\ owed[o] ~> (o \in Applied \/ ~Connected(o))

(* Checkouts, confirmations and the control centre do what PaidPlans says: *)
(* each payment changes the plan once, and only when paid.                 *)
Charge(o) == IF o \in Applied THEN "applied" ELSE IF bank[o] = "paid" THEN "paid" ELSE "unpaid"

Promise == INSTANCE PaidPlans WITH
    charge <- [o \in Orders |-> Charge(o)], plan <- sub, decisions <- decisions

KeepsPromise == Promise!Spec
=============================================================================
