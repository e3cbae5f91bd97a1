---------------------------- MODULE PaymentLinks ----------------------------
(***************************************************************************)
(* The payment links of one workspace (paymentLinks.ts,                    *)
(* paymentLinkPolicy.ts): made for an invoice by a request that may be     *)
(* repeated, paid, part-paid, expired or cancelled at Razorpay, and kept   *)
(* here by webhooks, checks, changes of validity, removals and refunds.    *)
(*                                                                         *)
(* Each handler is a chain of awaits and each await a value of its "at":   *)
(* two handlers interleave between them, and a worker may die at any.      *)
(* What customers pay is in whole units; a refund is of one unit.          *)
(***************************************************************************)
EXTENDS Integers, FiniteSets

CONSTANTS
    Links,      \* ids Razorpay may give
    Requests,   \* idempotency keys, each a request for a link on the invoice
    Refunds,    \* ids of refunds at Razorpay
    Handlers,   \* requests, webhooks and scheduled checks being handled
    Total,      \* what the invoice is for
    MaxFaults   \* bound: answers lost and workers killed

ASSUME PaymentLinksAssumption ==
    /\ Total \in Nat \ {0} /\ MaxFaults \in Nat
    /\ IsFiniteSet(Links) /\ IsFiniteSet(Refunds)
    /\ "nobody" \notin Links \cup Requests

VARIABLES
    rz,         \* the links at Razorpay
    rzRefund,   \* the refunds at Razorpay
    link,       \* payment_links
    indexed,    \* the links payment_link_payments finds by their payment
    claim,      \* payment_link_requests
    refund,     \* payment_refunds
    shown,      \* the invoice's linkPaidPaise
    job,        \* what each handler is doing
    announced,  \* link -> times its payment was announced (0, 1, more)
    torn,       \* history: a handler ended between a save and the invoice
    faults

there == <<rz, rzRefund>>
kept  == <<link, indexed, refund, shown>>
notes == <<announced, torn, faults>>
vars  == <<there, kept, claim, job, notes>>

NoLink   == [status |-> "none"]
NotMade  == [status |-> "none"]
NoClaim  == [status |-> "none"]
Idle     == [at |-> "idle"]
Unknown  == -1
Nobody   == "nobody"      \* made on Razorpay's dashboard, for no request

Statuses == {"created", "partially_paid", "expired", "cancelled", "paid"}
Open     == {"created", "partially_paid"}
RefundStatus == {"pending", "processed", "failed"}

Stored == [status : Statuses, amount : 1..Total, paid : {Unknown} \cup 0..Total,
           billed : BOOLEAN]
AtRazorpay == [status : Statuses, amount : 1..Total, paid : 0..Total,
               by : Requests \cup {Nobody}, events : SUBSET Statuses]

Sums == 0..(Total * Cardinality(Links))

(* What a handler holds: making a link, changing or removing one as it     *)
(* read it, saving it and then telling the invoice, recording a refund.    *)
Making    == [at : {"claim", "post", "lookup"}, q : Requests, amount : 1..Total]
Changing  == [at : {"ask", "cancel", "refused", "patch"}, l : Links, copy : Stored]
Deleting  == [at : {"delete"}, l : Links]
Saving    == [at : {"save"}, l : Links, copy : Stored, news : BOOLEAN,
              q : Requests \cup {Nobody}]
Telling   == [at : {"sync", "tell"}, l : Links, news : BOOLEAN, q : Requests \cup {Nobody}]
Writing   == [at : {"write"}, l : Links, news : BOOLEAN, q : Requests \cup {Nobody}, sum : Sums]
Refunding == [at : {"refund"}, r : Refunds, status : RefundStatus, l : Links \cup {Nobody},
              billed : BOOLEAN]

Job == {Idle} \cup Making \cup Changing \cup Deleting \cup Saving \cup Telling \cup Writing
              \cup Refunding

TypeOK ==
    /\ rz \in [Links -> AtRazorpay \cup {NotMade}]
    /\ rzRefund \in [Refunds -> {NotMade} \cup [status : RefundStatus, l : Links]]
    /\ link \in [Links -> Stored \cup {NoLink}] /\ indexed \in SUBSET Links
    /\ claim \in [Requests -> {NoClaim} \cup
                    [status : {"pending", "failed"}, amount : 1..Total] \cup
                    [status : {"done"}, amount : 1..Total, l : Links]]
    /\ refund \in [Refunds -> {NoLink} \cup [status : RefundStatus, l : Links \cup {Nobody}]]
    /\ shown \in Sums
    /\ job \in [Handlers -> Job]
    /\ announced \in [Links -> 0..2]
    /\ torn \in BOOLEAN /\ faults \in 0..MaxFaults

Init ==
    /\ rz = [l \in Links |-> NotMade]
    /\ rzRefund = [r \in Refunds |-> NotMade]
    /\ link = [l \in Links |-> NoLink] /\ indexed = {}
    /\ claim = [q \in Requests |-> NoClaim]
    /\ refund = [r \in Refunds |-> NoLink]
    /\ shown = 0
    /\ job = [h \in Handlers |-> Idle]
    /\ announced = [l \in Links |-> 0]
    /\ torn = FALSE /\ faults = 0

Made(l)   == rz[l] # NotMade
Have(l)   == link[l] # NoLink
Spend     == faults < MaxFaults /\ faults' = faults + 1
Lose      == /\ Spend
             /\ UNCHANGED <<announced, torn>>

(* A handler begins. *)
Begins(h, next) ==
    /\ job[h] = Idle
    /\ job' = [job EXCEPT ![h] = next]

Goes(h, next) == job' = [job EXCEPT ![h] = next]
Ends(h)       == Goes(h, Idle)

-----------------------------------------------------------------------------
(* Razorpay and the customer.                                              *)

MakeAtDashboard(l) ==
    /\ ~Made(l)
    /\ \A other \in Links : Made(other) => rz[other].by # Nobody
    /\ rz' = [rz EXCEPT ![l] = [status |-> "created", amount |-> Total, paid |-> 0,
                                by |-> Nobody, events |-> {}]]
    /\ UNCHANGED <<rzRefund, kept, claim, job, notes>>

(* A link changes at Razorpay, which owes the workspace an event for it.   *)
(* It sends it again until it is answered, so an event once owed may       *)
(* arrive at any time and more than once.                                  *)
Changes(l, status, paid) ==
    /\ Made(l) /\ rz[l].status \in Open
    /\ rz' = [rz EXCEPT ![l].status = status, ![l].paid = paid,
                        ![l].events = @ \cup {status}]
    /\ UNCHANGED <<rzRefund, kept, claim, job, notes>>

Pay(l)     == Changes(l, "paid", rz[l].amount)
Expire(l)  == Changes(l, "expired", rz[l].paid)
(* Only a link made on the dashboard can take part of its amount.          *)
PayPart(l) == Made(l) /\ rz[l].by = Nobody /\ rz[l].status = "created" /\ rz[l].amount > 1
              /\ Changes(l, "partially_paid", 1)

RefundChanges(r) ==
    /\ \/ /\ rzRefund[r] = NotMade
          /\ \E l \in Links :
               /\ Made(l) /\ rz[l].status = "paid"
               /\ rzRefund' = [rzRefund EXCEPT ![r] = [status |-> "pending", l |-> l]]
       \/ /\ rzRefund[r] # NotMade /\ rzRefund[r].status = "pending"
          /\ \E s \in {"processed", "failed"} : rzRefund' = [rzRefund EXCEPT ![r].status = s]
    /\ UNCHANGED <<rz, kept, claim, job, notes>>

-----------------------------------------------------------------------------
(* Making a link.                                                          *)

(* The statuses that count against an invoice. Mutant: paid links do not.  *)
CountingOpen == Open
Counting     == {"created", "partially_paid", "paid"}
OnInvoice    == {l \in Links : Have(l) /\ link[l].billed}
Committed    == {l \in OnInvoice : link[l].status \in Counting}

(* The sum of what each link is worth, counted paisa by paisa. *)
SumOf(worth) == Cardinality(UNION {{l} \X (1..worth[l]) : l \in DOMAIN worth})

Amounts(S)  == [l \in S |-> link[l].amount]
Asked       == SumOf(Amounts(Committed))
Outstanding == IF Asked > Total THEN 0 ELSE Total - Asked

(* Someone asks for a link, without an override: the amount is approved    *)
(* against what the invoice is still owed, before anything is claimed or   *)
(* stored.                                                                 *)
Approve(h, q) ==
    /\ \E amount \in 1..Outstanding : Begins(h, [at |-> "claim", q |-> q, amount |-> amount])
    /\ UNCHANGED <<there, kept, claim, notes>>

(* An attempt of the request is under way elsewhere: it takes at most two  *)
(* calls of 15 s, well within the 60 s a pending claim is respected.       *)
UnderWay(q) ==
    \E h \in Handlers : \/ job[h].at \in {"post", "lookup"} /\ job[h].q = q
                        \/ job[h].at \in {"save", "sync", "write", "tell"} /\ job[h].q = q

Refused(q, amount) ==
    \/ claim[q] # NoClaim /\ claim[q].amount # amount
    \/ claim[q].status = "pending" /\ UnderWay(q)
    \/ claim[q].status = "done" /\ Have(claim[q].l)

(* Takes the request's key, or answers with the link made earlier or a     *)
(* refusal. A done request whose link is gone is made again.               *)
Claim(h) ==
    /\ job[h].at = "claim"
    /\ LET q == job[h].q IN
       IF Refused(q, job[h].amount)
       THEN Ends(h) /\ UNCHANGED claim
       ELSE /\ Goes(h, [job[h] EXCEPT !.at = "post"])
            /\ claim' = IF claim[q].status = "done" THEN claim
                        ELSE [claim EXCEPT ![q] = [status |-> "pending",
                                                   amount |-> job[h].amount]]
    /\ UNCHANGED <<there, kept, notes>>

(* The link Razorpay made for a request's reference, which is the same     *)
(* every time the request is retried. Mutant: a reference for each call.   *)
MadeForCall(q) == {}
MadeFor(q)     == {l \in Links : Made(l) /\ rz[l].by = q}

NewRecord(l, amount, status) ==
    [status |-> status, amount |-> amount, paid |-> Unknown, billed |-> TRUE]
Storing(l, q, amount) ==
    [at |-> "save", l |-> l, copy |-> NewRecord(l, amount, rz'[l].status),
     news |-> FALSE, q |-> q]

(* Razorpay makes the link unless it knows the reference. When its answer  *)
(* is lost, or it refuses the reference, the link is looked up.            *)
Post(h) ==
    /\ job[h].at = "post"
    /\ LET q == job[h].q
           free == {l \in Links : ~Made(l)} IN
       IF MadeFor(q) = {} /\ free # {}
       THEN LET l == CHOOSE x \in free : TRUE IN
            /\ rz' = [rz EXCEPT ![l] = [status |-> "created", amount |-> job[h].amount,
                                        paid |-> 0, by |-> q, events |-> {}]]
            /\ \/ Goes(h, Storing(l, q, job[h].amount)) /\ UNCHANGED notes
               \/ Goes(h, [job[h] EXCEPT !.at = "lookup"]) /\ Lose
       ELSE Goes(h, [job[h] EXCEPT !.at = "lookup"]) /\ UNCHANGED <<rz, notes>>
    /\ UNCHANGED <<rzRefund, kept, claim>>

Fails(h) ==
    /\ claim' = [claim EXCEPT ![job[h].q] = [status |-> "failed", amount |-> job[h].amount]]
    /\ Ends(h)

PostFails(h) ==
    /\ job[h].at = "post"
    /\ Lose
    /\ Fails(h)
    /\ UNCHANGED <<there, kept>>

Lookup(h) ==
    /\ job[h].at = "lookup"
    /\ UNCHANGED <<there, kept>>
    /\ LET q == job[h].q IN
       \/ /\ MadeFor(q) # {}
          /\ Goes(h, Storing(CHOOSE l \in MadeFor(q) : TRUE, q, job[h].amount))
          /\ UNCHANGED <<claim, notes>>
       \/ MadeFor(q) = {} /\ Fails(h) /\ UNCHANGED notes
       \/ Fails(h) /\ Lose

-----------------------------------------------------------------------------
(* Saving a link, and putting what the links collected on the invoice.     *)

(* What a link collected. *)
Collected(l) ==
    IF link[l].paid # Unknown THEN link[l].paid
    ELSE IF link[l].status = "paid" THEN link[l].amount ELSE 0

Refunded == {r \in Refunds : /\ refund[r] # NoLink /\ refund[r].status = "processed"
                             /\ refund[r].l \in OnInvoice}
Net == LET n == SumOf([l \in OnInvoice |-> Collected(l)]) - Cardinality(Refunded)
       IN  IF n < 0 THEN 0 ELSE n

After(h, at) == [at |-> at, l |-> job[h].l, news |-> job[h].news, q |-> job[h].q]

Save(h) ==
    /\ job[h].at = "save"
    /\ link' = [link EXCEPT ![job[h].l] = job[h].copy]
    /\ indexed' = IF job[h].copy.status = "paid" THEN indexed \cup {job[h].l} ELSE indexed
    /\ Goes(h, After(h, IF job[h].copy.billed THEN "sync" ELSE "tell"))
    /\ UNCHANGED <<there, refund, shown, claim, notes>>

(* syncInvoicePaid reads the links and refunds, then writes the invoice;   *)
(* an error is logged and the handler goes on.                             *)
Sync(h) ==
    /\ job[h].at = "sync"
    /\ Goes(h, IF Net = shown THEN After(h, "tell")
               ELSE [l |-> job[h].l, news |-> job[h].news, q |-> job[h].q,
                     at |-> "write", sum |-> Net])
    /\ UNCHANGED <<there, kept, claim, notes>>

Write(h) ==
    /\ job[h].at = "write"
    /\ shown' = job[h].sum
    /\ Goes(h, After(h, "tell"))
    /\ UNCHANGED <<there, link, indexed, refund, claim, notes>>

SyncFails(h) ==
    /\ job[h].at \in {"sync", "write"}
    /\ Spend /\ torn' = TRUE
    /\ Goes(h, After(h, "tell"))
    /\ UNCHANGED <<there, kept, claim, announced>>

(* The handler ends: a request's key is done, a payment is announced.      *)
Tell(h) ==
    /\ job[h].at = "tell"
    /\ claim' = IF job[h].q = Nobody THEN claim
                ELSE [claim EXCEPT ![job[h].q] =
                        [status |-> "done", amount |-> claim[job[h].q].amount, l |-> job[h].l]]
    /\ announced' = IF job[h].news /\ announced[job[h].l] < 2
                    THEN [announced EXCEPT ![job[h].l] = @ + 1] ELSE announced
    /\ Ends(h)
    /\ UNCHANGED <<there, kept, torn, faults>>

-----------------------------------------------------------------------------
(* A webhook.                                                              *)

Rank(status) == CASE status = "created" -> 0 [] status = "partially_paid" -> 1
                  [] status \in {"expired", "cancelled"} -> 2 [] status = "paid" -> 3

(* nextLinkStatus. Mutant: the last event wins. *)
Latest(current, incoming)  == incoming
Further(current, incoming) == IF Rank(incoming) > Rank(current) THEN incoming ELSE current

PaidWhen(l, event) == IF event = "partially_paid" THEN 1 ELSE rz[l].paid

FromEvent(l, event) ==
    [status |-> event, amount |-> rz[l].amount, paid |-> Unknown, billed |-> FALSE]

AfterEvent(l, event) ==
    LET record == IF Have(l) THEN link[l] ELSE FromEvent(l, event)
    IN  [record EXCEPT !.status = IF Have(l) THEN Further(@, event) ELSE event,
                       !.paid = IF PaidWhen(l, event) >= @ THEN PaidWhen(l, event) ELSE @]

(* A link is announced when the event finds it not yet paid. Mutant: at    *)
(* every delivery.                                                         *)
IsAlwaysNews(l, event) == event = "paid"
IsNews(l, event)       == event = "paid" /\ ~(Have(l) /\ link[l].status = "paid")

Matters(l, event) ==
    Have(l) => event = "paid" \/ Further(link[l].status, event) # link[l].status

(* applyPaymentLinkEvent reads the link; only a payment, or an event that  *)
(* moves it, is saved. An event of an unknown link records it.             *)
Deliver(h, l, event) ==
    /\ Made(l) /\ event \in rz[l].events
    /\ Matters(l, event)
    /\ Begins(h, [at |-> "save", l |-> l, copy |-> AfterEvent(l, event),
                  news |-> IsNews(l, event), q |-> Nobody])
    /\ UNCHANGED <<there, kept, claim, notes>>

-----------------------------------------------------------------------------
(* Asking Razorpay.                                                        *)

(* A link as Razorpay answers (applyRazorpayLinkState). *)
Answered(copy, l) == [copy EXCEPT !.status = rz[l].status, !.paid = rz[l].paid]
TurnedPaid(copy, l) == copy.status # "paid" /\ rz[l].status = "paid"

Reads(h, l, at) ==
    /\ Have(l)
    /\ Begins(h, [at |-> at, l |-> l, copy |-> link[l]])
    /\ UNCHANGED <<there, kept, claim, notes>>

(* The scheduled check of links that can still be paid, and a person's     *)
(* recheck of any link. Mutant: a link once checked is not due again.      *)
DueOnce(l)    == Have(l) /\ link[l].status \in Open /\ link[l].paid = Unknown
Due(l)        == Have(l) /\ link[l].status \in Open
Check(h, l)   == Due(l) /\ Reads(h, l, "ask")
Recheck(h, l) == Reads(h, l, "ask")

SavesAnswer(h) ==
    Goes(h, [at |-> "save", l |-> job[h].l, copy |-> Answered(job[h].copy, job[h].l),
             news |-> TurnedPaid(job[h].copy, job[h].l), q |-> Nobody])

Ask(h) ==
    /\ job[h].at = "ask"
    /\ SavesAnswer(h)
    /\ UNCHANGED <<there, kept, claim, notes>>

(* PATCH: only a link that can be paid, here and at Razorpay; the answer   *)
(* is saved, without news.                                                 *)
Extend(h, l) == Have(l) /\ link[l].status \in Open /\ Reads(h, l, "patch")
Patch(h) ==
    /\ job[h].at = "patch"
    /\ IF rz[job[h].l].status \in Open
       THEN Goes(h, [at |-> "save", l |-> job[h].l, copy |-> Answered(job[h].copy, job[h].l),
                     news |-> FALSE, q |-> Nobody])
       ELSE Ends(h)
    /\ UNCHANGED <<there, kept, claim, notes>>

-----------------------------------------------------------------------------
(* Removing a link: one that can still be paid is cancelled first.         *)

Remove(h, l) ==
    /\ Have(l) /\ link[l].status \notin {"paid", "partially_paid"}
    /\ IF link[l].status = "created"
       THEN Begins(h, [at |-> "cancel", l |-> l, copy |-> link[l]])
       ELSE Begins(h, [at |-> "delete", l |-> l])
    /\ UNCHANGED <<there, kept, claim, notes>>

(* Razorpay cancels a link nobody paid anything on. When its answer is     *)
(* lost the removal ends there.                                            *)
Cancel(h) ==
    /\ job[h].at = "cancel"
    /\ LET l == job[h].l IN
       IF rz[l].status = "created"
       THEN /\ rz' = [rz EXCEPT ![l].status = "cancelled", ![l].events = @ \cup {"cancelled"}]
            /\ \/ Goes(h, [at |-> "delete", l |-> l]) /\ UNCHANGED notes
               \/ Ends(h) /\ Lose
       ELSE Goes(h, [job[h] EXCEPT !.at = "refused"]) /\ UNCHANGED <<rz, notes>>
    /\ UNCHANGED <<rzRefund, kept, claim>>

(* Razorpay refused: a link paid meanwhile is kept. Mutant: removed.       *)
RefusalIgnored(h) == Goes(h, [at |-> "delete", l |-> job[h].l])
Refusal(h) ==
    LET status == rz[job[h].l].status IN
    IF status \in {"paid", "partially_paid"} THEN SavesAnswer(h)
    ELSE IF status = "created" THEN Ends(h)
    ELSE Goes(h, [at |-> "delete", l |-> job[h].l])

CannotCancel(h) ==
    /\ job[h].at = "refused"
    /\ Refusal(h)
    /\ UNCHANGED <<there, kept, claim, notes>>

Delete(h) ==
    /\ job[h].at = "delete"
    /\ link' = [link EXCEPT ![job[h].l] = NoLink]
    /\ indexed' = indexed \ {job[h].l}
    /\ Ends(h)
    /\ UNCHANGED <<there, refund, shown, claim, notes>>

-----------------------------------------------------------------------------
(* Refunds.                                                                *)

(* A refund event, or the daily check of a paid link's refunds, finds a    *)
(* refund as it was when the event was sent or as it is now, and the link  *)
(* its payment is known to be on.                                          *)
FindRefund(h, r) ==
    /\ rzRefund[r] # NotMade
    /\ LET l == rzRefund[r].l IN
       \E status \in {"pending", rzRefund[r].status} :
         Begins(h, [at |-> "refund", r |-> r, status |-> status,
                    l |-> IF l \in indexed THEN l ELSE Nobody,
                    billed |-> l \in indexed /\ link[l].billed])
    /\ UNCHANGED <<there, kept, claim, notes>>

(* A refund only moves forward: processed and failed are final, in the     *)
(* statement itself. Mutant: the last one heard.                           *)
RefundLast(old, status) == status
RefundNow(old, status)  == IF old \in {"processed", "failed"} THEN old ELSE status

(* Its link's invoice is then counted again. Mutant: not for a refund.     *)
NeverSyncs(h)       == FALSE
SyncsTheInvoice(h)  == job[h].billed

RecordRefund(h) ==
    /\ job[h].at = "refund"
    /\ LET r == job[h].r
           l == job[h].l IN
       /\ refund' = [refund EXCEPT ![r] =
            IF @ = NoLink THEN [status |-> job[h].status, l |-> l]
            ELSE [status |-> RefundNow(@.status, job[h].status),
                  l |-> IF @.l = Nobody THEN l ELSE @.l]]
       /\ IF SyncsTheInvoice(h)
          THEN Goes(h, [at |-> "sync", l |-> l, news |-> FALSE, q |-> Nobody])
          ELSE Ends(h)
    /\ UNCHANGED <<there, link, indexed, shown, claim, notes>>

-----------------------------------------------------------------------------
(* A call to Razorpay or the database fails and ends the handler, or its   *)
(* worker is killed.                                                       *)
Die(h) ==
    /\ job[h] # Idle
    /\ Spend
    /\ torn' = (torn \/ job[h].at \in {"sync", "write"})
    /\ Ends(h)
    /\ UNCHANGED <<there, kept, claim, announced>>

Outside == \/ \E l \in Links : MakeAtDashboard(l) \/ Pay(l) \/ Expire(l) \/ PayPart(l)
           \/ \E r \in Refunds : RefundChanges(r)

Starts(h) ==
    \/ \E q \in Requests : Approve(h, q)
    \/ \E l \in Links : Check(h, l) \/ Recheck(h, l) \/ Extend(h, l) \/ Remove(h, l)
    \/ \E l \in Links, event \in Statuses : Deliver(h, l, event)
    \/ \E r \in Refunds : FindRefund(h, r)

Continues(h) ==
    \/ Claim(h) \/ Post(h) \/ Lookup(h)
    \/ Save(h) \/ Sync(h) \/ Write(h) \/ Tell(h)
    \/ Ask(h) \/ Patch(h)
    \/ Cancel(h) \/ CannotCancel(h) \/ Delete(h)
    \/ RecordRefund(h)

Breaks(h) == PostFails(h) \/ SyncFails(h) \/ Die(h)

Next == Outside \/ \E h \in Handlers : Starts(h) \/ Continues(h) \/ Breaks(h)

Spec == Init /\ [][Next]_vars

(* What is begun goes on, and the job of every ten minutes comes round to  *)
(* every link that can still be paid.                                      *)
Fairness == /\ \A h \in Handlers : WF_vars(Continues(h))
            /\ \A l \in Links : SF_vars(\E h \in Handlers : Check(h, l))
FairSpec == Spec /\ Fairness

-----------------------------------------------------------------------------
(* Whatever handlers overlap:                                              *)

PaidStay == \A l \in Links : Have(l) /\ rz[l].status = "paid" => link'[l] # NoLink

(* A link Razorpay has the whole payment of is never removed from the      *)
(* workspace (cancelOpenLink, handlePaymentLinkDelete): its record is what *)
(* counts the money.                                                       *)
KeepsPaidLinks == [][PaidStay]_vars

(* A request makes at most one link at Razorpay, however often it is sent, *)
(* answers are lost or workers die (claimLinkRequest, createAtRazorpay).   *)
OneLinkPerRequest ==
    \A q \in Requests, l, m \in Links :
        Made(l) /\ Made(m) /\ rz[l].by = q /\ rz[m].by = q => l = m

RefundsStay ==
    \A r \in Refunds : refund[r] # NoLink /\ refund[r].status # "pending" =>
        refund'[r].status = refund[r].status

(* A refund once processed or failed stays so, in whatever order its       *)
(* events and checks arrive (recordRefund).                                *)
RefundsAreFinal == [][RefundsStay]_vars

(* A link that is paid is shown as paid for good at last, though stale     *)
(* answers may set it back for a while (reconcileOpenLink).                *)
PaidIsShown ==
    \A l \in Links : [](Made(l) /\ rz[l].status = "paid" /\ Have(l)
                        => <>[](Have(l) /\ link[l].status = "paid"))

(* When handlers run one at a time (Handlers has one element), in whatever *)
(* order events arrive, are repeated or lost, and wherever workers die:    *)

Forward ==
    \A l \in Links : Have(l) /\ link'[l] # NoLink => Rank(link[l].status) <= Rank(link'[l].status)

(* a link only moves forward (nextLinkStatus, applyRazorpayLinkState), ... *)
OnlyForward == [][Forward]_vars

(* ... its payment is announced once (announcePaymentReceived), ...        *)
AnnouncedOnce == \A l \in Links : announced[l] <= 1

(* ... what the links on an invoice have been paid or can still be paid is *)
(* together never more than its total (outstandingPaise, approveAmount),   *)
(* ...                                                                     *)
Live == {l \in OnInvoice : link[l].status \notin {"expired", "cancelled"}}
AsksNoMoreThanOwed == SumOf(Amounts(Live)) <= Total

(* ... and the invoice shows what its links collected less what was        *)
(* refunded, unless a handler ended before it could tell the invoice.      *)
CountedAtRest == ~torn /\ (\A h \in Handlers : job[h] = Idle) => shown = Net
=============================================================================
