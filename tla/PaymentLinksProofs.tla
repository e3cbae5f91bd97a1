-------------------------- MODULE PaymentLinksProofs --------------------------
(***************************************************************************)
(* Proofs about PaymentLinks.tla, for any number of links, requests,       *)
(* refunds and faults and an invoice of any amount: first with any number  *)
(* of handlers at once, then with one at a time.                           *)
(***************************************************************************)
EXTENDS PaymentLinks, FiniteSetTheorems, TLAPS

-----------------------------------------------------------------------------
(* Sums. *)

UnitsOf(f) == UNION {{l} \X (1..f[l]) : l \in DOMAIN f}

LEMMA UnitsIn ==
    ASSUME NEW S, IsFiniteSet(S), NEW N \in Nat, NEW f \in [S -> 0..N]
    PROVE  IsFiniteSet(UnitsOf(f)) /\ SumOf(f) \in Nat /\ SumOf(f) <= N * Cardinality(S)
<1>1. UnitsOf(f) \in SUBSET (S \X (1..N))
  BY DEF UnitsOf
<1>2. IsFiniteSet(1..N) /\ Cardinality(1..N) = N
  BY FS_Interval
<1>3. IsFiniteSet(S \X (1..N)) /\ Cardinality(S \X (1..N)) = Cardinality(S) * N
  BY <1>2, FS_Product
<1>4. /\ IsFiniteSet(UnitsOf(f)) /\ Cardinality(UnitsOf(f)) <= Cardinality(S \X (1..N))
      /\ Cardinality(UnitsOf(f)) \in Nat /\ Cardinality(S) \in Nat
  BY <1>1, <1>3, FS_Subset, FS_CardinalityType
<1> QED BY <1>3, <1>4 DEF SumOf, UnitsOf

LEMMA SumWithin ==
    ASSUME NEW S, IsFiniteSet(S), NEW N \in Nat, NEW f \in [S -> 0..N],
           NEW T \in SUBSET S, NEW g \in [T -> 0..N], \A x \in T : g[x] <= f[x]
    PROVE  SumOf(g) <= SumOf(f)
<1>1. UnitsOf(g) \in SUBSET UnitsOf(f)
  BY DEF UnitsOf
<1>2. Cardinality(UnitsOf(g)) <= Cardinality(UnitsOf(f))
  BY <1>1, UnitsIn, FS_Subset
<1> QED BY <1>2 DEF SumOf, UnitsOf

LEMMA UnitsOfOne ==
    ASSUME NEW l, NEW n \in Nat
    PROVE  IsFiniteSet({l} \X (1..n)) /\ Cardinality({l} \X (1..n)) = n
<1> DEFINE T == 1..n
<1>1. IsFiniteSet(T) /\ Cardinality(T) = n
  BY FS_Interval
<1>2. IsFiniteSet({l}) /\ Cardinality({l}) = 1
  BY FS_Singleton
<1> HIDE DEF T
<1>3. IsFiniteSet({l} \X T) /\ Cardinality({l} \X T) = Cardinality({l}) * Cardinality(T)
  BY <1>1, <1>2, FS_Product
<1>4. IsFiniteSet({l} \X T) /\ Cardinality({l} \X T) = n
  BY <1>1, <1>2, <1>3
<1> QED BY <1>4 DEF T

LEMMA SumWith ==
    ASSUME NEW S, IsFiniteSet(S), NEW N \in Nat, NEW f \in [S -> 0..N], NEW l \in S
    PROVE  SumOf(f) = SumOf([x \in S \ {l} |-> f[x]]) + f[l]
<1> DEFINE g == [x \in S \ {l} |-> f[x]]
           R == {l} \X (1..f[l])
<1>1. UnitsOf(f) = UnitsOf(g) \cup R /\ UnitsOf(g) \cap R = {}
  BY DEF UnitsOf
<1>2. g \in [S \ {l} -> 0..N] /\ IsFiniteSet(S \ {l})
  BY FS_Difference
<1>3. f[l] \in Nat
  OBVIOUS
<1>4. IsFiniteSet(R) /\ Cardinality(R) = f[l]
  BY <1>3, UnitsOfOne
<1> HIDE DEF g, R
<1>5. IsFiniteSet(UnitsOf(g)) /\ Cardinality(UnitsOf(g)) \in Nat
  BY <1>2, UnitsIn, FS_CardinalityType
<1>6. Cardinality(UnitsOf(g) \cap R) = 0
  BY <1>1, FS_EmptySet
<1>7. Cardinality(UnitsOf(g) \cup R) = Cardinality(UnitsOf(g)) + Cardinality(R) - Cardinality(UnitsOf(g) \cap R)
  BY <1>4, <1>5, FS_Union
<1>8. Cardinality(UnitsOf(f)) = Cardinality(UnitsOf(g)) + f[l]
  BY <1>1, <1>3, <1>4, <1>5, <1>6, <1>7
<1> QED BY <1>8 DEF SumOf, UnitsOf, g

-----------------------------------------------------------------------------
(* Types. *)

LEMMA LinkTyped ==
    ASSUME TypeOK, NEW l \in Links
    PROVE  /\ Have(l) => link[l] \in Stored
           /\ Made(l) => rz[l] \in AtRazorpay
BY DEF TypeOK, Have, Made

(* What a handler holds, by where it is. *)
LEMMA Places ==
    ASSUME TypeOK, NEW h \in Handlers
    PROVE  /\ job[h].at \in {"claim", "post", "lookup"} => job[h] \in Making
           /\ job[h].at \in {"ask", "cancel", "refused", "patch"} => job[h] \in Changing
           /\ job[h].at = "delete" => job[h] \in Deleting
           /\ job[h].at = "save" => job[h] \in Saving
           /\ job[h].at \in {"sync", "tell"} => job[h] \in Telling
           /\ job[h].at = "write" => job[h] \in Writing
           /\ job[h].at = "refund" => job[h] \in Refunding
<1>1. job[h] \in Job
  BY DEF TypeOK
<1> QED BY <1>1 DEF Job, Idle, Making, Changing, Deleting, Saving, Telling, Writing, Refunding

LEMMA OneJob ==
    ASSUME TypeOK, NEW h \in Handlers, NEW j, Goes(h, j)
    PROVE  job'[h] = j /\ \A g \in Handlers \ {h} : job'[g] = job[g]
BY DEF Goes, TypeOK

LEMMA IdleJob == Idle \in Job
BY DEF Job

LEMMA CollectedTyped == ASSUME TypeOK, NEW l \in Links, Have(l) PROVE Collected(l) \in 0..Total
<1>1. link[l] \in Stored
  BY LinkTyped
<1>2. link[l].paid \in {Unknown} \cup 0..Total /\ link[l].amount \in 1..Total
  BY <1>1 DEF Stored
<1> QED BY <1>2, PaymentLinksAssumption DEF Collected, Unknown

LEMMA NetTyped == ASSUME TypeOK PROVE Net \in Sums
<1> DEFINE f == [l \in OnInvoice |-> Collected(l)]
<1>1. f \in [OnInvoice -> 0..Total]
  BY CollectedTyped DEF OnInvoice
<1>2. OnInvoice \in SUBSET Links /\ Refunded \in SUBSET Refunds
  BY DEF OnInvoice, Refunded
<1>3. IsFiniteSet(OnInvoice) /\ Cardinality(OnInvoice) <= Cardinality(Links)
      /\ Cardinality(Links) \in Nat /\ Cardinality(OnInvoice) \in Nat
  BY <1>2, FS_Subset, FS_CardinalityType, PaymentLinksAssumption
<1>4. IsFiniteSet(Refunded) /\ Cardinality(Refunded) \in Nat
  BY <1>2, FS_Subset, FS_CardinalityType, PaymentLinksAssumption
<1>5. Total \in Nat
  BY PaymentLinksAssumption
<1> HIDE DEF f
<1>6. SumOf(f) \in Nat /\ SumOf(f) <= Total * Cardinality(OnInvoice)
  BY <1>1, <1>3, <1>5, UnitsIn
<1>7. \A a, b, t \in Nat : a <= b => t * a <= t * b /\ t * a \in Nat /\ t * b \in Nat
  OBVIOUS
<1>8. /\ Total * Cardinality(OnInvoice) <= Total * Cardinality(Links)
      /\ Total * Cardinality(OnInvoice) \in Nat /\ Total * Cardinality(Links) \in Nat
  BY <1>3, <1>5, <1>7
<1> DEFINE n == SumOf(f) - Cardinality(Refunded)
           top == Total * Cardinality(Links)
<1>9. n \in Int /\ n <= top /\ top \in Nat
  <2>1. SumOf(f) <= top
    BY <1>6, <1>8
  <2> QED BY <1>4, <1>6, <1>8, <2>1
<1> HIDE DEF n, top
<1>10. (IF n < 0 THEN 0 ELSE n) \in 0..top
  BY <1>9
<1>11. Net = IF n < 0 THEN 0 ELSE n
  BY DEF Net, n, f
<1> QED BY <1>10, <1>11 DEF Sums, top

(* A request being carried out has taken its key, and a refund known to be *)
(* on an invoice is known to be on a link.                                 *)
ClaimedBy(j) ==
    /\ j.at \in {"post", "lookup"} => claim[j.q] # NoClaim
    /\ j.at \in {"save", "sync", "write", "tell"} /\ j.q # Nobody => claim[j.q] # NoClaim
    /\ j.at = "refund" /\ j.billed => j.l # Nobody

Claimed == \A h \in Handlers : ClaimedBy(job[h])

LEMMA ClaimedGoes ==
    ASSUME TypeOK, Claimed, NEW h \in Handlers, NEW j, Goes(h, j), ClaimedBy(j)',
           \A q \in Requests : claim[q] # NoClaim => claim'[q] # NoClaim
    PROVE  Claimed'
<1> SUFFICES ASSUME NEW g \in Handlers PROVE ClaimedBy(job[g])'
  BY DEF Claimed
<1>1. CASE g = h
  BY <1>1, OneJob DEF ClaimedBy
<1>2. CASE g # h
  <2>1. job'[g] = job[g] /\ ClaimedBy(job[g])
    BY <1>2, OneJob DEF Claimed
  <2>2. /\ job[g].at \in {"post", "lookup"} => job[g].q \in Requests
        /\ job[g].at \in {"save", "sync", "write", "tell"} => job[g].q \in Requests \cup {Nobody}
    BY Places DEF Making, Saving, Telling, Writing
  <2> QED BY <2>1, <2>2 DEF ClaimedBy
<1> QED BY <1>1, <1>2

Typed == TypeOK /\ Claimed

LEMMA GoesTyped ==
    ASSUME Typed, NEW h \in Handlers, NEW j \in Job, Goes(h, j), ClaimedBy(j)',
           \A q \in Requests : claim[q] # NoClaim => claim'[q] # NoClaim
    PROVE  job' \in [Handlers -> Job] /\ Claimed'
BY ClaimedGoes DEF Typed, TypeOK, Goes

LEMMA EndsTyped ==
    ASSUME Typed, NEW h \in Handlers, Ends(h),
           \A q \in Requests : claim[q] # NoClaim => claim'[q] # NoClaim
    PROVE  job' \in [Handlers -> Job] /\ Claimed'
<1>1. ClaimedBy(Idle)'
  BY DEF ClaimedBy, Idle
<1> QED BY <1>1, IdleJob, GoesTyped DEF Ends

LEMMA LoseTyped ==
    ASSUME TypeOK, Spend \/ UNCHANGED faults
    PROVE  faults' \in 0..MaxFaults
BY PaymentLinksAssumption DEF Spend, TypeOK

LEMMA OutsideTyped == ASSUME Typed, Outside PROVE Typed'
<1>1. UNCHANGED <<kept, claim, job, notes>>
  BY DEF Outside, MakeAtDashboard, Pay, Expire, PayPart, Changes, RefundChanges
<1>2. Claimed'
  BY <1>1 DEF Typed, Claimed, ClaimedBy
<1>3. rz' \in [Links -> AtRazorpay \cup {NotMade}]
  <2>1. ASSUME NEW l \in Links, NEW status \in Statuses, NEW paid \in 0..Total, Changes(l, status, paid)
        PROVE  rz' \in [Links -> AtRazorpay \cup {NotMade}]
    <3>1. rz[l] \in AtRazorpay
      BY <2>1, LinkTyped DEF Typed, Changes
    <3>2. [rz[l] EXCEPT !.status = status, !.paid = paid, !.events = @ \cup {status}] \in AtRazorpay
      BY <3>1 DEF AtRazorpay
    <3>3. rz' = [rz EXCEPT ![l] = [rz[l] EXCEPT !.status = status, !.paid = paid, !.events = @ \cup {status}]]
      BY <2>1, <3>1 DEF Changes, Typed, TypeOK
    <3> QED BY <3>2, <3>3 DEF Typed, TypeOK
  <2>2. ASSUME NEW l \in Links, MakeAtDashboard(l)
        PROVE  rz' \in [Links -> AtRazorpay \cup {NotMade}]
    BY <2>2, PaymentLinksAssumption DEF MakeAtDashboard, AtRazorpay, Statuses, Typed, TypeOK
  <2>3. ASSUME NEW l \in Links, Pay(l) \/ Expire(l) \/ PayPart(l)
        PROVE  rz' \in [Links -> AtRazorpay \cup {NotMade}]
    <3>1. rz[l] \in AtRazorpay
      BY <2>3, LinkTyped DEF Typed, Pay, Expire, PayPart, Changes
    <3>2. rz[l].amount \in 0..Total /\ rz[l].paid \in 0..Total /\ 1 \in 0..Total
      BY <3>1, PaymentLinksAssumption DEF AtRazorpay
    <3> QED BY <2>1, <2>3, <3>2 DEF Pay, Expire, PayPart, Statuses
  <2>4. CASE \E r \in Refunds : RefundChanges(r)
    BY <2>4 DEF RefundChanges, Typed, TypeOK
  <2> QED BY <2>2, <2>3, <2>4 DEF Outside
<1>4. rzRefund' \in [Refunds -> {NotMade} \cup [status : RefundStatus, l : Links]]
  <2>1. ASSUME NEW r \in Refunds, RefundChanges(r)
        PROVE  rzRefund' \in [Refunds -> {NotMade} \cup [status : RefundStatus, l : Links]]
    <3>1. CASE rzRefund[r] = NotMade
      BY <2>1, <3>1 DEF RefundChanges, RefundStatus, Typed, TypeOK
    <3>2. CASE rzRefund[r] # NotMade
      <4>1. rzRefund[r] \in [status : RefundStatus, l : Links]
        BY <3>2 DEF Typed, TypeOK
      <4>2. PICK st \in {"processed", "failed"} : rzRefund' = [rzRefund EXCEPT ![r].status = st]
        BY <2>1, <3>2 DEF RefundChanges
      <4> QED BY <4>1, <4>2 DEF RefundStatus, Typed, TypeOK
    <3> QED BY <3>1, <3>2
  <2>2. ASSUME UNCHANGED rzRefund
        PROVE  rzRefund' \in [Refunds -> {NotMade} \cup [status : RefundStatus, l : Links]]
    BY <2>2 DEF Typed, TypeOK
  <2> QED BY <2>1, <2>2 DEF Outside, MakeAtDashboard, Pay, Expire, PayPart, Changes
<1> QED BY <1>1, <1>2, <1>3, <1>4 DEF Typed, TypeOK, kept, notes

LEMMA JobOnlyTyped ==
    ASSUME Typed, NEW h \in Handlers, NEW j \in Job, Goes(h, j), ClaimedBy(j)',
           UNCHANGED <<there, kept, claim, notes>>
    PROVE  Typed'
<1>1. job' \in [Handlers -> Job] /\ Claimed'
  BY GoesTyped
<1> QED BY <1>1 DEF Typed, TypeOK, there, kept, notes

LEMMA AskedTyped ==
    ASSUME TypeOK, NEW S \in SUBSET OnInvoice
    PROVE  /\ IsFiniteSet(S) /\ Amounts(S) \in [S -> 0..Total]
           /\ SumOf(Amounts(S)) \in Nat
<1>1. IsFiniteSet(S)
  BY FS_Subset, PaymentLinksAssumption DEF OnInvoice
<1>2. \A l \in S : link[l].amount \in 0..Total
  BY LinkTyped, PaymentLinksAssumption DEF OnInvoice, Stored
<1>3. Amounts(S) \in [S -> 0..Total]
  BY <1>2 DEF Amounts
<1> QED BY <1>1, <1>3, UnitsIn, PaymentLinksAssumption

LEMMA OutstandingTyped ==
    ASSUME TypeOK
    PROVE  Asked \in Nat /\ Outstanding \in 0..Total /\ (Outstanding > 0 => Asked + Outstanding = Total)
<1>1. Asked \in Nat
  BY AskedTyped DEF Asked, Committed
<1> QED BY <1>1, PaymentLinksAssumption DEF Outstanding

(* What an event makes of a link. *)
LEMMA EventTyped ==
    ASSUME TypeOK, NEW l \in Links, Made(l), NEW event \in rz[l].events
    PROVE  AfterEvent(l, event) \in Stored /\ event \in Statuses
<1> DEFINE record == IF Have(l) THEN link[l] ELSE FromEvent(l, event)
<1>1. rz[l] \in AtRazorpay
  BY LinkTyped
<1>2. event \in Statuses /\ PaidWhen(l, event) \in 0..Total
  BY <1>1, PaymentLinksAssumption DEF AtRazorpay, PaidWhen
<1>3. record \in Stored
  BY <1>1, <1>2, LinkTyped DEF FromEvent, AtRazorpay, Stored
<1> HIDE DEF record
<1>4. PICK st \in Statuses, paid \in {Unknown} \cup 0..Total :
        AfterEvent(l, event) = [record EXCEPT !.status = st, !.paid = paid]
  <2>1. (IF Have(l) THEN Further(record.status, event) ELSE event) \in Statuses
    BY <1>2, <1>3 DEF Further, Stored
  <2>2. (IF PaidWhen(l, event) >= record.paid THEN PaidWhen(l, event) ELSE record.paid) \in {Unknown} \cup 0..Total
    BY <1>2, <1>3 DEF Stored
  <2>3. AfterEvent(l, event) = [record EXCEPT
           !.status = IF Have(l) THEN Further(@, event) ELSE event,
           !.paid = IF PaidWhen(l, event) >= @ THEN PaidWhen(l, event) ELSE @]
    BY DEF AfterEvent, record
  <2>4. AfterEvent(l, event) = [record EXCEPT
           !.status = IF Have(l) THEN Further(record.status, event) ELSE event,
           !.paid = IF PaidWhen(l, event) >= record.paid THEN PaidWhen(l, event) ELSE record.paid]
    BY <1>3, <2>3 DEF Stored
  <2> QED BY <2>1, <2>2, <2>4
<1> QED BY <1>2, <1>3, <1>4 DEF Stored

LEMMA StartsTyped == ASSUME Typed, NEW h \in Handlers, Starts(h) PROVE Typed'
<1>1. ASSUME NEW q \in Requests, Approve(h, q) PROVE Typed'
  <2>1. PICK amount \in 1..Outstanding : Goes(h, [at |-> "claim", q |-> q, amount |-> amount])
    BY <1>1 DEF Approve, Begins, Goes
  <2>2. amount \in 1..Total
    BY OutstandingTyped, PaymentLinksAssumption DEF Typed
  <2>3. [at |-> "claim", q |-> q, amount |-> amount] \in Job
    BY <2>2 DEF Job, Making
  <2>4. ClaimedBy([at |-> "claim", q |-> q, amount |-> amount])'
    BY DEF ClaimedBy
  <2> QED BY <1>1, <2>1, <2>3, <2>4, JobOnlyTyped DEF Approve
<1>2. ASSUME NEW l \in Links, NEW at \in {"ask", "patch"}, Reads(h, l, at) PROVE Typed'
  <2> DEFINE j == [at |-> at, l |-> l, copy |-> link[l]]
  <2>1. j \in Job /\ Goes(h, j) /\ j.at = at
    BY <1>2, LinkTyped DEF Reads, Begins, Goes, Job, Changing, Typed
  <2> HIDE DEF j
  <2> QED BY <1>2, <2>1, JobOnlyTyped DEF Reads, ClaimedBy
<1>3. ASSUME NEW l \in Links, Remove(h, l) PROVE Typed'
  <2>1. ASSUME NEW j \in Job, j.at \in {"cancel", "delete"}, Goes(h, j) PROVE Typed'
    BY <1>3, <2>1, JobOnlyTyped DEF Remove, ClaimedBy
  <2>2. /\ [at |-> "cancel", l |-> l, copy |-> link[l]] \in Job
        /\ [at |-> "delete", l |-> l] \in Job
    BY <1>3, LinkTyped DEF Remove, Job, Changing, Deleting, Typed
  <2> QED BY <1>3, <2>1, <2>2 DEF Remove, Begins, Goes
<1>4. ASSUME NEW l \in Links, NEW event \in Statuses, Deliver(h, l, event) PROVE Typed'
  <2> DEFINE j == [at |-> "save", l |-> l, copy |-> AfterEvent(l, event),
                   news |-> IsNews(l, event), q |-> Nobody]
  <2>1. AfterEvent(l, event) \in Stored
    BY <1>4, EventTyped DEF Deliver, Typed
  <2>2. IsNews(l, event) \in BOOLEAN
    BY DEF IsNews
  <2>3. j \in Job
    BY <2>1, <2>2 DEF Job, Saving
  <2>4. Goes(h, j) /\ j.at = "save" /\ j.q = Nobody
    BY <1>4 DEF Deliver, Begins, Goes
  <2> HIDE DEF j
  <2> QED BY <1>4, <2>3, <2>4, JobOnlyTyped DEF Deliver, ClaimedBy
<1>5. ASSUME NEW r \in Refunds, FindRefund(h, r) PROVE Typed'
  <2>1. rzRefund[r] \in [status : RefundStatus, l : Links]
    BY <1>5 DEF FindRefund, Typed, TypeOK
  <2> DEFINE l == rzRefund[r].l
             on == IF l \in indexed THEN l ELSE Nobody
             billed == l \in indexed /\ link[l].billed
  <2>2. PICK status \in {"pending", rzRefund[r].status} :
          Goes(h, [at |-> "refund", r |-> r, status |-> status, l |-> on, billed |-> billed])
    BY <1>5 DEF FindRefund, Begins, Goes
  <2> DEFINE j == [at |-> "refund", r |-> r, status |-> status, l |-> on, billed |-> billed]
  <2>3. status \in RefundStatus /\ on \in Links \cup {Nobody} /\ billed \in BOOLEAN
    BY <2>1 DEF RefundStatus
  <2>4. billed => on # Nobody
    BY <2>1, PaymentLinksAssumption DEF Nobody
  <2> HIDE DEF on, billed
  <2>5. j \in Job /\ j.at = "refund" /\ (j.billed => j.l # Nobody)
    BY <2>3, <2>4 DEF Job, Refunding
  <2> HIDE DEF j
  <2>6. Goes(h, j)
    BY <2>2 DEF j
  <2> QED BY <1>5, <2>5, <2>6, JobOnlyTyped DEF FindRefund, ClaimedBy
<1> QED BY <1>1, <1>2, <1>3, <1>4, <1>5 DEF Starts, Check, Recheck, Extend

(* A link just made, or found made, is stored with its request's key. *)
LEMMA StoringTyped ==
    ASSUME NEW l \in Links, NEW q \in Requests, NEW amount \in 1..Total, rz'[l].status \in Statuses
    PROVE  /\ Storing(l, q, amount) \in Job
           /\ Storing(l, q, amount).at = "save" /\ Storing(l, q, amount).q = q
BY DEF Storing, NewRecord, Job, Saving, Stored

(* A post that makes a link makes one that was not there. *)
Makes(h, q, amount, l) ==
    /\ ~Made(l) /\ MadeFor(q) = {}
    /\ rz' = [rz EXCEPT ![l] = [status |-> "created", amount |-> amount,
                                paid |-> 0, by |-> q, events |-> {}]]
    /\ \/ Goes(h, Storing(l, q, amount)) /\ UNCHANGED notes
       \/ Goes(h, [job[h] EXCEPT !.at = "lookup"]) /\ Lose

LEMMA PostMakes ==
    ASSUME NEW h \in Handlers, Post(h)
    PROVE  \/ Goes(h, [job[h] EXCEPT !.at = "lookup"]) /\ UNCHANGED <<rz, notes>>
           \/ \E l \in Links : Makes(h, job[h].q, job[h].amount, l)
<1> DEFINE free == {l \in Links : ~Made(l)}
<1>1. CASE MadeFor(job[h].q) = {} /\ free # {}
  <2>1. (CHOOSE x \in free : TRUE) \in free
    BY <1>1
  <2>2. Makes(h, job[h].q, job[h].amount, CHOOSE x \in free : TRUE)
    BY <1>1, <2>1 DEF Post, Makes
  <2> QED BY <2>1, <2>2
<1>2. CASE ~(MadeFor(job[h].q) = {} /\ free # {})
  BY <1>2 DEF Post
<1> QED BY <1>1, <1>2

LEMMA MakingTyped ==
    ASSUME Typed, NEW h \in Handlers, Claim(h) \/ Post(h) \/ Lookup(h) \/ PostFails(h)
    PROVE  Typed'
<1>0. PICK q \in Requests, amount \in 1..Total :
        job[h] \in Making /\ job[h].q = q /\ job[h].amount = amount
  BY Places DEF Typed, Claim, Post, Lookup, PostFails, Making
<1>1. CASE Claim(h)
  <2>1. CASE Ends(h) /\ UNCHANGED claim
    <3>1. job' \in [Handlers -> Job] /\ Claimed'
      BY <2>1, EndsTyped
    <3> QED BY <1>1, <2>1, <3>1 DEF Claim, Typed, TypeOK, there, kept, notes
  <2>2. CASE ~(Ends(h) /\ UNCHANGED claim)
    <3> DEFINE j == [job[h] EXCEPT !.at = "post"]
    <3>1. /\ Goes(h, j)
          /\ claim' = IF claim[q].status = "done" THEN claim
                      ELSE [claim EXCEPT ![q] = [status |-> "pending", amount |-> amount]]
      BY <1>0, <1>1, <2>2 DEF Claim
    <3>2. j \in Job /\ j.at = "post" /\ j.q = q
      BY <1>0 DEF Job, Making
    <3> HIDE DEF j
    <3>3. claim'[q] # NoClaim /\ \A p \in Requests : claim[p] # NoClaim => claim'[p] # NoClaim
      BY <3>1 DEF Typed, TypeOK, NoClaim
    <3>4. job' \in [Handlers -> Job] /\ Claimed'
      BY <3>1, <3>2, <3>3, GoesTyped DEF ClaimedBy
    <3>5. claim' \in [Requests -> {NoClaim} \cup
                    [status : {"pending", "failed"}, amount : 1..Total] \cup
                    [status : {"done"}, amount : 1..Total, l : Links]]
      BY <3>1 DEF Typed, TypeOK
    <3> QED BY <1>1, <3>4, <3>5 DEF Claim, Typed, TypeOK, there, kept, notes
  <2> QED BY <2>1, <2>2
<1>2. ASSUME Fails(h), UNCHANGED there, UNCHANGED kept,
             UNCHANGED notes \/ Lose
      PROVE  Typed'
  <2>1. claim' = [claim EXCEPT ![q] = [status |-> "failed", amount |-> amount]] /\ Ends(h)
    BY <1>0, <1>2 DEF Fails
  <2>2. \A p \in Requests : claim[p] # NoClaim => claim'[p] # NoClaim
    BY <2>1 DEF Typed, TypeOK, NoClaim
  <2>3. job' \in [Handlers -> Job] /\ Claimed'
    BY <2>1, <2>2, EndsTyped
  <2>4. claim' \in [Requests -> {NoClaim} \cup
                  [status : {"pending", "failed"}, amount : 1..Total] \cup
                  [status : {"done"}, amount : 1..Total, l : Links]]
    BY <2>1 DEF Typed, TypeOK
  <2>5. UNCHANGED <<announced, torn>> /\ faults' \in 0..MaxFaults
    BY <1>2, LoseTyped DEF Lose, notes, Typed, TypeOK
  <2> QED BY <1>2, <2>3, <2>4, <2>5 DEF Typed, TypeOK, there, kept
<1>3. CASE PostFails(h)
  BY <1>2, <1>3 DEF PostFails
<1>4. ASSUME NEW j \in Job, Goes(h, j), j.at \in {"lookup", "save"}, j.q = q, claim[q] # NoClaim,
             UNCHANGED <<rzRefund, kept, claim>>, UNCHANGED notes \/ Lose,
             rz' \in [Links -> AtRazorpay \cup {NotMade}]
      PROVE  Typed'
  <2>1. job' \in [Handlers -> Job] /\ Claimed'
    BY <1>4, GoesTyped DEF ClaimedBy
  <2>2. UNCHANGED <<announced, torn>> /\ faults' \in 0..MaxFaults
    BY <1>4, LoseTyped DEF Lose, notes, Typed, TypeOK
  <2> QED BY <1>4, <2>1, <2>2 DEF Typed, TypeOK, kept
<1>5. claim[q] # NoClaim \/ ~(Post(h) \/ Lookup(h))
  BY <1>0 DEF Typed, Claimed, ClaimedBy, Post, Lookup
<1>6. CASE Lookup(h)
  <2>1. CASE Fails(h)
    BY <1>2, <1>6, <2>1 DEF Lookup
  <2>2. CASE ~Fails(h)
    <3>1. PICK l \in MadeFor(q) : Goes(h, Storing(l, q, amount))
      BY <1>0, <1>6, <2>2 DEF Lookup
    <3>2. l \in Links /\ rz'[l] = rz[l] /\ rz[l].status \in Statuses
      BY <1>6, LinkTyped DEF MadeFor, Lookup, there, Typed, AtRazorpay
    <3> QED BY <1>4, <1>5, <1>6, <2>2, <3>1, <3>2, StoringTyped DEF Lookup, there, Typed, TypeOK
  <2> QED BY <2>1, <2>2
<1>7. CASE Post(h)
  <2>1. [job[h] EXCEPT !.at = "lookup"] \in Job
        /\ [job[h] EXCEPT !.at = "lookup"].at = "lookup" /\ [job[h] EXCEPT !.at = "lookup"].q = q
    BY <1>0 DEF Job, Making
  <2>2. CASE Goes(h, [job[h] EXCEPT !.at = "lookup"]) /\ UNCHANGED <<rz, notes>>
    BY <1>4, <1>5, <1>7, <2>1, <2>2 DEF Post, Typed, TypeOK
  <2>3. ASSUME NEW l \in Links, Makes(h, q, amount, l) PROVE Typed'
    <3>1. rz' \in [Links -> AtRazorpay \cup {NotMade}] /\ rz'[l].status \in Statuses
      BY <2>3, PaymentLinksAssumption DEF Makes, AtRazorpay, Statuses, Typed, TypeOK
    <3>2. UNCHANGED <<rzRefund, kept, claim>> /\ claim[q] # NoClaim
      BY <1>5, <1>7 DEF Post
    <3>3. CASE Goes(h, Storing(l, q, amount)) /\ UNCHANGED notes
      BY <1>4, <3>1, <3>2, <3>3, StoringTyped
    <3>4. CASE Goes(h, [job[h] EXCEPT !.at = "lookup"]) /\ Lose
      BY <1>4, <2>1, <3>1, <3>2, <3>4
    <3> QED BY <2>3, <3>3, <3>4 DEF Makes
  <2> QED BY <1>0, <1>7, <2>2, <2>3, PostMakes
<1> QED BY <1>1, <1>3, <1>6, <1>7

LEMMA AfterTyped ==
    ASSUME Typed, NEW h \in Handlers, job[h].at \in {"save", "sync", "write"},
           NEW at \in {"sync", "tell"}, UNCHANGED claim, Goes(h, After(h, at))
    PROVE  job' \in [Handlers -> Job] /\ Claimed'
<1>1. job[h].l \in Links /\ job[h].news \in BOOLEAN /\ job[h].q \in Requests \cup {Nobody}
  BY Places DEF Typed, Saving, Telling, Writing
<1>2. After(h, at) \in Job
  BY <1>1 DEF After, Job, Telling
<1>3. job[h].q # Nobody => claim'[job[h].q] # NoClaim
  BY DEF Typed, Claimed, ClaimedBy
<1>4. PICK j \in Job : j = After(h, at)
  BY <1>2
<1>5. j.at = at /\ j.q = job[h].q
  BY <1>4 DEF After
<1>6. ClaimedBy(j)'
  BY <1>3, <1>5 DEF ClaimedBy
<1>7. Goes(h, j)
  BY <1>4
<1> QED BY <1>6, <1>7, GoesTyped

LEMMA SaveTyped == ASSUME Typed, NEW h \in Handlers, Save(h) PROVE Typed'
<1>1. job[h] \in Saving
  BY Places DEF Typed, Save
<1>2. /\ link' \in [Links -> Stored \cup {NoLink}]
      /\ indexed' \in SUBSET Links
  BY <1>1 DEF Save, Saving, Typed, TypeOK
<1>3. job' \in [Handlers -> Job] /\ Claimed'
  BY AfterTyped DEF Save
<1> QED BY <1>2, <1>3 DEF Save, Typed, TypeOK, there, notes

LEMMA TellingTyped ==
    ASSUME Typed, NEW h \in Handlers, Sync(h) \/ Write(h) \/ SyncFails(h)
    PROVE  Typed'
<1>1. /\ UNCHANGED <<there, link, indexed, refund, claim, announced>>
      /\ \/ UNCHANGED <<torn, faults>>
         \/ (torn' = TRUE /\ Spend)
  BY DEF Sync, Write, SyncFails, kept, notes
<1>2. faults' \in 0..MaxFaults /\ torn' \in BOOLEAN
  BY <1>1, LoseTyped DEF Typed, TypeOK
<1>3. shown' \in Sums
  BY Places DEF Sync, Write, SyncFails, kept, Writing, Typed, TypeOK
<1>4. job' \in [Handlers -> Job] /\ Claimed'
  <2>1. CASE Goes(h, After(h, "tell"))
    BY <1>1, <2>1, AfterTyped DEF Sync, Write, SyncFails
  <2>2. CASE ~Goes(h, After(h, "tell"))
    <3> DEFINE j == [l |-> job[h].l, news |-> job[h].news, q |-> job[h].q, at |-> "write", sum |-> Net]
    <3>1. Sync(h) /\ Goes(h, j)
      BY <2>2 DEF Sync, Write, SyncFails
    <3>2. job[h] \in Telling /\ job[h].at = "sync"
      BY <3>1, Places DEF Sync, Typed
    <3>3. j \in Job /\ j.at = "write" /\ j.q = job[h].q
      BY <3>2, NetTyped DEF Telling, Job, Writing, Typed
    <3> HIDE DEF j
    <3>4. job[h].q # Nobody => claim'[job[h].q] # NoClaim
      BY <1>1, <3>2 DEF Typed, Claimed, ClaimedBy
    <3> QED BY <1>1, <3>1, <3>3, <3>4, GoesTyped DEF ClaimedBy
  <2> QED BY <2>1, <2>2
<1> QED BY <1>1, <1>2, <1>3, <1>4 DEF Typed, TypeOK, there

LEMMA TellTyped == ASSUME Typed, NEW h \in Handlers, Tell(h) PROVE Typed'
<1>1. job[h].l \in Links /\ job[h].q \in Requests \cup {Nobody}
  BY Places DEF Tell, Telling, Typed
<1>2. job[h].q # Nobody => claim[job[h].q] # NoClaim
  BY DEF Tell, Typed, Claimed, ClaimedBy
<1>3. job[h].q # Nobody => claim[job[h].q].amount \in 1..Total
  BY <1>1, <1>2 DEF Typed, TypeOK
<1>4. claim' \in [Requests -> {NoClaim} \cup
                [status : {"pending", "failed"}, amount : 1..Total] \cup
                [status : {"done"}, amount : 1..Total, l : Links]]
  BY <1>1, <1>3 DEF Tell, Typed, TypeOK
<1>5. \A q \in Requests : claim[q] # NoClaim => claim'[q] # NoClaim
  BY <1>1 DEF Tell, NoClaim, Typed, TypeOK
<1>6. announced' \in [Links -> 0..2]
  BY <1>1 DEF Tell, Typed, TypeOK
<1>7. job' \in [Handlers -> Job] /\ Claimed'
  BY <1>5, EndsTyped DEF Tell
<1> QED BY <1>4, <1>6, <1>7 DEF Tell, Typed, TypeOK, there, kept

LEMMA AnswerTyped ==
    ASSUME TypeOK, NEW h \in Handlers, job[h] \in Changing, Made(job[h].l), NEW news \in BOOLEAN
    PROVE  [at |-> "save", l |-> job[h].l, copy |-> Answered(job[h].copy, job[h].l),
            news |-> news, q |-> Nobody] \in Job
<1>1. rz[job[h].l] \in AtRazorpay
  BY LinkTyped DEF Changing
<1>2. Answered(job[h].copy, job[h].l) \in Stored
  BY <1>1 DEF Answered, Changing, AtRazorpay, Stored
<1> QED BY <1>2 DEF Job, Saving, Changing

-----------------------------------------------------------------------------
(* What is believed of a link, whoever holds it, is behind Razorpay: not   *)
(* further than it, with no more paid, and right about how it ended.       *)

Final == {"expired", "cancelled", "paid"}

Behind(c, l) ==
    /\ Rank(c.status) <= Rank(rz[l].status)
    /\ c.status \in Final => rz[l].status = c.status
    /\ c.paid <= rz[l].paid
    /\ c.billed => rz[l].by # Nobody

(* A link at Razorpay has sent the events of what it has been, and a link  *)
(* made by a request is paid whole or not at all.                          *)
Consistent(l) ==
    /\ rz[l].paid <= rz[l].amount /\ (rz[l].status = "created" => rz[l].paid = 0)
    /\ \A e \in rz[l].events :
         /\ Rank(e) <= Rank(rz[l].status)
         /\ e \in Final => rz[l].status = e
         /\ e = "partially_paid" => 1 <= rz[l].paid
    /\ rz[l].by # Nobody /\ rz[l].status # "paid" => rz[l].paid = 0 /\ rz[l].status # "partially_paid"
    /\ rz[l].by # Nobody => "partially_paid" \notin rz[l].events

HoldsTrue(j) ==
    /\ j.at \in {"ask", "cancel", "refused", "patch", "save"} => Made(j.l) /\ Behind(j.copy, j.l)
    /\ j.at = "delete" => Made(j.l) /\ rz[j.l].status \in {"expired", "cancelled"}

Told ==
    /\ \A l \in Links : Made(l) => Consistent(l)
    /\ \A l \in Links : Have(l) => Made(l) /\ Behind(link[l], l)
    /\ \A h \in Handlers : HoldsTrue(job[h])

(* What is known of Razorpay does not come undone when it changes: a link  *)
(* that has ended stays as it ended, and no payment is taken back.         *)
Grows(l) ==
    /\ Rank(rz[l].status) <= Rank(rz'[l].status)
    /\ rz[l].status \in Final => rz'[l].status = rz[l].status
    /\ rz[l].paid <= rz'[l].paid /\ rz[l].by = rz'[l].by

AllGrow == \A l \in Links : Made(l) => Made(l)' /\ Grows(l)

LEMMA Ranks ==
    \A s, t \in Statuses :
        /\ Rank(s) \in 0..3
        /\ s \in Final /\ Rank(s) <= Rank(t) /\ t \notin Final => FALSE
        /\ Further(s, t) \in {s, t} /\ Rank(s) <= Rank(Further(s, t)) /\ Rank(t) <= Rank(Further(s, t))
BY DEF Rank, Statuses, Final, Further

LEMMA StillBehind ==
    ASSUME TypeOK, TypeOK', AllGrow, NEW l \in Links, Made(l), NEW c \in Stored, Behind(c, l)
    PROVE  Made(l)' /\ Behind(c, l)'
<1>1. rz[l] \in AtRazorpay /\ rz'[l] \in AtRazorpay
  BY LinkTyped DEF AllGrow, TypeOK, Made
<1>2. rz[l].status \in Statuses /\ rz'[l].status \in Statuses /\ c.status \in Statuses
  BY <1>1 DEF AtRazorpay, Stored
<1>3. Rank(c.status) \in Int /\ Rank(rz[l].status) \in Int /\ Rank(rz'[l].status) \in Int
  BY <1>2, Ranks
<1>4. c.paid \in Int /\ rz[l].paid \in Int /\ rz'[l].paid \in Int
  BY <1>1 DEF AtRazorpay, Stored, Unknown
<1>5. Grows(l) /\ Made(l)'
  BY DEF AllGrow
<1> QED BY <1>2, <1>3, <1>4, <1>5 DEF Grows, Behind

LEMMA HeldStays ==
    ASSUME TypeOK, TypeOK', AllGrow, NEW j \in Job, HoldsTrue(j)
    PROVE  HoldsTrue(j)'
<1>1. CASE j.at \in {"ask", "cancel", "refused", "patch", "save"}
  <2>1. j.l \in Links /\ j.copy \in Stored
    BY <1>1 DEF Job, Idle, Making, Changing, Deleting, Saving, Telling, Writing, Refunding
  <2> QED BY <1>1, <2>1, StillBehind DEF HoldsTrue
<1>2. CASE j.at = "delete"
  <2>1. j.l \in Links
    BY <1>2 DEF Job, Idle, Making, Changing, Deleting, Saving, Telling, Writing, Refunding
  <2> QED BY <1>2, <2>1 DEF HoldsTrue, AllGrow, Grows, Final
<1> QED BY <1>1, <1>2 DEF HoldsTrue

LEMMA HeldGoes ==
    ASSUME TypeOK, TypeOK', Told, AllGrow, NEW h \in Handlers, NEW j, Goes(h, j), HoldsTrue(j)'
    PROVE  \A g \in Handlers : HoldsTrue(job[g])'
<1> SUFFICES ASSUME NEW g \in Handlers PROVE HoldsTrue(job[g])'
  OBVIOUS
<1>1. CASE g = h
  BY <1>1, OneJob DEF HoldsTrue
<1>2. CASE g # h
  <2>1. PICK k \in Job : k = job[g]
    BY DEF TypeOK
  <2>2. job'[g] = k /\ HoldsTrue(k)
    BY <1>2, <2>1, OneJob DEF Told
  <2>3. HoldsTrue(k)'
    BY <2>2, HeldStays
  <2> QED BY <2>2, <2>3 DEF HoldsTrue
<1> QED BY <1>1, <1>2

StillSound == AllGrow /\ \A m \in Links : Made(m)' => Consistent(m)'

(* What a change of a link at Razorpay makes of it. *)
Turns(l, status, paid) ==
    /\ rz[l] \in AtRazorpay /\ rz[l].status \in Open
    /\ rz' = [rz EXCEPT ![l] = [rz[l] EXCEPT !.status = status, !.paid = paid,
                                            !.events = @ \cup {status}]]

(* A new link, or one Razorpay changes: what is true of it stays so. *)
LEMMA ChangesTold ==
    ASSUME TypeOK, Told, NEW l \in Links, NEW status \in Statuses, NEW paid \in Nat,
           Turns(l, status, paid), Rank(rz[l].status) <= Rank(status),
           rz[l].paid <= paid, paid <= rz[l].amount,
           status = "partially_paid" => 1 <= paid /\ rz[l].by = Nobody, status # "created",
           rz[l].by # Nobody /\ status # "paid" => paid = rz[l].paid
    PROVE  StillSound
<1>0. rz[l] \in AtRazorpay /\ rz[l].status \in Open
  BY DEF Turns
<1>1. \A m \in Links \ {l} : rz'[m] = rz[m]
  BY DEF Turns, TypeOK
<1>2. rz'[l] = [rz[l] EXCEPT !.status = status, !.paid = paid, !.events = @ \cup {status}]
  BY DEF Turns, TypeOK
<1>3. /\ rz'[l].status = status /\ rz'[l].paid = paid /\ rz'[l].by = rz[l].by
      /\ rz'[l].amount = rz[l].amount /\ rz'[l].events = rz[l].events \cup {status}
      /\ Made(l) /\ Made(l)'
  <2>1. rz[l].status # "none" /\ status # "none"
    BY <1>0 DEF Open, Statuses
  <2>2. /\ rz'[l].status = status /\ rz'[l].paid = paid /\ rz'[l].by = rz[l].by
        /\ rz'[l].amount = rz[l].amount /\ rz'[l].events = rz[l].events \cup {status}
    BY <1>0, <1>2 DEF AtRazorpay
  <2>3. NotMade.status = "none"
    BY DEF NotMade
  <2> QED BY <2>1, <2>2, <2>3 DEF Made
<1>4. Consistent(l) /\ \A m \in Links : Made(m) => Consistent(m)
  BY <1>3 DEF Told
<1>5. \A e \in rz[l].events : e \in Statuses
  BY <1>0 DEF AtRazorpay
<1>6. AllGrow
  <2> SUFFICES ASSUME NEW m \in Links, Made(m) PROVE Made(m)' /\ Grows(m)
    BY DEF AllGrow
  <2>1. CASE m = l
    BY <1>0, <1>3, <2>1 DEF Grows, Open, Final
  <2>2. CASE m # l
    <3>1. Rank(rz[m].status) \in Int /\ rz[m].paid \in Int
      BY LinkTyped, Ranks DEF AtRazorpay
    <3> QED BY <1>1, <2>2, <3>1 DEF Grows, Made
  <2> QED BY <2>1, <2>2
<1>7. Consistent(l)'
  <2>1. \A e \in rz[l].events : e \notin Final /\ Rank(e) <= Rank(rz[l].status)
    BY <1>0, <1>4 DEF Consistent, Open, Final
  <2>2. \A e \in rz[l].events : Rank(e) <= Rank(status)
    BY <1>0, <1>5, <2>1, Ranks DEF Open, Statuses
  <2>3. \A e \in rz[l].events : e = "partially_paid" => 1 <= paid
    BY <1>0, <1>4 DEF Consistent, AtRazorpay
  <2>4. Rank(status) <= Rank(status)
    BY Ranks
  <2>5. rz[l].by # Nobody => "partially_paid" \notin rz[l].events /\ rz[l].paid = 0 /\ status # "partially_paid"
    BY <1>0, <1>4 DEF Consistent, Open
  <2> QED BY <1>3, <2>1, <2>2, <2>3, <2>4, <2>5 DEF Consistent, Final
<1>8. \A m \in Links \ {l} : Made(m)' => Consistent(m)'
  BY <1>1, <1>4 DEF Made, Consistent
<1> QED BY <1>6, <1>7, <1>8 DEF StillSound

LEMMA NewLinkTold ==
    ASSUME TypeOK, Told, NEW l \in Links, ~Made(l), NEW amount \in 1..Total,
           NEW by \in Requests \cup {Nobody},
           rz' = [rz EXCEPT ![l] = [status |-> "created", amount |-> amount, paid |-> 0,
                                    by |-> by, events |-> {}]]
    PROVE  StillSound
<1>1. /\ rz'[l] = [status |-> "created", amount |-> amount, paid |-> 0, by |-> by, events |-> {}]
      /\ \A m \in Links \ {l} : rz'[m] = rz[m]
  BY DEF TypeOK
<1>2. Consistent(l)'
  BY <1>1 DEF Consistent
<1>3. \A m \in Links \ {l} : Made(m)' => Consistent(m)'
  BY <1>1 DEF Told, Made, Consistent
<1>4. \A m \in Links : Made(m) => Rank(rz[m].status) \in Int /\ rz[m].paid \in Int
  BY LinkTyped, Ranks DEF AtRazorpay
<1> QED BY <1>1, <1>2, <1>3, <1>4 DEF StillSound, AllGrow, Grows, Made

LEMMA RecordsStay ==
    ASSUME TypeOK, TypeOK', Told, AllGrow, UNCHANGED link
    PROVE  \A l \in Links : Have(l)' => Made(l)' /\ Behind(link[l], l)'
<1> SUFFICES ASSUME NEW l \in Links, Have(l)' PROVE Made(l)' /\ Behind(link[l], l)'
  OBVIOUS
<1>1. Have(l) /\ link'[l] = link[l]
  BY DEF Have
<1>2. PICK c \in Stored : c = link[l]
  BY <1>1, LinkTyped
<1>3. Made(l) /\ Behind(c, l)
  BY <1>1, <1>2 DEF Told
<1>4. Made(l)' /\ Behind(c, l)'
  BY <1>3, StillBehind
<1> QED BY <1>1, <1>2, <1>4 DEF Behind

(* A step that leaves Razorpay alone. *)
LEMMA SameRazorpay ==
    ASSUME TypeOK, Told, UNCHANGED rz
    PROVE  StillSound
<1>1. \A m \in Links : Made(m) => Rank(rz[m].status) \in Int /\ rz[m].paid \in Int
  BY LinkTyped, Ranks DEF AtRazorpay
<1> QED BY <1>1 DEF Told, StillSound, AllGrow, Grows, Made, Consistent

LEMMA OutsideGrows == ASSUME Typed, Told, Outside PROVE StillSound
<1>0. TypeOK /\ TypeOK'
  BY OutsideTyped DEF Typed
<1>1. ASSUME NEW l \in Links, MakeAtDashboard(l) PROVE StillSound
  <2>1. Total \in 1..Total
    BY PaymentLinksAssumption
  <2> QED BY <1>0, <1>1, <2>1, NewLinkTold DEF MakeAtDashboard
<1>2. ASSUME NEW l \in Links, Pay(l) \/ Expire(l) \/ PayPart(l) PROVE StillSound
  <2>1. Made(l) /\ rz[l].status \in Open /\ rz[l] \in AtRazorpay
    BY <1>0, <1>2, LinkTyped DEF Pay, Expire, PayPart, Changes
  <2>2. /\ rz[l].amount \in 1..Total /\ rz[l].paid \in 0..Total /\ rz[l].paid <= rz[l].amount
        /\ rz[l].by # Nobody => rz[l].paid = 0
    BY <2>1 DEF Told, Consistent, AtRazorpay, Open
  <2>3. Rank(rz[l].status) \in 0..1 /\ (rz[l].status = "created" => Rank(rz[l].status) = 0)
        /\ Rank("paid") = 3 /\ Rank("expired") = 2 /\ Rank("partially_paid") = 1
    BY <2>1 DEF Rank, Open
  <2>4. ASSUME NEW status \in Statuses, NEW paid, Changes(l, status, paid)
        PROVE  Turns(l, status, paid)
    BY <1>0, <2>1, <2>4 DEF Changes, Turns, TypeOK
  <2>5. CASE Pay(l)
    <3>1. Turns(l, "paid", rz[l].amount) /\ rz[l].amount \in Nat
      BY <2>2, <2>4, <2>5 DEF Pay, Statuses
    <3> QED BY <3>1, <1>0, <2>1, <2>2, <2>3, <2>4, <2>5, ChangesTold DEF Pay, Statuses
  <2>6. CASE Expire(l)
    <3>1. Turns(l, "expired", rz[l].paid) /\ rz[l].paid \in Nat
      BY <2>2, <2>4, <2>6 DEF Expire, Statuses
    <3> QED BY <3>1, <1>0, <2>1, <2>2, <2>3, <2>4, <2>6, ChangesTold DEF Expire, Statuses
  <2>7. CASE PayPart(l)
    <3>1. rz[l].paid = 0 /\ rz[l].by = Nobody /\ 1 <= rz[l].amount
      BY <2>7, <1>0, <2>1, <2>2 DEF PayPart, Told, Consistent
    <3>2. Turns(l, "partially_paid", 1)
      BY <2>4, <2>7 DEF PayPart, Statuses
    <3> QED BY <3>2, <1>0, <2>1, <2>2, <2>3, <2>4, <2>7, <3>1, ChangesTold DEF PayPart, Statuses
  <2> QED BY <1>2, <2>5, <2>6, <2>7
<1>3. CASE UNCHANGED rz
  BY <1>0, <1>3, SameRazorpay
<1> QED BY <1>1, <1>2, <1>3 DEF Outside, RefundChanges

LEMMA OutsideTold == ASSUME Typed, Told, Outside PROVE Told'
<1>1. TypeOK /\ TypeOK'
  BY OutsideTyped DEF Typed
<1>2. UNCHANGED <<link, job>>
  BY DEF Outside, MakeAtDashboard, Pay, Expire, PayPart, Changes, RefundChanges, kept
<1>3. StillSound
  BY OutsideGrows
<1>4. \A g \in Handlers : HoldsTrue(job[g])'
  <2> SUFFICES ASSUME NEW g \in Handlers PROVE HoldsTrue(job[g])'
    OBVIOUS
  <2>1. PICK k \in Job : k = job[g]
    BY <1>1 DEF TypeOK
  <2>2. job'[g] = k /\ HoldsTrue(k)
    BY <1>2, <2>1 DEF Told
  <2>3. HoldsTrue(k)'
    BY <1>1, <1>3, <2>2, HeldStays DEF StillSound
  <2> QED BY <2>2, <2>3 DEF HoldsTrue
<1>5. \A l \in Links : Have(l)' => Made(l)' /\ Behind(link[l], l)'
  BY <1>1, <1>2, <1>3, RecordsStay DEF StillSound
<1> QED BY <1>3, <1>4, <1>5 DEF Told, StillSound

LEMMA StepTold ==
    ASSUME TypeOK, TypeOK', Told, StillSound, NEW h \in Handlers, NEW j, Goes(h, j), HoldsTrue(j)',
           UNCHANGED link
    PROVE  Told'
<1>1. \A g \in Handlers : HoldsTrue(job[g])'
  BY HeldGoes DEF StillSound
<1>2. \A l \in Links : Have(l)' => Made(l)' /\ Behind(link[l], l)'
  BY RecordsStay DEF StillSound
<1> QED BY <1>1, <1>2 DEF Told, StillSound

LEMMA EndsTold ==
    ASSUME TypeOK, TypeOK', Told, StillSound, NEW h \in Handlers, Ends(h), UNCHANGED link
    PROVE  Told'
<1>1. HoldsTrue(Idle)'
  BY DEF HoldsTrue, Idle
<1> QED BY <1>1, StepTold DEF Ends

(* What an event says of a link is behind Razorpay too. *)
LEMMA EventBehind ==
    ASSUME TypeOK, Told, NEW l \in Links, Made(l), NEW event \in rz[l].events
    PROVE  Behind(AfterEvent(l, event), l)
<1> DEFINE record == IF Have(l) THEN link[l] ELSE FromEvent(l, event)
<1>1. rz[l] \in AtRazorpay /\ Consistent(l)
  BY LinkTyped DEF Told
<1>2. event \in Statuses /\ rz[l].paid \in Nat /\ rz[l].status \in Statuses
  BY <1>1 DEF AtRazorpay
<1>3. /\ Rank(event) <= Rank(rz[l].status) /\ (event \in Final => rz[l].status = event)
      /\ PaidWhen(l, event) <= rz[l].paid /\ PaidWhen(l, event) \in Nat
  BY <1>1, <1>2 DEF Consistent, PaidWhen
<1>4. record \in Stored /\ Behind(record, l)
  BY <1>1, <1>2, <1>3, LinkTyped DEF FromEvent, AtRazorpay, Stored, Told, Behind, Unknown
<1>5. record.paid \in Int
  BY <1>4 DEF Stored, Unknown
<1> HIDE DEF record
<1>6. PICK st \in {record.status, event}, paid \in {record.paid, PaidWhen(l, event)} :
        AfterEvent(l, event) = [record EXCEPT !.status = st, !.paid = paid]
  <2>1. (IF Have(l) THEN Further(record.status, event) ELSE event) \in {record.status, event}
    BY DEF Further
  <2>2. AfterEvent(l, event) = [record EXCEPT
           !.status = IF Have(l) THEN Further(@, event) ELSE event,
           !.paid = IF PaidWhen(l, event) >= @ THEN PaidWhen(l, event) ELSE @]
    BY DEF AfterEvent, record
  <2>3. AfterEvent(l, event) = [record EXCEPT
           !.status = IF Have(l) THEN Further(record.status, event) ELSE event,
           !.paid = IF PaidWhen(l, event) >= record.paid THEN PaidWhen(l, event) ELSE record.paid]
    BY <1>4, <2>2 DEF Stored
  <2> QED BY <2>1, <2>3
<1> QED BY <1>3, <1>4, <1>5, <1>6 DEF Behind, Stored

LEMMA StartsTold == ASSUME Typed, Told, NEW h \in Handlers, Starts(h) PROVE Told'
<1>1. TypeOK /\ TypeOK'
  BY StartsTyped DEF Typed
<1>2. UNCHANGED <<rz, link>>
  BY DEF Starts, Approve, Check, Recheck, Extend, Remove, Reads, Deliver, FindRefund, there, kept
<1>3. StillSound
  BY <1>1, <1>2, SameRazorpay
<1>4. ASSUME NEW j, Goes(h, j), HoldsTrue(j) PROVE Told'
  <2>1. HoldsTrue(j)'
    BY <1>2, <1>4 DEF HoldsTrue, Made, Behind
  <2> QED BY <1>1, <1>2, <1>3, <1>4, <2>1, StepTold
<1>5. ASSUME NEW j, Goes(h, j), j.at \notin {"ask", "cancel", "refused", "patch", "save", "delete"}
      PROVE Told'
  BY <1>4, <1>5 DEF HoldsTrue
<1>6. ASSUME NEW q \in Requests, Approve(h, q) PROVE Told'
  BY <1>5, <1>6 DEF Approve, Begins, Goes
<1>7. ASSUME NEW l \in Links, NEW at \in {"ask", "patch"}, Reads(h, l, at) PROVE Told'
  BY <1>4, <1>7 DEF Reads, Begins, Goes, HoldsTrue, Told
<1>8. ASSUME NEW l \in Links, Remove(h, l) PROVE Told'
  <2>1. Made(l) /\ Behind(link[l], l) /\ link[l].status \in Statuses
    BY <1>1, <1>8, LinkTyped DEF Remove, Told, Stored
  <2>2. CASE link[l].status = "created"
    <3> DEFINE j == [at |-> "cancel", l |-> l, copy |-> link[l]]
    <3>1. Goes(h, j) /\ HoldsTrue(j)
      BY <1>8, <2>1, <2>2 DEF Remove, Begins, Goes, HoldsTrue
    <3> HIDE DEF j
    <3> QED BY <1>4, <3>1
  <2>3. CASE link[l].status # "created"
    <3>1. rz[l].status \in {"expired", "cancelled"}
      BY <1>8, <2>1, <2>3 DEF Remove, Statuses, Behind, Final
    <3> DEFINE j == [at |-> "delete", l |-> l]
    <3>2. Goes(h, j) /\ HoldsTrue(j)
      BY <1>8, <2>1, <2>3, <3>1 DEF Remove, Begins, Goes, HoldsTrue
    <3> HIDE DEF j
    <3> QED BY <1>4, <3>2
  <2> QED BY <2>2, <2>3
<1>9. ASSUME NEW l \in Links, NEW event \in Statuses, Deliver(h, l, event) PROVE Told'
  <2> DEFINE j == [at |-> "save", l |-> l, copy |-> AfterEvent(l, event),
                   news |-> IsNews(l, event), q |-> Nobody]
  <2>1. Goes(h, j) /\ HoldsTrue(j)
    BY <1>1, <1>9, EventBehind DEF Deliver, Begins, Goes, HoldsTrue
  <2> HIDE DEF j
  <2> QED BY <1>4, <2>1
<1>10. ASSUME NEW r \in Refunds, FindRefund(h, r) PROVE Told'
  <2> DEFINE l == rzRefund[r].l
             on == IF l \in indexed THEN l ELSE Nobody
             billed == l \in indexed /\ link[l].billed
  <2>1. PICK status \in {"pending", rzRefund[r].status} :
          Goes(h, [at |-> "refund", r |-> r, status |-> status, l |-> on, billed |-> billed])
    BY <1>10 DEF FindRefund, Begins, Goes
  <2> QED BY <1>5, <2>1
<1> QED BY <1>6, <1>7, <1>8, <1>9, <1>10 DEF Starts, Check, Recheck, Extend

(* What Razorpay answers is what it has. *)
LEMMA AnswerBehind ==
    ASSUME TypeOK, NEW l \in Links, Made(l), NEW c \in Stored, Behind(c, l)
    PROVE  Behind(Answered(c, l), l)
<1>1. rz[l].status \in Statuses /\ rz[l].paid \in Nat
  BY LinkTyped DEF AtRazorpay
<1>2. Answered(c, l).status = rz[l].status /\ Answered(c, l).paid = rz[l].paid /\ Answered(c, l).billed = c.billed
  BY DEF Answered, Stored
<1> QED BY <1>1, <1>2, Ranks DEF Behind

LEMMA MakingTold ==
    ASSUME Typed, Told, NEW h \in Handlers, Claim(h) \/ Post(h) \/ Lookup(h) \/ PostFails(h)
    PROVE  Told'
<1>0. PICK q \in Requests, amount \in 1..Total :
        job[h] \in Making /\ job[h].q = q /\ job[h].amount = amount
  BY Places DEF Typed, Claim, Post, Lookup, PostFails, Making
<1>1. TypeOK /\ TypeOK' /\ UNCHANGED link
  BY MakingTyped DEF Typed, Claim, Post, Lookup, PostFails, kept
<1>2. q # Nobody
  BY PaymentLinksAssumption DEF Nobody
<1>3. ASSUME NEW at \in {"post", "lookup"}, StillSound, Goes(h, [job[h] EXCEPT !.at = at])
      PROVE  Told'
  <2>1. PICK j : j = [job[h] EXCEPT !.at = at]
    OBVIOUS
  <2>2. j.at = at /\ Goes(h, j)
    BY <1>0, <1>3, <2>1 DEF Making
  <2>3. HoldsTrue(j)'
    BY <2>2 DEF HoldsTrue
  <2> QED BY <1>1, <1>3, <2>2, <2>3, StepTold
<1>4. ASSUME NEW l \in Links, Made(l)', rz'[l].by = q, rz'[l] \in AtRazorpay,
             StillSound, Goes(h, Storing(l, q, amount))
      PROVE  Told'
  <2>1. PICK j : j = Storing(l, q, amount)
    OBVIOUS
  <2>2. /\ j.at = "save" /\ j.l = l /\ j.copy.status = rz'[l].status
        /\ j.copy.paid = Unknown /\ j.copy.billed = TRUE
    BY <2>1 DEF Storing, NewRecord
  <2>3. Rank(rz'[l].status) \in Int /\ rz'[l].paid \in Nat
    BY <1>4, Ranks DEF AtRazorpay
  <2>4. HoldsTrue(j)'
    BY <1>2, <1>4, <2>2, <2>3 DEF HoldsTrue, Behind, Unknown
  <2>5. Goes(h, j)
    BY <1>4, <2>1
  <2> QED BY <1>1, <1>4, <2>4, <2>5, StepTold
<1>5. CASE Claim(h)
  <2>1. StillSound
    BY <1>1, <1>5, SameRazorpay DEF Claim, there
  <2> QED BY <1>1, <1>3, <1>5, <2>1, EndsTold DEF Claim
<1>6. ASSUME Fails(h), UNCHANGED rz PROVE Told'
  BY <1>1, <1>6, SameRazorpay, EndsTold DEF Fails
<1>7. CASE PostFails(h)
  BY <1>6, <1>7 DEF PostFails, there
<1>8. CASE Lookup(h)
  <2>1. CASE Fails(h)
    BY <1>6, <1>8, <2>1 DEF Lookup, there
  <2>2. CASE ~Fails(h)
    <3>1. PICK l \in MadeFor(q) : Goes(h, Storing(l, q, amount))
      BY <1>0, <1>8, <2>2 DEF Lookup
    <3>2. UNCHANGED rz /\ l \in Links /\ Made(l) /\ rz[l].by = q
      BY <1>8 DEF Lookup, there, MadeFor
    <3>3. Made(l)' /\ rz'[l].by = q /\ rz'[l] \in AtRazorpay /\ StillSound
      BY <1>1, <3>2, LinkTyped, SameRazorpay DEF Made
    <3> QED BY <1>4, <3>1, <3>2, <3>3
  <2> QED BY <2>1, <2>2
<1>9. CASE Post(h)
  <2>1. CASE Goes(h, [job[h] EXCEPT !.at = "lookup"]) /\ UNCHANGED <<rz, notes>>
    BY <1>1, <1>3, <2>1, SameRazorpay
  <2>2. ASSUME NEW l \in Links, Makes(h, q, amount, l) PROVE Told'
    <3>1. StillSound
      BY <1>1, <2>2, NewLinkTold DEF Makes
    <3>2. rz'[l] = [status |-> "created", amount |-> amount, paid |-> 0, by |-> q, events |-> {}]
      BY <1>1, <2>2 DEF Makes, TypeOK
    <3>3. rz'[l].status # NotMade.status
      BY <3>2 DEF NotMade
    <3>4. rz'[l].by = q /\ rz'[l] # NotMade
      BY <3>2, <3>3
    <3>5. Made(l)' /\ rz'[l] \in AtRazorpay
      BY <1>1, <3>4 DEF Made, TypeOK
    <3> QED BY <1>3, <1>4, <2>2, <3>1, <3>4, <3>5 DEF Makes
  <2> QED BY <1>0, <1>9, <2>1, <2>2, PostMakes
<1> QED BY <1>5, <1>7, <1>8, <1>9

LEMMA SavingTold ==
    ASSUME Typed, Told, NEW h \in Handlers,
           Save(h) \/ Sync(h) \/ Write(h) \/ SyncFails(h) \/ Tell(h)
    PROVE  Told'
<1>1. TypeOK /\ TypeOK' /\ UNCHANGED rz
  BY SaveTyped, TellingTyped, TellTyped DEF Typed, Save, Sync, Write, SyncFails, Tell, there
<1>2. StillSound
  BY <1>1, SameRazorpay
<1>3. PICK j : Goes(h, j) /\ j.at \in {"idle", "sync", "write", "tell"}
  BY DEF Save, Sync, Write, SyncFails, Tell, Ends, After, Idle
<1>4. HoldsTrue(j)'
  BY <1>3 DEF HoldsTrue
<1>5. CASE ~Save(h)
  BY <1>1, <1>2, <1>3, <1>4, <1>5, StepTold DEF Sync, Write, SyncFails, Tell, kept
<1>6. CASE Save(h)
  <2>1. \A g \in Handlers : HoldsTrue(job[g])'
    BY <1>1, <1>2, <1>3, <1>4, HeldGoes DEF StillSound
  <2>2. PICK l \in Links, c \in Stored : job[h].l = l /\ job[h].copy = c
    BY <1>1, <1>6, Places DEF Save, Saving
  <2>3. Made(l) /\ Behind(c, l)
    BY <1>6, <2>2 DEF Save, Told, HoldsTrue
  <2>4. \A m \in Links : link'[m] = IF m = l THEN c ELSE link[m]
    BY <1>1, <1>6, <2>2 DEF Save, TypeOK
  <2>5. \A m \in Links : Have(m)' => Made(m) /\ Behind(link'[m], m)
    BY <2>3, <2>4 DEF Have, Told
  <2>6. \A m \in Links : Have(m)' => Made(m)' /\ Behind(link[m], m)'
    BY <1>1, <2>5 DEF Made, Behind
  <2> QED BY <1>2, <2>1, <2>6 DEF Told, StillSound
<1> QED BY <1>5, <1>6

LEMMA RestTold ==
    ASSUME Typed, Typed', Told, NEW h \in Handlers, Delete(h) \/ RecordRefund(h) \/ Die(h)
    PROVE  Told'
<1>1. TypeOK /\ TypeOK' /\ UNCHANGED rz
  BY DEF Typed, Delete, RecordRefund, Die, there
<1>2. StillSound
  BY <1>1, SameRazorpay
<1>3. CASE Die(h)
  BY <1>1, <1>2, <1>3, EndsTold DEF Die, kept
<1>4. CASE RecordRefund(h)
  <2>1. UNCHANGED link
    BY <1>4 DEF RecordRefund
  <2>2. CASE Ends(h)
    BY <1>1, <1>2, <2>1, <2>2, EndsTold
  <2>3. CASE ~Ends(h)
    <3>1. PICK j : Goes(h, j) /\ j.at = "sync"
      BY <1>4, <2>3 DEF RecordRefund
    <3>2. HoldsTrue(j)'
      BY <3>1 DEF HoldsTrue
    <3> QED BY <1>1, <1>2, <2>1, <3>1, <3>2, StepTold
  <2> QED BY <2>2, <2>3
<1>5. CASE Delete(h)
  <2>1. HoldsTrue(Idle)'
    BY DEF HoldsTrue, Idle
  <2>2. \A g \in Handlers : HoldsTrue(job[g])'
    BY <1>1, <1>2, <1>5, <2>1, HeldGoes DEF StillSound, Delete, Ends
  <2>3. \A m \in Links : link'[m] \in {link[m], NoLink}
    BY <1>1, <1>5 DEF Delete, TypeOK
  <2>4. \A m \in Links : Have(m)' => Made(m)' /\ Behind(link[m], m)'
    BY <1>1, <2>3 DEF Told, Have, Made, Behind
  <2> QED BY <1>2, <2>2, <2>4 DEF Told, StillSound
<1> QED BY <1>3, <1>4, <1>5

LEMMA AskingTyped ==
    ASSUME Typed, Told, NEW h \in Handlers, Ask(h) \/ Patch(h) \/ Cancel(h) \/ CannotCancel(h)
    PROVE  Typed' /\ Told'
<1>0. PICK l \in Links, c \in Stored :
        job[h] \in Changing /\ job[h].l = l /\ job[h].copy = c /\ Made(l) /\ Behind(c, l)
  BY Places DEF Typed, Ask, Patch, Cancel, CannotCancel, Changing, Told, HoldsTrue
<1>1. rz[l] \in AtRazorpay
  BY <1>0, LinkTyped DEF Typed
<1>2. UNCHANGED <<rzRefund, kept, claim>>
  BY DEF Ask, Patch, Cancel, CannotCancel, there
<1>3. ASSUME NEW j \in Job, Goes(h, j), StillSound, HoldsTrue(j)',
             j.at \in {"idle", "save", "delete", "refused"},
             j.at = "save" => j.q = Nobody,
             rz' \in [Links -> AtRazorpay \cup {NotMade}], UNCHANGED notes \/ Lose
      PROVE  Typed' /\ Told'
  <2>1. ClaimedBy(j)'
    BY <1>3 DEF ClaimedBy
  <2>2. job' \in [Handlers -> Job] /\ Claimed'
    BY <1>2, <1>3, <2>1, GoesTyped
  <2>3. UNCHANGED <<announced, torn>> /\ faults' \in 0..MaxFaults
    BY <1>3, LoseTyped DEF Lose, notes, Typed, TypeOK
  <2>4. Typed'
    BY <1>2, <1>3, <2>2, <2>3 DEF Typed, TypeOK, kept
  <2> QED BY <1>2, <1>3, <2>4, StepTold DEF Typed, kept
<1>4. ASSUME UNCHANGED <<there, notes>>
      PROVE  StillSound /\ rz' \in [Links -> AtRazorpay \cup {NotMade}] /\ UNCHANGED notes
  BY <1>4, SameRazorpay DEF there, Typed, TypeOK
<1>5. ASSUME StillSound, rz' \in [Links -> AtRazorpay \cup {NotMade}],
             UNCHANGED notes \/ Lose, Ends(h)
      PROVE  Typed' /\ Told'
  <2>1. Idle \in Job /\ Idle.at = "idle" /\ HoldsTrue(Idle)'
    BY IdleJob DEF Idle, HoldsTrue
  <2> QED BY <1>3, <1>5, <2>1 DEF Ends
<1>6. ASSUME NEW news \in BOOLEAN, UNCHANGED <<there, notes>>,
             Goes(h, [at |-> "save", l |-> l, copy |-> Answered(c, l), news |-> news, q |-> Nobody])
      PROVE  Typed' /\ Told'
  <2>1. PICK j : j = [at |-> "save", l |-> l, copy |-> Answered(c, l), news |-> news, q |-> Nobody]
    OBVIOUS
  <2>2. j \in Job /\ Goes(h, j) /\ j.at = "save" /\ j.q = Nobody
    BY <1>0, <1>6, <2>1, AnswerTyped DEF Typed
  <2>3. Behind(Answered(c, l), l)
    BY <1>0, AnswerBehind DEF Typed
  <2>4. HoldsTrue(j)'
    BY <1>0, <1>6, <2>1, <2>3 DEF HoldsTrue, Behind, Made, there
  <2> QED BY <1>3, <1>4, <1>6, <2>2, <2>4
<1>7. ASSUME StillSound, rz' \in [Links -> AtRazorpay \cup {NotMade}], UNCHANGED notes \/ Lose,
             Goes(h, [at |-> "delete", l |-> l]), Made(l)', rz'[l].status \in {"expired", "cancelled"}
      PROVE  Typed' /\ Told'
  <2>1. PICK j : j = [at |-> "delete", l |-> l]
    OBVIOUS
  <2>2. j \in Job /\ Goes(h, j) /\ j.at = "delete"
    BY <1>7, <2>1 DEF Job, Deleting
  <2>3. HoldsTrue(j)'
    BY <1>7, <2>1 DEF HoldsTrue
  <2> QED BY <1>3, <1>7, <2>2, <2>3
<1>8. TurnedPaid(c, l) \in BOOLEAN
  BY DEF TurnedPaid
<1>9. CASE Ask(h)
  BY <1>0, <1>6, <1>8, <1>9 DEF Ask, SavesAnswer, kept, notes
<1>10. CASE Patch(h)
  <2>1. CASE rz[l].status \in Open
    BY <1>0, <1>6, <1>10, <2>1 DEF Patch
  <2>2. CASE rz[l].status \notin Open
    BY <1>0, <1>4, <1>5, <1>10, <2>2 DEF Patch
  <2> QED BY <2>1, <2>2
<1>11. CASE CannotCancel(h)
  <2>1. UNCHANGED <<there, notes>> /\ UNCHANGED rz /\ rz[l].status \in Statuses
    BY <1>1, <1>11 DEF CannotCancel, there, AtRazorpay
  <2>2. CASE rz[l].status \in {"paid", "partially_paid"}
    BY <1>0, <1>6, <1>8, <1>11, <2>1, <2>2 DEF CannotCancel, Refusal, SavesAnswer
  <2>3. CASE rz[l].status = "created"
    BY <1>0, <1>4, <1>5, <1>11, <2>1, <2>3 DEF CannotCancel, Refusal
  <2>4. CASE rz[l].status \in {"expired", "cancelled"}
    BY <1>0, <1>4, <1>7, <1>11, <2>1, <2>4 DEF CannotCancel, Refusal, Made
  <2> QED BY <2>1, <2>2, <2>3, <2>4 DEF Statuses
<1>12. CASE Cancel(h)
  <2>1. CASE rz[l].status = "created"
    <3>1. rz[l].paid = 0 /\ rz[l].amount \in 1..Total
      BY <1>0, <1>1, <2>1 DEF Told, Consistent, AtRazorpay
    <3>2. rz' = [rz EXCEPT ![l].status = "cancelled", ![l].events = @ \cup {"cancelled"}]
      BY <1>0, <1>12, <2>1 DEF Cancel
    <3>3. rz' = [rz EXCEPT ![l] = [rz[l] EXCEPT !.status = "cancelled", !.paid = 0,
                                                !.events = @ \cup {"cancelled"}]]
      BY <1>1, <3>1, <3>2 DEF AtRazorpay, Typed, TypeOK
    <3>4. Turns(l, "cancelled", 0)
      BY <1>1, <2>1, <3>3 DEF Turns, Open
    <3>5. Rank("cancelled") = 2 /\ Rank(rz[l].status) = 0 /\ "cancelled" \in Statuses
      BY <2>1 DEF Rank, Statuses
    <3>6. StillSound
      BY <3>1, <3>4, <3>5, ChangesTold DEF Typed
    <3>7. rz'[l] = [rz[l] EXCEPT !.status = "cancelled", !.paid = 0, !.events = @ \cup {"cancelled"}]
      BY <3>3 DEF Typed, TypeOK
    <3>8. rz'[l] \in AtRazorpay /\ rz'[l].status = "cancelled"
      BY <1>1, <3>1, <3>5, <3>7 DEF AtRazorpay
    <3>9. rz' \in [Links -> AtRazorpay \cup {NotMade}]
      BY <3>3, <3>7, <3>8 DEF Typed, TypeOK
    <3>10. Made(l)'
      BY <1>0, <3>6 DEF StillSound, AllGrow
    <3>11. CASE Goes(h, [at |-> "delete", l |-> l]) /\ UNCHANGED notes
      BY <1>7, <3>6, <3>8, <3>9, <3>10, <3>11
    <3>12. CASE Ends(h) /\ Lose
      BY <1>5, <3>6, <3>9, <3>12
    <3> QED BY <1>0, <1>12, <2>1, <3>11, <3>12 DEF Cancel
  <2>2. CASE rz[l].status # "created"
    <3>1. PICK j : j = [job[h] EXCEPT !.at = "refused"]
      OBVIOUS
    <3>2. Goes(h, j) /\ UNCHANGED <<rz, notes>>
      BY <1>0, <1>12, <2>2, <3>1 DEF Cancel
    <3>3. j \in Job /\ j.at = "refused" /\ j.l = l /\ j.copy = c
      BY <1>0, <3>1 DEF Job, Changing
    <3>4. HoldsTrue(j)'
      BY <1>0, <3>2, <3>3 DEF HoldsTrue, Behind, Made
    <3> QED BY <1>3, <3>2, <3>3, <3>4, SameRazorpay DEF Typed, TypeOK
  <2> QED BY <2>1, <2>2
<1> QED BY <1>9, <1>10, <1>11, <1>12

LEMMA RestTyped ==
    ASSUME Typed, NEW h \in Handlers, Delete(h) \/ RecordRefund(h) \/ Die(h)
    PROVE  Typed'
<1>1. CASE Delete(h)
  <2>1. job' \in [Handlers -> Job] /\ Claimed'
    BY <1>1, EndsTyped DEF Delete
  <2>2. link' \in [Links -> Stored \cup {NoLink}] /\ indexed' \in SUBSET Links
    BY <1>1 DEF Delete, Typed, TypeOK
  <2> QED BY <1>1, <2>1, <2>2 DEF Delete, Typed, TypeOK, there, notes
<1>2. CASE RecordRefund(h)
  <2>1. PICK r \in Refunds, on \in Links \cup {Nobody}, st \in RefundStatus :
          job[h].r = r /\ job[h].l = on /\ job[h].status = st /\ job[h] \in Refunding
    BY <1>2, Places DEF RecordRefund, Typed, Refunding
  <2>2. refund' \in [Refunds -> {NoLink} \cup [status : RefundStatus, l : Links \cup {Nobody}]]
    <3>1. CASE refund[r] = NoLink
      BY <1>2, <2>1, <3>1 DEF RecordRefund, Typed, TypeOK
    <3>2. CASE refund[r] # NoLink
      <4>1. refund[r] \in [status : RefundStatus, l : Links \cup {Nobody}]
        BY <3>2 DEF Typed, TypeOK
      <4>2. RefundNow(refund[r].status, st) \in RefundStatus
        BY <2>1, <4>1 DEF RefundNow
      <4> QED BY <1>2, <2>1, <3>2, <4>1, <4>2 DEF RecordRefund, Typed, TypeOK
    <3> QED BY <3>1, <3>2
  <2>3. job' \in [Handlers -> Job] /\ Claimed'
    <3>1. CASE Ends(h)
      BY <1>2, <3>1, EndsTyped DEF RecordRefund
    <3>2. CASE ~Ends(h)
      <4>1. job[h].billed /\ Goes(h, [at |-> "sync", l |-> on, news |-> FALSE, q |-> Nobody])
        BY <1>2, <2>1, <3>2 DEF RecordRefund, SyncsTheInvoice
      <4>2. on \in Links
        BY <1>2, <2>1, <4>1 DEF RecordRefund, Typed, Claimed, ClaimedBy
      <4>3. PICK j : j = [at |-> "sync", l |-> on, news |-> FALSE, q |-> Nobody]
        OBVIOUS
      <4>4. j \in Job /\ j.at = "sync" /\ j.q = Nobody /\ Goes(h, j)
        BY <4>1, <4>2, <4>3 DEF Job, Telling
      <4>5. ClaimedBy(j)'
        BY <4>4 DEF ClaimedBy
      <4> QED BY <1>2, <4>4, <4>5, GoesTyped DEF RecordRefund
    <3> QED BY <3>1, <3>2
  <2> QED BY <1>2, <2>2, <2>3 DEF RecordRefund, Typed, TypeOK, there, notes
<1>3. CASE Die(h)
  <2>1. job' \in [Handlers -> Job] /\ Claimed'
    BY <1>3, EndsTyped DEF Die
  <2>2. torn' \in BOOLEAN /\ faults' \in 0..MaxFaults
    BY <1>3, LoseTyped DEF Die, Typed, TypeOK
  <2> QED BY <1>3, <2>1, <2>2 DEF Die, Typed, TypeOK, there, kept
<1> QED BY <1>1, <1>2, <1>3

(* The invariant that holds with any number of handlers. *)
Sound == Typed /\ Told

LEMMA InitSound == ASSUME Init PROVE Sound
<1>1. 0 \in Sums
  <2>1. Cardinality(Links) \in Nat /\ Total \in Nat
    BY FS_CardinalityType, PaymentLinksAssumption
  <2>2. \A a, b \in Nat : a * b \in Nat
    OBVIOUS
  <2> QED BY <2>1, <2>2 DEF Sums
<1>2. TypeOK
  <2>1. job \in [Handlers -> Job]
    BY IdleJob DEF Init
  <2>2. announced \in [Links -> 0..2] /\ faults \in 0..MaxFaults
    BY PaymentLinksAssumption DEF Init
  <2>3. torn \in BOOLEAN
    BY DEF Init
  <2>4. /\ rz \in [Links -> AtRazorpay \cup {NotMade}]
        /\ rzRefund \in [Refunds -> {NotMade} \cup [status : RefundStatus, l : Links]]
        /\ link \in [Links -> Stored \cup {NoLink}] /\ indexed \in SUBSET Links
    BY DEF Init
  <2>5. claim \in [Requests -> {NoClaim} \cup
                    [status : {"pending", "failed"}, amount : 1..Total] \cup
                    [status : {"done"}, amount : 1..Total, l : Links]]
    BY DEF Init
  <2>6. refund \in [Refunds -> {NoLink} \cup [status : RefundStatus, l : Links \cup {Nobody}]]
    BY DEF Init
  <2> QED BY <1>1, <2>1, <2>2, <2>3, <2>4, <2>5, <2>6 DEF Init, TypeOK
<1>3. Claimed
  BY DEF Init, Claimed, ClaimedBy, Idle
<1>4. Told
  BY DEF Init, Told, Made, Have, HoldsTrue, Idle
<1> QED BY <1>2, <1>3, <1>4 DEF Sound, Typed

LEMMA NextSound == ASSUME Sound, [Next]_vars PROVE Sound'
<1>1. CASE Outside
  BY <1>1, OutsideTyped, OutsideTold DEF Sound
<1>2. ASSUME NEW h \in Handlers, Starts(h) PROVE Sound'
  BY <1>2, StartsTyped, StartsTold DEF Sound
<1>3. ASSUME NEW h \in Handlers, Continues(h) \/ Breaks(h) PROVE Sound'
  <2>1. CASE Claim(h) \/ Post(h) \/ Lookup(h) \/ PostFails(h)
    BY <2>1, MakingTyped, MakingTold DEF Sound
  <2>2. CASE Save(h) \/ Sync(h) \/ Write(h) \/ SyncFails(h) \/ Tell(h)
    BY <2>2, SaveTyped, TellingTyped, TellTyped, SavingTold DEF Sound
  <2>3. CASE Ask(h) \/ Patch(h) \/ Cancel(h) \/ CannotCancel(h)
    BY <2>3, AskingTyped DEF Sound
  <2>4. CASE Delete(h) \/ RecordRefund(h) \/ Die(h)
    BY <2>4, RestTyped, RestTold DEF Sound
  <2> QED BY <1>3, <2>1, <2>2, <2>3, <2>4 DEF Continues, Breaks
<1>4. CASE UNCHANGED vars
  BY <1>4 DEF vars, there, kept, notes, Sound, Typed, TypeOK, Claimed, ClaimedBy,
              Told, Made, Have, Consistent, Behind, HoldsTrue
<1> QED BY <1>1, <1>2, <1>3, <1>4 DEF Next

LEMMA SpecSound == Spec => []Sound
BY InitSound, NextSound, PTL DEF Spec

(* Every record, job and note stays what it is meant to be, with any       *)
(* number of handlers of paymentLinks.ts at once.                          *)
THEOREM LinkTypes == Spec => []TypeOK
<1>1. Sound => TypeOK
  BY DEF Sound, Typed
<1> QED BY <1>1, SpecSound, PTL

-----------------------------------------------------------------------------
(* With any number of handlers at once. *)

LEMMA RazorpaySteps ==
    ASSUME [Next]_vars
    PROVE  UNCHANGED rz \/ Outside \/ \E h \in Handlers : Post(h) \/ Cancel(h)
<1>1. ASSUME NEW h \in Handlers, Starts(h) \/ (Continues(h) /\ ~Post(h) /\ ~Cancel(h)) \/ Breaks(h)
      PROVE  UNCHANGED rz
  BY <1>1 DEF Starts, Continues, Breaks, there, Approve, Check, Recheck, Extend, Remove, Reads,
              Deliver, FindRefund, Claim, Lookup, Save, Sync, Write, Tell, Ask, Patch, CannotCancel,
              Delete, RecordRefund, PostFails, SyncFails, Die
<1> QED BY <1>1 DEF Next, vars, there

(* A link comes to be only where there was none, and for a request that    *)
(* had none; one that is there stays its maker's.                          *)
LEMMA MadeOnce ==
    ASSUME Sound, [Next]_vars, NEW l \in Links
    PROVE  /\ Made(l) => Made(l)' /\ rz'[l].by = rz[l].by
           /\ Made(l)' /\ ~Made(l) /\ rz'[l].by # Nobody =>
                MadeFor(rz'[l].by) = {} /\ \A m \in Links \ {l} : rz'[m] = rz[m]
<1>1. TypeOK /\ TypeOK'
  BY NextSound DEF Sound, Typed
<1>2. ASSUME NEW m \in Links, MakeAtDashboard(m)
      PROVE  /\ \A k \in Links \ {m} : rz'[k] = rz[k]
             /\ rz'[m].by = Nobody /\ ~Made(m)
  BY <1>1, <1>2 DEF MakeAtDashboard, TypeOK
<1>3. ASSUME NEW m \in Links, rz[m] \in AtRazorpay,
             NEW st \in Statuses, NEW paid, NEW evs,
             rz' = [rz EXCEPT ![m] = [rz[m] EXCEPT !.status = st, !.paid = paid, !.events = evs]]
      PROVE  \A k \in Links : (Made(k) <=> Made(k)') /\ (Made(k) => rz'[k].by = rz[k].by)
  <2>1. rz'[m] = [rz[m] EXCEPT !.status = st, !.paid = paid, !.events = evs]
    BY <1>1, <1>3 DEF TypeOK
  <2>2. rz'[m].by = rz[m].by /\ rz'[m].status = st /\ rz[m].status \in Statuses
    BY <1>3, <2>1 DEF AtRazorpay
  <2>3. NotMade.status \notin Statuses
    BY DEF NotMade, Statuses
  <2>4. \A k \in Links \ {m} : rz'[k] = rz[k]
    BY <1>1, <1>3 DEF TypeOK
  <2> QED BY <1>3, <2>2, <2>3, <2>4 DEF Made
<1>4. ASSUME NEW m \in Links, Pay(m) \/ Expire(m) \/ PayPart(m)
      PROVE  (Made(l) <=> Made(l)') /\ (Made(l) => rz'[l].by = rz[l].by)
  <2>1. PICK st \in Statuses, paid \in {1, rz[m].amount, rz[m].paid} : Changes(m, st, paid)
    BY <1>4 DEF Pay, Expire, PayPart, Statuses
  <2>2. rz[m] \in AtRazorpay
    BY <1>1, <2>1, LinkTyped DEF Changes
  <2>3. rz' = [rz EXCEPT ![m] = [rz[m] EXCEPT !.status = st, !.paid = paid, !.events = rz[m].events \cup {st}]]
    BY <1>1, <2>1, <2>2 DEF Changes, TypeOK
  <2> QED BY <1>3, <2>2, <2>3
<1>5. ASSUME NEW h \in Handlers, Cancel(h), ~UNCHANGED rz
      PROVE  (Made(l) <=> Made(l)') /\ (Made(l) => rz'[l].by = rz[l].by)
  <2>1. PICK m \in Links : Made(m) /\ job[h].l = m
    BY <1>1, <1>5, Places DEF Sound, Told, HoldsTrue, Cancel, Changing
  <2>2. rz[m] \in AtRazorpay
    BY <1>1, <2>1, LinkTyped
  <2>3. rz' = [rz EXCEPT ![m].status = "cancelled", ![m].events = @ \cup {"cancelled"}]
    BY <1>5, <2>1 DEF Cancel
  <2>4. rz' = [rz EXCEPT ![m] = [rz[m] EXCEPT !.status = "cancelled", !.paid = rz[m].paid,
                                              !.events = rz[m].events \cup {"cancelled"}]]
    BY <1>1, <2>2, <2>3 DEF AtRazorpay, TypeOK
  <2>5. "cancelled" \in Statuses
    BY DEF Statuses
  <2> QED BY <1>3, <2>2, <2>4, <2>5
<1>6. ASSUME NEW h \in Handlers, Post(h), ~UNCHANGED rz
      PROVE  \E m \in Links, q \in Requests :
               /\ \A k \in Links \ {m} : rz'[k] = rz[k]
               /\ ~Made(m) /\ rz'[m].by = q /\ MadeFor(q) = {}
  <2>1. PICK m \in Links : Makes(h, job[h].q, job[h].amount, m)
    BY <1>6, PostMakes
  <2>2. job[h].q \in Requests
    BY <1>1, <1>6, Places DEF Post, Making
  <2>3. rz'[m].by = job[h].q /\ \A k \in Links \ {m} : rz'[k] = rz[k]
    BY <1>1, <2>1 DEF Makes, TypeOK
  <2> QED BY <2>1, <2>2, <2>3 DEF Makes
<1>7. CASE UNCHANGED rz
  BY <1>7 DEF Made
<1>8. CASE Outside /\ ~UNCHANGED rz
  <2>1. CASE \E m \in Links : MakeAtDashboard(m)
    BY <1>2, <2>1 DEF Made
  <2>2. CASE \E m \in Links : Pay(m) \/ Expire(m) \/ PayPart(m)
    BY <1>4, <2>2
  <2> QED BY <1>8, <2>1, <2>2 DEF Outside, RefundChanges
<1>9. ASSUME NEW h \in Handlers, Post(h), ~UNCHANGED rz
      PROVE  /\ Made(l) => Made(l)' /\ rz'[l].by = rz[l].by
             /\ Made(l)' /\ ~Made(l) /\ rz'[l].by # Nobody =>
                  MadeFor(rz'[l].by) = {} /\ \A m \in Links \ {l} : rz'[m] = rz[m]
  BY <1>6, <1>9 DEF Made
<1> QED BY <1>5, <1>7, <1>8, <1>9, RazorpaySteps

(* A request sent again, or of a handler that died, has the link it made   *)
(* before, whatever else runs: createAtRazorpay's reference is looked up   *)
(* by Razorpay, not by the handler.                                        *)
THEOREM OneLinkEach == Spec => []OneLinkPerRequest
<1>1. Init => OneLinkPerRequest
  BY DEF Init, OneLinkPerRequest, Made
<1>2. ASSUME Sound, OneLinkPerRequest, [Next]_vars PROVE OneLinkPerRequest'
  <2> SUFFICES ASSUME NEW q \in Requests, NEW l \in Links, NEW m \in Links,
                      Made(l)', Made(m)', rz'[l].by = q, rz'[m].by = q, l # m
               PROVE  FALSE
    BY DEF OneLinkPerRequest, Made
  <2>1. q # Nobody
    BY PaymentLinksAssumption DEF Nobody
  <2>2. ASSUME NEW x \in Links, NEW y \in Links, x # y, ~Made(x), Made(x)', Made(y)',
               rz'[x].by = q, rz'[y].by = q
        PROVE  FALSE
    <3>1. MadeFor(q) = {} /\ rz'[y] = rz[y]
      BY <1>2, <2>1, <2>2, MadeOnce
    <3> QED BY <2>2, <3>1 DEF MadeFor, Made
  <2>3. Made(l) /\ Made(m)
    BY <2>2
  <2>4. rz[l].by = q /\ rz[m].by = q
    BY <1>2, <2>3, MadeOnce
  <2> QED BY <1>2, <2>3, <2>4 DEF OneLinkPerRequest
<1> QED BY <1>1, <1>2, SpecSound, PTL DEF Spec

LEMMA LinkSteps ==
    ASSUME NEW h \in Handlers, Starts(h) \/ (Continues(h) /\ ~Save(h) /\ ~Delete(h)) \/ Breaks(h)
    PROVE  UNCHANGED link
BY DEF Starts, Continues, Breaks, kept, Approve, Check, Recheck, Extend, Remove, Reads,
       Deliver, FindRefund, Claim, Post, Lookup, Sync, Write, Tell, Ask, Patch, Cancel,
       CannotCancel, RecordRefund, PostFails, SyncFails, Die

(* A link is removed only once Razorpay has closed it unpaid, though the   *)
(* handler decided on what it read earlier (cancelOpenLink).               *)
THEOREM PaidLinksAreKept == Spec => KeepsPaidLinks
<1>1. ASSUME Sound, [Next]_vars PROVE PaidStay
  <2> SUFFICES ASSUME NEW l \in Links, Have(l), rz[l].status = "paid" PROVE link'[l] # NoLink
    BY DEF PaidStay
  <2>1. TypeOK
    BY <1>1 DEF Sound, Typed
  <2>2. ASSUME NEW h \in Handlers, Delete(h) PROVE link'[l] # NoLink
    <3>1. job[h].l # l
      BY <2>2, <1>1 DEF Delete, Sound, Told, HoldsTrue
    <3> QED BY <2>1, <2>2, <3>1 DEF Delete, TypeOK, Have
  <2>3. ASSUME NEW h \in Handlers, Save(h) PROVE link'[l] # NoLink
    <3>1. job[h].copy \in Stored
      BY <2>1, <2>3, Places DEF Save, Saving
    <3>2. NoLink \notin Stored
      BY DEF NoLink, Stored
    <3> QED BY <2>1, <2>3, <3>1, <3>2 DEF Save, TypeOK, Have
  <2>4. ASSUME NEW h \in Handlers, Starts(h) \/ (Continues(h) /\ ~Save(h) /\ ~Delete(h)) \/ Breaks(h)
        PROVE  UNCHANGED link
    BY <2>4, LinkSteps
  <2>5. CASE Outside
    BY <2>5 DEF Outside, MakeAtDashboard, Pay, Expire, PayPart, Changes, RefundChanges, kept, Have
  <2>6. CASE UNCHANGED vars
    BY <2>6 DEF vars, kept, Have
  <2> QED BY <1>1, <2>2, <2>3, <2>4, <2>5, <2>6 DEF Next, Have
<1> QED BY <1>1, SpecSound, PTL DEF Spec, KeepsPaidLinks

(* The write of a refund asks what is stored when it runs, so that no      *)
(* order of events and checks takes it back (recordRefund).                *)
THEOREM RefundsEnd == Spec => RefundsAreFinal
<1>1. ASSUME Sound, [Next]_vars PROVE RefundsStay
  <2> SUFFICES ASSUME NEW r \in Refunds, refund[r] # NoLink, refund[r].status # "pending"
               PROVE  refund'[r].status = refund[r].status
    BY DEF RefundsStay
  <2>1. refund[r].status \in {"processed", "failed"} /\ TypeOK
    BY <1>1 DEF Sound, Typed, TypeOK, RefundStatus
  <2>2. ASSUME NEW h \in Handlers, RecordRefund(h) PROVE refund'[r].status = refund[r].status
    <3>1. job[h].r # r => refund'[r] = refund[r]
      BY <2>1, <2>2 DEF RecordRefund, TypeOK
    <3>2. job[h].r = r => refund'[r].status = RefundNow(refund[r].status, job[h].status)
      BY <2>1, <2>2 DEF RecordRefund, TypeOK
    <3> QED BY <2>1, <3>1, <3>2 DEF RefundNow
  <2>3. ASSUME NEW h \in Handlers, Starts(h) \/ (Continues(h) /\ ~RecordRefund(h)) \/ Breaks(h)
        PROVE  UNCHANGED refund
    BY <2>3 DEF Starts, Continues, Breaks, kept, Approve, Check, Recheck, Extend, Remove, Reads,
                Deliver, FindRefund, Claim, Post, Lookup, Save, Sync, Write, Tell, Ask, Patch, Cancel,
                CannotCancel, Delete, PostFails, SyncFails, Die
  <2>4. CASE Outside
    BY <2>4 DEF Outside, MakeAtDashboard, Pay, Expire, PayPart, Changes, RefundChanges, kept
  <2>5. CASE UNCHANGED vars
    BY <2>5 DEF vars, kept
  <2> QED BY <1>1, <2>2, <2>3, <2>4, <2>5 DEF Next
<1> QED BY <1>1, SpecSound, PTL DEF Spec, RefundsAreFinal

-----------------------------------------------------------------------------
(* One handler at a time.                                                  *)

OneAtATime == \A g, h \in Handlers : g = h

(* What a handler read is what is stored, what it saves is no step back,   *)
(* and what it announces is news.                                          *)
HoldsFresh(j) ==
    /\ j.at \in {"ask", "cancel", "refused", "patch"} => Have(j.l) /\ j.copy = link[j.l]
    /\ j.at = "save" /\ Have(j.l) =>
         Rank(link[j.l].status) <= Rank(j.copy.status) /\ (link[j.l].billed => j.copy.billed)
    /\ j.at = "save" /\ j.news => j.copy.status = "paid" /\ announced[j.l] = 0
    /\ j.at \in {"sync", "write", "tell"} /\ j.news =>
         Have(j.l) /\ link[j.l].status = "paid" /\ announced[j.l] = 0

Fresh ==
    /\ \A l \in Links : announced[l] > 0 => announced[l] = 1 /\ Have(l) /\ link[l].status = "paid"
    /\ \A h \in Handlers : HoldsFresh(job[h])

LEMMA OneGoes ==
    ASSUME OneAtATime, TypeOK, NEW h \in Handlers, NEW j, Goes(h, j)
    PROVE  \A g \in Handlers : job'[g] = j
BY OneJob DEF OneAtATime

LEMMA FreshGoes ==
    ASSUME OneAtATime, TypeOK, Fresh, NEW h \in Handlers, NEW j, Goes(h, j), HoldsFresh(j)',
           UNCHANGED <<link, announced>>
    PROVE  Fresh'
<1>1. \A g \in Handlers : HoldsFresh(job[g])'
  BY OneGoes DEF HoldsFresh
<1>2. \A l \in Links : announced'[l] > 0 => announced'[l] = 1 /\ Have(l)' /\ link'[l].status = "paid"
  BY DEF Fresh, Have
<1> QED BY <1>1, <1>2 DEF Fresh

LEMMA FreshEnds ==
    ASSUME OneAtATime, TypeOK, Fresh, NEW h \in Handlers, Ends(h), UNCHANGED <<link, announced>>
    PROVE  Fresh'
<1>1. HoldsFresh(Idle)'
  BY DEF HoldsFresh, Idle
<1> QED BY <1>1, FreshGoes DEF Ends

LEMMA OutsideFresh == ASSUME Fresh, Outside \/ UNCHANGED vars PROVE Fresh'
<1>1. UNCHANGED <<link, announced, job>>
  BY DEF Outside, MakeAtDashboard, Pay, Expire, PayPart, Changes, RefundChanges, vars, kept, notes
<1> QED BY <1>1 DEF Fresh, HoldsFresh, Have

LEMMA StartsFresh == ASSUME OneAtATime, Sound, Fresh, NEW h \in Handlers, Starts(h) PROVE Fresh'
<1>1. TypeOK
  BY DEF Sound, Typed
<1>2. UNCHANGED <<link, announced>>
  BY DEF Starts, Approve, Check, Recheck, Extend, Remove, Reads, Deliver, FindRefund, kept, notes
<1>3. ASSUME NEW j, Goes(h, j), HoldsFresh(j) PROVE Fresh'
  <2>1. HoldsFresh(j)'
    BY <1>2, <1>3 DEF HoldsFresh, Have
  <2> QED BY <1>1, <1>2, <1>3, <2>1, FreshGoes
<1>4. ASSUME NEW j, Goes(h, j), j.at \in {"claim", "delete", "refund"} PROVE Fresh'
  BY <1>3, <1>4 DEF HoldsFresh
<1>5. ASSUME NEW l \in Links, NEW at \in {"ask", "cancel", "patch"}, Have(l),
             Goes(h, [at |-> at, l |-> l, copy |-> link[l]])
      PROVE  Fresh'
  <2>1. PICK j : j = [at |-> at, l |-> l, copy |-> link[l]]
    OBVIOUS
  <2>2. HoldsFresh(j) /\ Goes(h, j)
    BY <1>5, <2>1 DEF HoldsFresh
  <2> QED BY <1>3, <2>2
<1>6. ASSUME NEW q \in Requests, Approve(h, q) PROVE Fresh'
  BY <1>4, <1>6 DEF Approve, Begins, Goes
<1>7. ASSUME NEW l \in Links, Check(h, l) \/ Recheck(h, l) \/ Extend(h, l) \/ Remove(h, l) PROVE Fresh'
  BY <1>4, <1>5, <1>7 DEF Check, Recheck, Extend, Remove, Reads, Begins, Goes
<1>8. ASSUME NEW l \in Links, NEW event \in Statuses, Deliver(h, l, event) PROVE Fresh'
  <2> DEFINE c == AfterEvent(l, event)
  <2>1. PICK j : j = [at |-> "save", l |-> l, copy |-> c, news |-> IsNews(l, event), q |-> Nobody]
    OBVIOUS
  <2>2. Goes(h, j)
    BY <1>8, <2>1 DEF Deliver, Begins, Goes
  <2>3. ASSUME Have(l)
        PROVE  c.status = Further(link[l].status, event) /\ c.billed = link[l].billed
               /\ link[l].status \in Statuses
    BY <1>1, <2>3, LinkTyped DEF AfterEvent, Stored
  <2>4. ~Have(l) => c.status = event
    BY DEF AfterEvent, FromEvent
  <2>5. IsNews(l, event) => c.status = "paid" /\ announced[l] = 0
    <3>1. Have(l) /\ link[l].status # "paid" /\ event = "paid" => c.status = "paid"
      BY <2>3, Ranks DEF Further, Rank, Statuses
    <3>2. announced[l] \in 0..2
      BY <1>1 DEF TypeOK
    <3> QED BY <2>4, <3>1, <3>2 DEF IsNews, Fresh
  <2>6. HoldsFresh(j)
    BY <2>1, <2>3, <2>5, Ranks DEF HoldsFresh
  <2> QED BY <1>3, <2>2, <2>6
<1>9. ASSUME NEW r \in Refunds, FindRefund(h, r) PROVE Fresh'
  <2> DEFINE l == rzRefund[r].l
             on == IF l \in indexed THEN l ELSE Nobody
             billed == l \in indexed /\ link[l].billed
  <2>1. PICK status \in {"pending", rzRefund[r].status} :
          Goes(h, [at |-> "refund", r |-> r, status |-> status, l |-> on, billed |-> billed])
    BY <1>9 DEF FindRefund, Begins, Goes
  <2> QED BY <1>4, <2>1
<1> QED BY <1>6, <1>7, <1>8, <1>9 DEF Starts

LEMMA MakingFresh ==
    ASSUME OneAtATime, Sound, Sound', Fresh, NEW h \in Handlers,
           Claim(h) \/ Post(h) \/ Lookup(h) \/ PostFails(h)
    PROVE  Fresh'
<1>0. PICK q \in Requests, amount \in 1..Total :
        job[h] \in Making /\ job[h].q = q /\ job[h].amount = amount
  BY Places DEF Sound, Typed, Claim, Post, Lookup, PostFails, Making
<1>1. TypeOK /\ UNCHANGED <<link, announced>>
  BY DEF Sound, Typed, Claim, Post, Lookup, PostFails, Lose, kept, notes
<1>2. ASSUME NEW at \in {"post", "lookup"}, Goes(h, [job[h] EXCEPT !.at = at])
      PROVE  Fresh'
  <2>1. PICK j : j = [job[h] EXCEPT !.at = at]
    OBVIOUS
  <2>2. j.at = at /\ Goes(h, j)
    BY <1>0, <1>2, <2>1 DEF Making
  <2>3. HoldsFresh(j)'
    BY <2>2 DEF HoldsFresh
  <2> QED BY <1>1, <2>2, <2>3, FreshGoes
<1>3. ASSUME NEW l \in Links, Goes(h, Storing(l, q, amount))
      PROVE  Fresh'
  <2>1. PICK j : j = Storing(l, q, amount)
    OBVIOUS
  <2>2. /\ j.at = "save" /\ j.l = l /\ j.copy.status = rz'[l].status
        /\ j.copy.billed = TRUE /\ j.news = FALSE
    BY <2>1 DEF Storing, NewRecord
  <2>3. Have(l)' => Rank(link'[l].status) <= Rank(rz'[l].status)
    BY DEF Sound, Told, Behind
  <2>4. HoldsFresh(j)'
    BY <2>2, <2>3 DEF HoldsFresh
  <2>5. Goes(h, j)
    BY <1>3, <2>1
  <2> QED BY <1>1, <2>4, <2>5, FreshGoes
<1>4. CASE Claim(h)
  BY <1>1, <1>2, <1>4, FreshEnds DEF Claim
<1>5. CASE PostFails(h)
  BY <1>1, <1>5, FreshEnds DEF PostFails, Fails
<1>6. CASE Lookup(h)
  <2>1. CASE Fails(h)
    BY <1>1, <2>1, FreshEnds DEF Fails
  <2>2. CASE ~Fails(h)
    <3>1. PICK l \in MadeFor(q) : Goes(h, Storing(l, q, amount))
      BY <1>0, <1>6, <2>2 DEF Lookup
    <3> QED BY <1>3, <3>1 DEF MadeFor
  <2> QED BY <2>1, <2>2
<1>7. CASE Post(h)
  BY <1>0, <1>2, <1>3, <1>7, PostMakes DEF Makes
<1> QED BY <1>4, <1>5, <1>6, <1>7

LEMMA SavingFresh ==
    ASSUME OneAtATime, Sound, Fresh, NEW h \in Handlers,
           Save(h) \/ Sync(h) \/ Write(h) \/ SyncFails(h) \/ Tell(h)
    PROVE  Fresh'
<1>0. TypeOK /\ HoldsFresh(job[h])
  BY DEF Sound, Typed, Fresh
<1>1. PICK l \in Links, news \in BOOLEAN : job[h].l = l /\ job[h].news = news
  BY <1>0, Places DEF Save, Sync, Write, SyncFails, Tell, Saving, Telling, Writing
<1>2. CASE Sync(h) \/ Write(h) \/ SyncFails(h)
  <2>1. UNCHANGED <<link, announced>>
    BY <1>2 DEF Sync, Write, SyncFails, kept, notes
  <2>2. PICK j : Goes(h, j) /\ j.at \in {"tell", "write"} /\ j.l = l /\ j.news = news
    BY <1>1, <1>2 DEF Sync, Write, SyncFails, After
  <2>3. HoldsFresh(j)'
    BY <1>0, <1>1, <1>2, <2>1, <2>2 DEF Sync, Write, SyncFails, HoldsFresh, Have
  <2> QED BY <1>0, <2>1, <2>2, <2>3, FreshGoes
<1>3. CASE Tell(h)
  <2>1. news => Have(l) /\ link[l].status = "paid" /\ announced[l] = 0
    BY <1>0, <1>1, <1>3 DEF Tell, HoldsFresh
  <2>2. \A m \in Links : announced'[m] = IF news /\ m = l THEN 1 ELSE announced[m]
    BY <1>0, <1>1, <1>3, <2>1 DEF Tell, TypeOK
  <2>3. \A m \in Links : announced'[m] > 0 => announced'[m] = 1 /\ Have(m)' /\ link'[m].status = "paid"
    BY <1>3, <2>1, <2>2 DEF Tell, kept, Fresh, Have
  <2>4. \A g \in Handlers : job'[g] = Idle
    BY <1>0, <1>3, OneGoes DEF Tell, Ends
  <2>5. \A g \in Handlers : HoldsFresh(job[g])'
    BY <2>4 DEF HoldsFresh, Idle
  <2> QED BY <2>3, <2>5 DEF Fresh
<1>4. CASE Save(h)
  <2>1. PICK c \in Stored : job[h].copy = c /\ job[h].at = "save"
    BY <1>0, <1>4, Places DEF Save, Saving
  <2>2. link'[l] = c /\ Have(l)' /\ UNCHANGED announced
    <3>1. link'[l] = c
      BY <1>0, <1>1, <1>4, <2>1 DEF Save, TypeOK
    <3>2. c # NoLink
      BY DEF NoLink, Stored
    <3> QED BY <1>4, <3>1, <3>2 DEF Save, Have, notes
  <2>3. \A m \in Links \ {l} : link'[m] = link[m]
    BY <1>0, <1>1, <1>4 DEF Save, TypeOK
  <2>4. announced[l] > 0 => c.status = "paid"
    <3>1. CASE announced[l] > 0
      <4>1. Have(l) /\ link[l].status = "paid"
        BY <3>1 DEF Fresh
      <4>2. Rank("paid") <= Rank(c.status) /\ c.status \in Statuses /\ "paid" \in Statuses
        BY <1>0, <1>1, <2>1, <4>1 DEF HoldsFresh, Stored, Statuses
      <4> QED BY <4>2 DEF Rank, Statuses
    <3> QED BY <3>1
  <2>5. \A m \in Links : announced'[m] > 0 => announced'[m] = 1 /\ Have(m)' /\ link'[m].status = "paid"
    BY <2>2, <2>3, <2>4 DEF Fresh, Have
  <2>6. PICK j : Goes(h, j) /\ j.at \in {"sync", "tell"} /\ j.l = l /\ j.news = news
    BY <1>1, <1>4 DEF Save, After
  <2>7. HoldsFresh(j)'
    BY <1>0, <1>1, <2>1, <2>2, <2>6 DEF HoldsFresh
  <2>8. \A g \in Handlers : HoldsFresh(job[g])'
    BY <1>0, <2>6, <2>7, OneGoes DEF HoldsFresh
  <2> QED BY <2>5, <2>8 DEF Fresh
<1> QED BY <1>2, <1>3, <1>4

LEMMA AskingFresh ==
    ASSUME OneAtATime, Sound, Fresh, NEW h \in Handlers,
           Ask(h) \/ Patch(h) \/ Cancel(h) \/ CannotCancel(h)
    PROVE  Fresh'
<1>0. PICK l \in Links, c \in Stored :
        job[h] \in Changing /\ job[h].l = l /\ job[h].copy = c /\ Have(l) /\ c = link[l] /\ Behind(c, l)
  BY Places DEF Sound, Typed, Ask, Patch, Cancel, CannotCancel, Changing, Fresh, HoldsFresh,
                Told, HoldsTrue
<1>1. TypeOK /\ UNCHANGED <<link, announced>>
  BY DEF Sound, Typed, Ask, Patch, Cancel, CannotCancel, Lose, kept, notes
<1>2. ASSUME NEW j, Goes(h, j), HoldsFresh(j) PROVE Fresh'
  <2>1. HoldsFresh(j)'
    BY <1>1, <1>2 DEF HoldsFresh, Have
  <2> QED BY <1>1, <1>2, <2>1, FreshGoes
<1>3. ASSUME NEW news \in BOOLEAN, news => TurnedPaid(c, l),
             Goes(h, [at |-> "save", l |-> l, copy |-> Answered(c, l), news |-> news, q |-> Nobody])
      PROVE  Fresh'
  <2>1. PICK j : j = [at |-> "save", l |-> l, copy |-> Answered(c, l), news |-> news, q |-> Nobody]
    OBVIOUS
  <2>2. Answered(c, l).status = rz[l].status /\ Answered(c, l).billed = c.billed
    BY DEF Answered, Stored
  <2>3. news => rz[l].status = "paid" /\ announced[l] = 0
    <3>1. announced[l] \in 0..2
      BY <1>1 DEF TypeOK
    <3> QED BY <1>0, <1>3, <3>1 DEF TurnedPaid, Fresh
  <2>4. HoldsFresh(j)
    BY <1>0, <2>1, <2>2, <2>3 DEF HoldsFresh, Behind
  <2>5. Goes(h, j)
    BY <1>3, <2>1
  <2> QED BY <1>2, <2>4, <2>5
<1>4. TurnedPaid(c, l) \in BOOLEAN
  BY DEF TurnedPaid
<1>5. ASSUME Goes(h, [at |-> "delete", l |-> l]) PROVE Fresh'
  BY <1>2, <1>5 DEF HoldsFresh
<1>6. CASE Ask(h)
  BY <1>0, <1>3, <1>4, <1>6 DEF Ask, SavesAnswer
<1>7. CASE Patch(h)
  BY <1>0, <1>1, <1>3, <1>7, FreshEnds DEF Patch
<1>8. CASE CannotCancel(h)
  BY <1>0, <1>1, <1>3, <1>4, <1>5, <1>8, FreshEnds DEF CannotCancel, Refusal, SavesAnswer
<1>9. CASE Cancel(h)
  <2>1. CASE Goes(h, [job[h] EXCEPT !.at = "refused"])
    <3>1. PICK j : j = [job[h] EXCEPT !.at = "refused"]
      OBVIOUS
    <3>2. j.at = "refused" /\ j.l = l /\ j.copy = c
      BY <1>0, <3>1 DEF Changing
    <3>3. HoldsFresh(j)
      BY <1>0, <3>2 DEF HoldsFresh
    <3> QED BY <1>2, <2>1, <3>1, <3>3
  <2> QED BY <1>0, <1>1, <1>5, <1>9, <2>1, FreshEnds DEF Cancel
<1> QED BY <1>6, <1>7, <1>8, <1>9

LEMMA RestFresh ==
    ASSUME OneAtATime, Sound, Fresh, NEW h \in Handlers, Delete(h) \/ RecordRefund(h) \/ Die(h)
    PROVE  Fresh'
<1>1. TypeOK
  BY DEF Sound, Typed
<1>2. CASE Die(h)
  BY <1>1, <1>2, FreshEnds DEF Die, kept
<1>3. CASE RecordRefund(h)
  <2>1. UNCHANGED <<link, announced>>
    BY <1>3 DEF RecordRefund, notes
  <2>2. CASE Ends(h)
    BY <1>1, <2>1, <2>2, FreshEnds
  <2>3. CASE ~Ends(h)
    <3>1. PICK j : Goes(h, j) /\ j.at = "sync" /\ j.news = FALSE
      BY <1>3, <2>3 DEF RecordRefund
    <3>2. HoldsFresh(j)'
      BY <3>1 DEF HoldsFresh
    <3> QED BY <1>1, <2>1, <3>1, <3>2, FreshGoes
  <2> QED BY <2>2, <2>3
<1>4. CASE Delete(h)
  <2>1. PICK l \in Links : job[h].l = l /\ rz[l].status \in {"expired", "cancelled"}
    BY <1>1, <1>4, Places DEF Delete, Deleting, Sound, Told, HoldsTrue
  <2>2. announced[l] = 0
    <3>1. Have(l) /\ link[l].status = "paid" => rz[l].status = "paid"
      BY DEF Sound, Told, Behind, Final
    <3>2. announced[l] \in 0..2
      BY <1>1 DEF TypeOK
    <3> QED BY <2>1, <3>1, <3>2 DEF Fresh
  <2>3. \A m \in Links : link'[m] = IF m = l THEN NoLink ELSE link[m]
    BY <1>1, <1>4, <2>1 DEF Delete, TypeOK
  <2>4. \A m \in Links : announced'[m] > 0 => announced'[m] = 1 /\ Have(m)' /\ link'[m].status = "paid"
    BY <1>4, <2>2, <2>3 DEF Delete, notes, Fresh, Have
  <2>5. \A g \in Handlers : job'[g] = Idle
    BY <1>1, <1>4, OneGoes DEF Delete, Ends
  <2>6. \A g \in Handlers : HoldsFresh(job[g])'
    BY <2>5 DEF HoldsFresh, Idle
  <2> QED BY <2>4, <2>6 DEF Fresh
<1> QED BY <1>2, <1>3, <1>4

LEMMA NextFresh == ASSUME OneAtATime, Sound, Fresh, [Next]_vars PROVE Fresh'
<1>0. Sound'
  BY NextSound
<1>1. CASE Outside \/ UNCHANGED vars
  BY <1>1, OutsideFresh
<1>2. ASSUME NEW h \in Handlers, Starts(h) PROVE Fresh'
  BY <1>2, StartsFresh
<1>3. ASSUME NEW h \in Handlers, Continues(h) \/ Breaks(h) PROVE Fresh'
  BY <1>0, <1>3, MakingFresh, SavingFresh, AskingFresh, RestFresh DEF Continues, Breaks
<1> QED BY <1>1, <1>2, <1>3 DEF Next

LEMMA SpecFresh == OneAtATime => (Spec => []Fresh)
<1> SUFFICES ASSUME OneAtATime PROVE Spec => []Fresh
  OBVIOUS
<1>1. Init => Fresh
  BY DEF Init, Fresh, HoldsFresh, Idle
<1>2. Sound /\ Fresh /\ [Next]_vars => Fresh'
  BY NextFresh
<1> QED BY <1>1, <1>2, SpecSound, PTL DEF Spec

(* Handled one at a time, what is paid is announced once, however often    *)
(* its event arrives or a check finds it (announcePaymentReceived).        *)
THEOREM PaymentIsAnnouncedOnce == OneAtATime => (Spec => []AnnouncedOnce)
<1> SUFFICES ASSUME OneAtATime PROVE Spec => []AnnouncedOnce
  OBVIOUS
<1>1. Sound /\ Fresh => AnnouncedOnce
  BY DEF Sound, Typed, TypeOK, Fresh, AnnouncedOnce
<1> QED BY <1>1, SpecSound, SpecFresh, PTL

(* Handled one at a time, an event that comes late or an answer that was   *)
(* slow does not take a link back (nextLinkStatus,                         *)
(* applyRazorpayLinkState).                                                *)
THEOREM LinksGoForward == OneAtATime => (Spec => OnlyForward)
<1> SUFFICES ASSUME OneAtATime PROVE Spec => OnlyForward
  OBVIOUS
<1>1. ASSUME Sound, Fresh, [Next]_vars PROVE Forward
  <2> SUFFICES ASSUME NEW l \in Links, Have(l), link'[l] # NoLink
               PROVE  Rank(link[l].status) <= Rank(link'[l].status)
    BY DEF Forward
  <2>1. TypeOK
    BY <1>1 DEF Sound, Typed
  <2>2. link'[l] = link[l] => Rank(link[l].status) <= Rank(link'[l].status)
    BY <2>1, LinkTyped, Ranks DEF Stored
  <2>3. ASSUME NEW h \in Handlers, Save(h) PROVE Rank(link[l].status) <= Rank(link'[l].status)
    <3>1. job[h].l # l => link'[l] = link[l]
      BY <2>1, <2>3 DEF Save, TypeOK
    <3>2. job[h].l = l => link'[l] = job[h].copy
      BY <2>1, <2>3 DEF Save, TypeOK
    <3> QED BY <1>1, <2>2, <2>3, <3>1, <3>2 DEF Save, Fresh, HoldsFresh
  <2>4. ASSUME NEW h \in Handlers, Delete(h) PROVE Rank(link[l].status) <= Rank(link'[l].status)
    BY <2>1, <2>2, <2>4 DEF Delete, TypeOK
  <2>5. ASSUME NEW h \in Handlers, Starts(h) \/ (Continues(h) /\ ~Save(h) /\ ~Delete(h)) \/ Breaks(h)
        PROVE  UNCHANGED link
    BY <2>5, LinkSteps
  <2>6. CASE Outside \/ UNCHANGED vars
    BY <2>6, <2>2 DEF Outside, MakeAtDashboard, Pay, Expire, PayPart, Changes, RefundChanges, vars, kept
  <2> QED BY <1>1, <2>2, <2>3, <2>4, <2>5, <2>6 DEF Next
<1> QED BY <1>1, SpecSound, SpecFresh, PTL DEF Spec, OnlyForward

(* What is asked for fits what is owed, with what is about to be asked.    *)
AskedOf(S) == SumOf(Amounts(S))
FitsIn(j) ==
    /\ j.at \in {"claim", "post", "lookup"} => AskedOf(Live) + j.amount <= Total
    /\ j.at = "save" /\ j.copy.billed /\ j.copy.status \notin {"expired", "cancelled"} =>
         AskedOf(Live \ {j.l}) + j.copy.amount <= Total

Fits == AsksNoMoreThanOwed /\ \A h \in Handlers : FitsIn(job[h])

LEMMA LiveCounts == ASSUME TypeOK PROVE Live = Committed
BY LinkTyped DEF Live, Committed, Counting, OnInvoice, Stored, Statuses

LEMMA SameAsked ==
    ASSUME NEW S, \A l \in S : link'[l] = link[l]
    PROVE  AskedOf(S)' = AskedOf(S)
<1>1. PICK f : f = Amounts(S)
  OBVIOUS
<1>2. Amounts(S)' = f
  BY <1>1 DEF Amounts
<1> QED BY <1>1, <1>2 DEF AskedOf

(* What a link adds to what is asked for. *)
LEMMA AskedOfLive ==
    ASSUME TypeOK, NEW l \in Links
    PROVE  /\ AskedOf(Live) \in Nat /\ AskedOf(Live \ {l}) \in Nat
           /\ AskedOf(Live \ {l}) <= AskedOf(Live)
           /\ l \in Live => AskedOf(Live) = AskedOf(Live \ {l}) + link[l].amount
<1>1. PICK L : L = Live
  OBVIOUS
<1>2. L \in SUBSET OnInvoice /\ L \ {l} \in SUBSET OnInvoice
  BY <1>1 DEF Live
<1>3. PICK f : f = Amounts(L)
  OBVIOUS
<1>4. PICK g : g = Amounts(L \ {l})
  OBVIOUS
<1>5. /\ IsFiniteSet(L) /\ f \in [L -> 0..Total] /\ SumOf(f) \in Nat
      /\ g \in [L \ {l} -> 0..Total] /\ SumOf(g) \in Nat
  BY <1>4, <1>2, <1>3, AskedTyped
<1>6. g = [x \in L \ {l} |-> f[x]] /\ (l \in L => f[l] = link[l].amount)
  BY <1>4, <1>3 DEF Amounts
<1>7. SumOf(g) <= SumOf(f)
  <2>1. Total \in Nat /\ L \ {l} \in SUBSET L
    BY PaymentLinksAssumption
  <2>2. \A x \in L \ {l} : g[x] <= f[x]
    BY <1>5, <1>6
  <2> QED BY <1>5, <2>1, <2>2, SumWithin
<1>8. l \in L => SumOf(f) = SumOf(g) + f[l]
  <2>1. Total \in Nat
    BY PaymentLinksAssumption
  <2>2. l \in L => SumOf(f) = SumOf([x \in L \ {l} |-> f[x]]) + f[l]
    BY <1>5, <2>1, SumWith
  <2> QED BY <1>6, <2>2
<1> QED BY <1>4, <1>1, <1>3, <1>5, <1>6, <1>7, <1>8 DEF AskedOf

LEMMA FitsGoes ==
    ASSUME OneAtATime, TypeOK, Fits, NEW h \in Handlers, NEW j, Goes(h, j), FitsIn(j), UNCHANGED link
    PROVE  Fits'
<1>1. PICK L : L = Live
  OBVIOUS
<1>2. Live' = L
  BY <1>1 DEF Live, OnInvoice, Have
<1>3. AskedOf(L)' = AskedOf(L) /\ AskedOf(L \ {j.l})' = AskedOf(L \ {j.l})
  BY SameAsked
<1>4. AsksNoMoreThanOwed'
  BY <1>1, <1>2, <1>3 DEF Fits, AsksNoMoreThanOwed, AskedOf
<1>5. FitsIn(j)'
  BY <1>1, <1>2, <1>3 DEF FitsIn
<1>6. \A g \in Handlers : FitsIn(job[g])'
  BY <1>5, OneGoes DEF FitsIn
<1> QED BY <1>4, <1>6 DEF Fits

LEMMA FitsEnds ==
    ASSUME OneAtATime, TypeOK, Fits, NEW h \in Handlers, Ends(h), UNCHANGED link
    PROVE  Fits'
<1>1. FitsIn(Idle)
  BY DEF FitsIn, Idle
<1> QED BY <1>1, FitsGoes DEF Ends

(* A link that can still be paid is saved again with the amount it had. *)
LEMMA SavedAgainFits ==
    ASSUME TypeOK, Fits, NEW l \in Links, NEW j, j.at = "save", j.l = l, Have(l),
           j.copy.amount = link[l].amount, j.copy.billed = link[l].billed,
           link[l].status \in {"expired", "cancelled"} => j.copy.status = link[l].status
    PROVE  FitsIn(j)
<1>1. CASE j.copy.billed /\ j.copy.status \notin {"expired", "cancelled"}
  <2>1. l \in Live
    BY <1>1 DEF Live, OnInvoice
  <2>2. AskedOf(Live \ {l}) + j.copy.amount = AskedOf(Live)
    BY <2>1, AskedOfLive
  <2> QED BY <2>2 DEF Fits, AsksNoMoreThanOwed, AskedOf, FitsIn
<1>2. CASE ~(j.copy.billed /\ j.copy.status \notin {"expired", "cancelled"})
  BY <1>2 DEF FitsIn
<1> QED BY <1>1, <1>2

LEMMA OutsideFits == ASSUME Fits, Outside \/ UNCHANGED vars PROVE Fits'
<1>1. UNCHANGED <<link, job>>
  BY DEF Outside, MakeAtDashboard, Pay, Expire, PayPart, Changes, RefundChanges, vars, kept
<1>2. PICK L : L = Live
  OBVIOUS
<1>3. Live' = L
  BY <1>1, <1>2 DEF Live, OnInvoice, Have
<1>4. \A S : AskedOf(S)' = AskedOf(S)
  BY <1>1, SameAsked
<1>5. AsksNoMoreThanOwed'
  BY <1>2, <1>3, <1>4 DEF Fits, AsksNoMoreThanOwed, AskedOf
<1>6. ASSUME NEW j, FitsIn(j) PROVE FitsIn(j)'
  BY <1>2, <1>3, <1>4, <1>6 DEF FitsIn
<1>7. ASSUME NEW g \in Handlers PROVE FitsIn(job[g])'
  <2>1. PICK j : j = job[g]
    OBVIOUS
  <2>2. FitsIn(j)'
    BY <1>6, <2>1 DEF Fits
  <2> QED BY <1>1, <2>1, <2>2 DEF FitsIn
<1> QED BY <1>5, <1>7 DEF Fits

LEMMA StartsFits == ASSUME OneAtATime, Sound, Fits, NEW h \in Handlers, Starts(h) PROVE Fits'
<1>1. TypeOK
  BY DEF Sound, Typed
<1>2. UNCHANGED link
  BY LinkSteps
<1>3. ASSUME NEW j, Goes(h, j), j.at \in {"ask", "patch", "cancel", "delete", "refund"} PROVE Fits'
  BY <1>1, <1>2, <1>3, FitsGoes DEF FitsIn
<1>4. ASSUME NEW q \in Requests, Approve(h, q) PROVE Fits'
  <2>1. PICK amount \in 1..Outstanding : Goes(h, [at |-> "claim", q |-> q, amount |-> amount])
    BY <1>4 DEF Approve, Begins, Goes
  <2>2. PICK j : j = [at |-> "claim", q |-> q, amount |-> amount]
    OBVIOUS
  <2>3. Asked + amount <= Total
    BY <1>1, OutstandingTyped, PaymentLinksAssumption
  <2>4. AskedOf(Live) = Asked
    BY <1>1, LiveCounts DEF AskedOf, Asked
  <2>5. FitsIn(j)
    BY <2>2, <2>3, <2>4 DEF FitsIn
  <2> QED BY <1>1, <1>2, <2>1, <2>2, <2>5, FitsGoes
<1>5. ASSUME NEW l \in Links, Check(h, l) \/ Recheck(h, l) \/ Extend(h, l) \/ Remove(h, l) PROVE Fits'
  BY <1>3, <1>5 DEF Check, Recheck, Extend, Remove, Reads, Begins, Goes
<1>6. ASSUME NEW l \in Links, NEW event \in Statuses, Deliver(h, l, event) PROVE Fits'
  <2> DEFINE c == AfterEvent(l, event)
  <2>1. PICK j : j = [at |-> "save", l |-> l, copy |-> c, news |-> IsNews(l, event), q |-> Nobody]
    OBVIOUS
  <2>2. Goes(h, j)
    BY <1>6, <2>1 DEF Deliver, Begins, Goes
  <2>3. CASE Have(l)
    <3>1. /\ c.status = Further(link[l].status, event) /\ c.billed = link[l].billed
          /\ c.amount = link[l].amount /\ link[l].status \in Statuses
      BY <1>1, <2>3, LinkTyped DEF AfterEvent, Stored
    <3>2. link[l].status \in {"expired", "cancelled"} => rz[l].status = link[l].status
      BY <2>3 DEF Sound, Told, Behind, Final
    <3>3. event = "paid" => rz[l].status = "paid"
      BY <1>6 DEF Deliver, Sound, Told, Consistent, Final
    <3>4. link[l].status \in {"expired", "cancelled"} => c.status = link[l].status
      BY <3>1, <3>2, <3>3 DEF Further, Rank, Statuses
    <3>5. FitsIn(j)
      BY <1>1, <2>1, <2>3, <3>1, <3>4, SavedAgainFits
    <3> QED BY <1>1, <1>2, <2>2, <3>5, FitsGoes
  <2>4. CASE ~Have(l)
    <3>1. c.billed = FALSE
      BY <2>4 DEF AfterEvent, FromEvent
    <3>2. FitsIn(j)
      BY <2>1, <3>1 DEF FitsIn
    <3> QED BY <1>1, <1>2, <2>2, <3>2, FitsGoes
  <2> QED BY <2>3, <2>4
<1>7. ASSUME NEW r \in Refunds, FindRefund(h, r) PROVE Fits'
  <2> DEFINE l == rzRefund[r].l
             on == IF l \in indexed THEN l ELSE Nobody
             billed == l \in indexed /\ link[l].billed
  <2>1. PICK status \in {"pending", rzRefund[r].status} :
          Goes(h, [at |-> "refund", r |-> r, status |-> status, l |-> on, billed |-> billed])
    BY <1>7 DEF FindRefund, Begins, Goes
  <2> QED BY <1>3, <2>1
<1> QED BY <1>4, <1>5, <1>6, <1>7 DEF Starts

LEMMA MakingFits ==
    ASSUME OneAtATime, Sound, Fits, NEW h \in Handlers,
           Claim(h) \/ Post(h) \/ Lookup(h) \/ PostFails(h)
    PROVE  Fits'
<1>0. PICK q \in Requests, amount \in 1..Total :
        job[h] \in Making /\ job[h].q = q /\ job[h].amount = amount
  BY Places DEF Sound, Typed, Claim, Post, Lookup, PostFails, Making
<1>1. TypeOK /\ UNCHANGED link
  BY LinkSteps DEF Sound, Typed, Continues, Breaks, Claim, Post, Lookup, PostFails, kept
<1>2. AskedOf(Live) + amount <= Total
  BY <1>0 DEF Fits, FitsIn, Claim, Post, Lookup, PostFails
<1>3. ASSUME NEW at \in {"post", "lookup"}, Goes(h, [job[h] EXCEPT !.at = at])
      PROVE  Fits'
  <2>1. PICK j : j = [job[h] EXCEPT !.at = at]
    OBVIOUS
  <2>2. j.at = at /\ j.amount = amount /\ Goes(h, j)
    BY <1>0, <1>3, <2>1 DEF Making
  <2>3. FitsIn(j)
    BY <1>2, <2>2 DEF FitsIn
  <2> QED BY <1>1, <2>2, <2>3, FitsGoes
<1>4. ASSUME NEW l \in Links, Goes(h, Storing(l, q, amount)) PROVE Fits'
  <2>1. PICK j : j = Storing(l, q, amount)
    OBVIOUS
  <2>2. j.at = "save" /\ j.l = l /\ j.copy.amount = amount
    BY <2>1 DEF Storing, NewRecord
  <2>3. AskedOf(Live \ {l}) + amount <= Total
    BY <1>1, <1>2, AskedOfLive, PaymentLinksAssumption
  <2>4. FitsIn(j)
    BY <2>2, <2>3 DEF FitsIn
  <2> QED BY <1>1, <1>4, <2>1, <2>4, FitsGoes
<1>5. CASE Claim(h)
  BY <1>1, <1>3, <1>5, FitsEnds DEF Claim
<1>6. CASE PostFails(h)
  BY <1>1, <1>6, FitsEnds DEF PostFails, Fails
<1>7. CASE Lookup(h)
  <2>1. CASE Fails(h)
    BY <1>1, <2>1, FitsEnds DEF Fails
  <2>2. CASE ~Fails(h)
    <3>1. PICK l \in MadeFor(q) : Goes(h, Storing(l, q, amount))
      BY <1>0, <1>7, <2>2 DEF Lookup
    <3> QED BY <1>4, <3>1 DEF MadeFor
  <2> QED BY <2>1, <2>2
<1>8. CASE Post(h)
  BY <1>0, <1>3, <1>4, <1>8, PostMakes DEF Makes
<1> QED BY <1>5, <1>6, <1>7, <1>8

LEMMA AskingFits ==
    ASSUME OneAtATime, Sound, Fresh, Fits, NEW h \in Handlers,
           Ask(h) \/ Patch(h) \/ Cancel(h) \/ CannotCancel(h)
    PROVE  Fits'
<1>0. PICK l \in Links, c \in Stored :
        job[h] \in Changing /\ job[h].l = l /\ job[h].copy = c /\ Have(l) /\ c = link[l] /\ Behind(c, l)
  BY Places DEF Sound, Typed, Ask, Patch, Cancel, CannotCancel, Changing, Fresh, HoldsFresh,
                Told, HoldsTrue
<1>1. TypeOK /\ UNCHANGED link
  BY DEF Sound, Typed, Ask, Patch, Cancel, CannotCancel, kept
<1>2. ASSUME NEW news,
             Goes(h, [at |-> "save", l |-> l, copy |-> Answered(c, l), news |-> news, q |-> Nobody])
      PROVE  Fits'
  <2>1. PICK j : j = [at |-> "save", l |-> l, copy |-> Answered(c, l), news |-> news, q |-> Nobody]
    OBVIOUS
  <2>2. Answered(c, l).status = rz[l].status /\ Answered(c, l).billed = c.billed
        /\ Answered(c, l).amount = c.amount
    BY DEF Answered, Stored
  <2>3. FitsIn(j)
    BY <1>0, <1>1, <2>1, <2>2, SavedAgainFits DEF Behind, Final
  <2> QED BY <1>1, <1>2, <2>1, <2>3, FitsGoes
<1>3. ASSUME NEW j, Goes(h, j), j.at \in {"delete", "refused"} PROVE Fits'
  BY <1>1, <1>3, FitsGoes DEF FitsIn
<1>4. CASE Ask(h)
  BY <1>0, <1>2, <1>4 DEF Ask, SavesAnswer
<1>5. CASE Patch(h)
  BY <1>0, <1>1, <1>2, <1>5, FitsEnds DEF Patch
<1>6. CASE CannotCancel(h)
  BY <1>0, <1>1, <1>2, <1>3, <1>6, FitsEnds DEF CannotCancel, Refusal, SavesAnswer
<1>7. CASE Cancel(h)
  <2>1. CASE Goes(h, [job[h] EXCEPT !.at = "refused"])
    <3>1. PICK j : j = [job[h] EXCEPT !.at = "refused"]
      OBVIOUS
    <3>2. j.at = "refused"
      BY <1>0, <3>1 DEF Changing
    <3> QED BY <1>3, <2>1, <3>1, <3>2
  <2> QED BY <1>0, <1>1, <1>3, <1>7, <2>1, FitsEnds DEF Cancel
<1> QED BY <1>4, <1>5, <1>6, <1>7

LEMMA SaveFits == ASSUME OneAtATime, Sound, Fits, NEW h \in Handlers, Save(h) PROVE Fits'
<1>1. TypeOK
  BY DEF Sound, Typed
<1>2. PICK l \in Links, c \in Stored : job[h].l = l /\ job[h].copy = c
  BY <1>1, Places DEF Save, Saving
<1>3. \A m \in Links : link'[m] = IF m = l THEN c ELSE link[m]
  BY <1>1, <1>2 DEF Save, TypeOK
<1>4. PICK T : T = Live \ {l}
  OBVIOUS
<1>5. PICK g : g = Amounts(T)
  OBVIOUS
<1>6. T \in SUBSET OnInvoice /\ T \in SUBSET Links
  BY <1>4 DEF Live, OnInvoice
<1>7. /\ IsFiniteSet(T) /\ g \in [T -> 0..Total] /\ SumOf(g) \in Nat
      /\ SumOf(g) = AskedOf(Live \ {l}) /\ SumOf(g) <= Total
  <2>1. IsFiniteSet(T) /\ g \in [T -> 0..Total] /\ SumOf(g) \in Nat
    BY <1>1, <1>5, <1>6, AskedTyped
  <2>2. SumOf(g) = AskedOf(Live \ {l})
    BY <1>4, <1>5 DEF AskedOf
  <2> QED BY <1>1, <2>1, <2>2, AskedOfLive, PaymentLinksAssumption DEF Fits, AsksNoMoreThanOwed, AskedOf
<1>8. \A g2 \in Handlers : FitsIn(job[g2])'
  <2>1. PICK j : Goes(h, j) /\ j.at \in {"sync", "tell"}
    BY DEF Save, After
  <2> QED BY <1>1, <2>1, OneGoes DEF FitsIn
<1>9. CASE c.billed /\ c.status \notin {"expired", "cancelled"}
  <2>1. Live' = T \cup {l}
    BY <1>2, <1>3, <1>4, <1>9 DEF Live, OnInvoice, Have, Stored, NoLink, Statuses
  <2>2. PICK f : f = [x \in T \cup {l} |-> IF x = l THEN c.amount ELSE g[x]]
    OBVIOUS
  <2>3. Amounts(T \cup {l})' = f
    BY <1>2, <1>3, <1>4, <1>5, <1>6, <2>2 DEF Amounts
  <2>4. SumOf(f) = SumOf(g) + c.amount
    <3>1. IsFiniteSet(T \cup {l}) /\ c.amount \in 0..Total /\ Total \in Nat
      BY <1>2, <1>7, FS_AddElement, PaymentLinksAssumption DEF Stored
    <3>2. f \in [T \cup {l} -> 0..Total]
      BY <1>7, <2>2, <3>1
    <3>3. SumOf(f) = SumOf([x \in (T \cup {l}) \ {l} |-> f[x]]) + f[l]
      BY <3>1, <3>2, SumWith
    <3>4. [x \in (T \cup {l}) \ {l} |-> f[x]] = g
      BY <1>4, <1>7, <2>2
    <3> QED BY <2>2, <3>3, <3>4
  <2>5. SumOf(g) + c.amount <= Total
    BY <1>2, <1>7, <1>9 DEF Fits, FitsIn, Save
  <2>6. AsksNoMoreThanOwed'
    BY <2>1, <2>3, <2>4, <2>5 DEF AsksNoMoreThanOwed
  <2> QED BY <1>8, <2>6 DEF Fits
<1>10. CASE ~(c.billed /\ c.status \notin {"expired", "cancelled"})
  <2>1. Live' = T
    BY <1>2, <1>3, <1>4, <1>10 DEF Live, OnInvoice, Have
  <2>2. Amounts(T)' = g
    BY <1>3, <1>4, <1>5, <1>6 DEF Amounts
  <2>3. AsksNoMoreThanOwed'
    BY <1>7, <2>1, <2>2 DEF AsksNoMoreThanOwed
  <2> QED BY <1>8, <2>3 DEF Fits
<1> QED BY <1>9, <1>10

LEMMA DeleteFits == ASSUME OneAtATime, Sound, Fits, NEW h \in Handlers, Delete(h) PROVE Fits'
<1>1. TypeOK
  BY DEF Sound, Typed
<1>2. PICK l \in Links : job[h].l = l
  BY <1>1, Places DEF Delete, Deleting
<1>3. \A m \in Links : link'[m] = IF m = l THEN NoLink ELSE link[m]
  BY <1>1, <1>2 DEF Delete, TypeOK
<1>4. PICK T : T = Live \ {l}
  OBVIOUS
<1>5. Live' = T
  BY <1>3, <1>4 DEF Live, OnInvoice, Have
<1>6. AskedOf(T)' = AskedOf(T)
  BY <1>3, <1>4, SameAsked DEF Live, OnInvoice
<1>7. AskedOf(T) <= Total
  BY <1>1, <1>4, AskedOfLive, PaymentLinksAssumption DEF Fits, AsksNoMoreThanOwed, AskedOf
<1>8. AsksNoMoreThanOwed'
  BY <1>5, <1>6, <1>7 DEF AsksNoMoreThanOwed, AskedOf
<1>9. \A g \in Handlers : FitsIn(job[g])'
  <2>1. \A g \in Handlers : job'[g] = Idle
    BY <1>1, OneGoes DEF Delete, Ends
  <2> QED BY <2>1 DEF FitsIn, Idle
<1> QED BY <1>8, <1>9 DEF Fits

LEMMA RestFits ==
    ASSUME OneAtATime, Sound, Fits, NEW h \in Handlers,
           Sync(h) \/ Write(h) \/ SyncFails(h) \/ Tell(h) \/ RecordRefund(h) \/ Die(h)
    PROVE  Fits'
<1>1. TypeOK /\ UNCHANGED link
  BY DEF Sound, Typed, Sync, Write, SyncFails, Tell, RecordRefund, Die, kept
<1>2. PICK j : Goes(h, j) /\ j.at \in {"idle", "sync", "write", "tell"}
  BY DEF Sync, Write, SyncFails, Tell, RecordRefund, Die, Ends, After, Idle
<1>3. FitsIn(j)
  BY <1>2 DEF FitsIn
<1> QED BY <1>1, <1>2, <1>3, FitsGoes

(* Handled one at a time, the links on an invoice never ask, paid or yet   *)
(* to be paid, for more than it is for: what a request was approved for    *)
(* fits until it is stored, and no link comes back once it has ended       *)
(* (approveAmount, outstandingPaise, nextLinkStatus).                      *)
THEOREM LinksFitTheInvoice == OneAtATime => (Spec => []AsksNoMoreThanOwed)
<1> SUFFICES ASSUME OneAtATime PROVE Spec => []AsksNoMoreThanOwed
  OBVIOUS
<1>1. Init => Fits
  <2> SUFFICES ASSUME Init PROVE Fits
    OBVIOUS
  <2>1. Live = {}
    BY DEF Init, Live, OnInvoice, Have
  <2>2. PICK f : f = Amounts({})
    OBVIOUS
  <2>3. UNION {{l} \X (1..f[l]) : l \in DOMAIN f} = {}
    BY <2>2 DEF Amounts
  <2>4. SumOf(f) = 0
    BY <2>3, FS_EmptySet DEF SumOf
  <2> QED BY <2>1, <2>2, <2>4, PaymentLinksAssumption
      DEF Init, Fits, AsksNoMoreThanOwed, FitsIn, Idle
<1>2. Sound /\ Fresh /\ Fits /\ [Next]_vars => Fits'
  <2> SUFFICES ASSUME Sound, Fresh, Fits, [Next]_vars PROVE Fits'
    OBVIOUS
  <2>1. CASE Outside \/ UNCHANGED vars
    BY <2>1, OutsideFits
  <2>2. ASSUME NEW h \in Handlers, Starts(h) PROVE Fits'
    BY <2>2, StartsFits
  <2>3. ASSUME NEW h \in Handlers, Continues(h) \/ Breaks(h) PROVE Fits'
    BY <2>3, MakingFits, AskingFits, SaveFits, DeleteFits, RestFits DEF Continues, Breaks
  <2> QED BY <2>1, <2>2, <2>3 DEF Next
<1>3. Fits => AsksNoMoreThanOwed
  BY DEF Fits
<1> QED BY <1>1, <1>2, <1>3, SpecSound, SpecFresh, PTL DEF Spec

(* The payments known are of links that are paid, and a refund is known to *)
(* be on such a link.                                                      *)
PaidIndexed == \A l \in indexed : Have(l) /\ link[l].status = "paid"

RefundRight(j) ==
    j.at = "refund" =>
        /\ rzRefund[j.r] # NotMade
        /\ j.l = IF rzRefund[j.r].l \in indexed THEN rzRefund[j.r].l ELSE Nobody
        /\ j.billed <=> j.l # Nobody /\ link[j.l].billed

Traced ==
    /\ PaidIndexed
    /\ \A r \in Refunds : rzRefund[r] # NotMade =>
         Made(rzRefund[r].l) /\ rz[rzRefund[r].l].status = "paid"
    /\ \A r \in Refunds : refund[r] # NoLink /\ refund[r].l # Nobody =>
         rzRefund[r] # NotMade /\ refund[r].l = rzRefund[r].l /\ refund[r].l \in indexed
    /\ \A h \in Handlers : RefundRight(job[h])

(* The invoice shows what its links collected but while a handler is about *)
(* to tell it, which knows what to show.                                   *)
Counted ==
    ~torn =>
        /\ (\A h \in Handlers : job[h].at \notin {"sync", "write"}) => shown = Net
        /\ \A h \in Handlers : job[h].at = "write" => job[h].sum = Net

(* What Razorpay has of a paid link does not change. *)
LEMMA PaidStays ==
    ASSUME Sound, [Next]_vars, NEW l \in Links, Made(l), rz[l].status = "paid"
    PROVE  rz'[l] = rz[l]
<1>1. TypeOK
  BY DEF Sound, Typed
<1>2. ASSUME NEW m \in Links, MakeAtDashboard(m) PROVE rz'[l] = rz[l]
  BY <1>1, <1>2 DEF MakeAtDashboard, TypeOK
<1>3. ASSUME NEW m \in Links, Pay(m) \/ Expire(m) \/ PayPart(m) PROVE rz'[l] = rz[l]
  BY <1>1, <1>3 DEF Pay, Expire, PayPart, Changes, Open, TypeOK
<1>4. ASSUME NEW h \in Handlers, Post(h) PROVE rz'[l] = rz[l]
  BY <1>1, <1>4, PostMakes DEF Makes, TypeOK
<1>5. ASSUME NEW h \in Handlers, Cancel(h) PROVE rz'[l] = rz[l]
  BY <1>1, <1>5 DEF Cancel, TypeOK
<1> QED BY <1>2, <1>3, <1>4, <1>5, RazorpaySteps DEF Outside, RefundChanges

LEMMA RefundRows ==
    ASSUME Sound, [Next]_vars, NEW r \in Refunds
    PROVE  \/ rzRefund'[r] = rzRefund[r]
           \/ rzRefund[r] # NotMade /\ rzRefund'[r] # NotMade /\ rzRefund'[r].l = rzRefund[r].l
           \/ /\ rzRefund[r] = NotMade /\ rzRefund'[r].l \in Links
              /\ Made(rzRefund'[r].l) /\ rz[rzRefund'[r].l].status = "paid"
<1>1. TypeOK
  BY DEF Sound, Typed
<1>2. ASSUME NEW h \in Handlers, Starts(h) \/ Continues(h) \/ Breaks(h) PROVE UNCHANGED rzRefund
  BY <1>2 DEF Starts, Continues, Breaks, there, Approve, Check, Recheck, Extend, Remove, Reads,
              Deliver, FindRefund, Claim, Post, Lookup, Save, Sync, Write, Tell, Ask, Patch, Cancel,
              CannotCancel, Delete, RecordRefund, PostFails, SyncFails, Die
<1>3. ASSUME NEW q \in Refunds, RefundChanges(q), q = r, rzRefund[r] = NotMade
      PROVE  rzRefund'[r].l \in Links /\ Made(rzRefund'[r].l) /\ rz[rzRefund'[r].l].status = "paid"
  BY <1>1, <1>3 DEF RefundChanges, TypeOK
<1>4. ASSUME NEW q \in Refunds, RefundChanges(q), q = r, rzRefund[r] # NotMade
      PROVE  rzRefund'[r] # NotMade /\ rzRefund'[r].l = rzRefund[r].l
  <2>1. rzRefund[r] \in [status : RefundStatus, l : Links]
    BY <1>1, <1>4 DEF TypeOK
  <2>2. PICK st \in {"processed", "failed"} : rzRefund' = [rzRefund EXCEPT ![r].status = st]
    BY <1>4 DEF RefundChanges
  <2>3. rzRefund'[r] = [rzRefund[r] EXCEPT !.status = st]
    BY <1>1, <2>2 DEF TypeOK
  <2>4. rzRefund'[r].status = st /\ rzRefund'[r].l = rzRefund[r].l /\ NotMade.status = "none"
    BY <2>1, <2>3 DEF NotMade
  <2> QED BY <2>4
<1>5. ASSUME NEW q \in Refunds, RefundChanges(q), q # r PROVE rzRefund'[r] = rzRefund[r]
  BY <1>1, <1>5 DEF RefundChanges, TypeOK
<1>6. CASE Outside
  BY <1>3, <1>4, <1>5, <1>6 DEF Outside, MakeAtDashboard, Pay, Expire, PayPart, Changes
<1> QED BY <1>2, <1>6 DEF Next, vars, there

(* The payments known stay known. *)
LEMMA IndexStays ==
    ASSUME Sound, Fresh, PaidIndexed, [Next]_vars
    PROVE  PaidIndexed' /\ indexed \in SUBSET indexed'
<1>1. TypeOK
  BY DEF Sound, Typed
<1>2. ASSUME NEW h \in Handlers, Save(h) PROVE PaidIndexed' /\ indexed \in SUBSET indexed'
  <2>1. PICK l \in Links, c \in Stored : job[h].l = l /\ job[h].copy = c
    BY <1>1, <1>2, Places DEF Save, Saving
  <2>2. \A m \in Links : link'[m] = IF m = l THEN c ELSE link[m]
    BY <1>1, <1>2, <2>1 DEF Save, TypeOK
  <2>3. c # NoLink
    BY DEF NoLink, Stored
  <2>4. Have(l) => Rank(link[l].status) <= Rank(c.status) /\ (link[l].billed => c.billed)
    BY <1>2, <2>1 DEF Fresh, HoldsFresh, Save
  <2>5. l \in indexed => c.status = "paid"
    BY <2>4 DEF PaidIndexed, Rank, Stored, Statuses
  <2>6. indexed' = IF c.status = "paid" THEN indexed \cup {l} ELSE indexed
    BY <1>2, <2>1 DEF Save
  <2>7. indexed \in SUBSET Links
    BY <1>1 DEF TypeOK
  <2> QED BY <2>2, <2>3, <2>4, <2>5, <2>6, <2>7 DEF PaidIndexed, Have
<1>3. ASSUME NEW h \in Handlers, Delete(h)
      PROVE  PaidIndexed' /\ UNCHANGED indexed
  <2>1. PICK l \in Links : job[h].l = l /\ rz[l].status \in {"expired", "cancelled"}
    BY <1>1, <1>3, Places DEF Delete, Deleting, Sound, Told, HoldsTrue
  <2>2. l \notin indexed
    BY <2>1 DEF PaidIndexed, Sound, Told, Behind, Final
  <2>3. \A m \in Links : link'[m] = IF m = l THEN NoLink ELSE link[m]
    BY <1>1, <1>3, <2>1 DEF Delete, TypeOK
  <2> QED BY <1>1, <1>3, <2>1, <2>2, <2>3 DEF Delete, PaidIndexed, Have, TypeOK
<1>4. CASE UNCHANGED <<link, indexed>>
  BY <1>4 DEF PaidIndexed, Have
<1>5. ASSUME NEW h \in Handlers, Starts(h) \/ (Continues(h) /\ ~Save(h) /\ ~Delete(h)) \/ Breaks(h)
      PROVE  UNCHANGED <<link, indexed>>
  BY <1>5 DEF Starts, Continues, Breaks, kept, Approve, Check, Recheck, Extend, Remove, Reads,
              Deliver, FindRefund, Claim, Post, Lookup, Sync, Write, Tell, Ask, Patch, Cancel,
              CannotCancel, RecordRefund, PostFails, SyncFails, Die
<1>6. CASE Outside \/ UNCHANGED vars
  BY <1>4, <1>6 DEF Outside, MakeAtDashboard, Pay, Expire, PayPart, Changes, RefundChanges, vars, kept
<1> QED BY <1>2, <1>3, <1>4, <1>5, <1>6 DEF Next

(* A step that records no refund. *)
LEMMA TracedGoes ==
    ASSUME Sound, Fresh, Traced, [Next]_vars, UNCHANGED refund,
           \A h \in Handlers : RefundRight(job[h])'
    PROVE  Traced'
<1>1. PaidIndexed' /\ indexed \in SUBSET indexed'
  BY IndexStays DEF Traced
<1>2. ASSUME NEW r \in Refunds, rzRefund'[r] # NotMade
      PROVE  \E l \in Links : rzRefund'[r].l = l /\ Made(l)' /\ rz'[l].status = "paid"
  <2>1. PICK l \in Links : rzRefund'[r].l = l /\ Made(l) /\ rz[l].status = "paid"
    <3>1. rzRefund[r] # NotMade =>
            rzRefund[r].l \in Links /\ Made(rzRefund[r].l) /\ rz[rzRefund[r].l].status = "paid"
      BY DEF Sound, Typed, TypeOK, Traced
    <3>2. CASE \/ rzRefund'[r] = rzRefund[r]
               \/ rzRefund[r] # NotMade /\ rzRefund'[r].l = rzRefund[r].l
      BY <1>2, <3>1, <3>2
    <3>3. CASE /\ rzRefund'[r].l \in Links
               /\ Made(rzRefund'[r].l) /\ rz[rzRefund'[r].l].status = "paid"
      BY <3>3
    <3> QED BY <3>2, <3>3, RefundRows
  <2> QED BY <2>1, PaidStays DEF Made
<1>3. ASSUME NEW r \in Refunds, refund'[r] # NoLink, refund'[r].l # Nobody
      PROVE  rzRefund'[r] # NotMade /\ refund'[r].l = rzRefund'[r].l /\ refund'[r].l \in indexed'
  BY <1>1, <1>3, RefundRows DEF Traced
<1> QED BY <1>1, <1>2, <1>3 DEF Traced, Made

LEMMA RefundGoes ==
    ASSUME OneAtATime, TypeOK, NEW h \in Handlers, NEW j, Goes(h, j), j.at # "refund"
    PROVE  \A g \in Handlers : RefundRight(job[g])'
BY OneGoes DEF RefundRight

LEMMA BeginsGoes == ASSUME NEW h \in Handlers, NEW j, Begins(h, j) PROVE job[h].at = "idle" /\ Goes(h, j)
BY DEF Begins, Goes, Idle

(* Where a step takes its handler. *)
Moved(h) ==
    \E j : /\ Goes(h, j)
           /\ j.at = "refund" => \E r \in Refunds : FindRefund(h, r)
           /\ j.at = "write" => Sync(h)
           /\ j.at = "sync" => Save(h) \/ RecordRefund(h)

LEMMA NextJob ==
    ASSUME TypeOK, NEW h \in Handlers, Starts(h) \/ Continues(h) \/ Breaks(h)
    PROVE  Moved(h)
<1>1. ASSUME NEW j, Goes(h, j), j.at \notin {"refund", "write", "sync"} PROVE Moved(h)
  BY <1>1 DEF Moved
<1>2. Idle.at = "idle" /\ \A at : After(h, at).at = at
  BY DEF Idle, After
<1>3. CASE Ends(h)
  BY <1>1, <1>2, <1>3 DEF Ends
<1>4. ASSUME NEW l \in Links, Check(h, l) \/ Recheck(h, l) \/ Extend(h, l) \/ Remove(h, l) PROVE Moved(h)
  <2>1. CASE Remove(h, l)
    BY <1>1, <2>1, BeginsGoes DEF Remove
  <2>2. CASE Check(h, l) \/ Recheck(h, l) \/ Extend(h, l)
    BY <1>1, <2>2, BeginsGoes DEF Check, Recheck, Extend, Reads
  <2> QED BY <1>4, <2>1, <2>2
<1>5. ASSUME NEW l \in Links, NEW event \in Statuses, Deliver(h, l, event) PROVE Moved(h)
  BY <1>1, <1>5, BeginsGoes DEF Deliver
<1>6. ASSUME NEW q \in Requests, Approve(h, q) PROVE Moved(h)
  BY <1>1, <1>6, BeginsGoes DEF Approve
<1>7. ASSUME NEW r \in Refunds, FindRefund(h, r) PROVE Moved(h)
  <2>1. ASSUME NEW j, Goes(h, j), j.at = "refund" PROVE Moved(h)
    BY <1>7, <2>1 DEF Moved
  <2> QED BY <1>7, <2>1, BeginsGoes DEF FindRefund
<1>8. CASE Claim(h) \/ Post(h) \/ Lookup(h) \/ PostFails(h)
  <2>1. \A at : [job[h] EXCEPT !.at = at].at = at
    BY <1>8, Places DEF Claim, Post, Lookup, PostFails, Making
  <2>2. \A l, q, amount : Storing(l, q, amount).at = "save"
    BY DEF Storing
  <2>3. CASE Claim(h)
    BY <1>1, <1>3, <2>1, <2>3 DEF Claim
  <2>4. CASE Lookup(h) \/ PostFails(h)
    BY <1>1, <1>3, <2>2, <2>4 DEF Lookup, PostFails, Fails
  <2>5. CASE Post(h)
    BY <1>1, <2>1, <2>2, <2>5, PostMakes DEF Makes
  <2> QED BY <1>8, <2>3, <2>4, <2>5
<1>9. CASE Cancel(h)
  <2>1. [job[h] EXCEPT !.at = "refused"].at = "refused"
    BY <1>9, Places DEF Cancel, Changing
  <2> QED BY <1>1, <1>3, <1>9, <2>1 DEF Cancel
<1>10. CASE Save(h)
  <2>1. PICK j : Goes(h, j) /\ j.at \in {"sync", "tell"}
    BY <1>10 DEF Save, After
  <2> QED BY <1>10, <2>1 DEF Moved
<1>11. CASE Sync(h)
  <2>1. PICK j : Goes(h, j) /\ j.at \in {"write", "tell"}
    BY <1>11 DEF Sync, After
  <2> QED BY <1>11, <2>1 DEF Moved
<1>12. CASE RecordRefund(h)
  <2>1. PICK j : Goes(h, j) /\ j.at \in {"sync", "idle"}
    BY <1>12 DEF RecordRefund, Ends, Idle
  <2> QED BY <1>12, <2>1 DEF Moved
<1>13. CASE Write(h) \/ SyncFails(h)
  BY <1>1, <1>2, <1>13 DEF Write, SyncFails
<1>14. CASE Ask(h) \/ Patch(h) \/ CannotCancel(h)
  BY <1>1, <1>3, <1>14 DEF Ask, Patch, CannotCancel, Refusal, SavesAnswer
<1>15. CASE Tell(h) \/ Die(h) \/ Delete(h)
  BY <1>3, <1>15 DEF Tell, Die, Delete
<1> QED BY <1>4, <1>5, <1>6, <1>7, <1>8, <1>9, <1>10, <1>11, <1>12, <1>13, <1>14, <1>15
        DEF Starts, Continues, Breaks

LEMMA NextTraced ==
    ASSUME OneAtATime, Sound, Fresh, Traced, [Next]_vars
    PROVE  Traced'
<1>1. TypeOK
  BY DEF Sound, Typed
<1>2. CASE Outside \/ UNCHANGED vars
  <2>1. UNCHANGED <<link, indexed, refund, job>>
    BY <1>2 DEF Outside, MakeAtDashboard, Pay, Expire, PayPart, Changes, RefundChanges, vars, kept
  <2>2. ASSUME NEW g \in Handlers, job[g].at = "refund" PROVE RefundRight(job[g])'
    <3>1. PICK r \in Refunds : job[g].r = r
      BY <1>1, <2>2, Places DEF Refunding
    <3>2. rzRefund'[r] # NotMade /\ rzRefund'[r].l = rzRefund[r].l
      BY <2>2, <3>1, RefundRows DEF Traced, RefundRight
    <3> QED BY <2>1, <2>2, <3>1, <3>2 DEF Traced, RefundRight
  <2>3. \A g \in Handlers : RefundRight(job[g])'
    BY <2>1, <2>2 DEF RefundRight
  <2> QED BY <2>1, <2>3, TracedGoes
<1>3. ASSUME NEW h \in Handlers, NEW r \in Refunds, FindRefund(h, r) PROVE Traced'
  <2> DEFINE l == rzRefund[r].l
             on == IF l \in indexed THEN l ELSE Nobody
             billed == l \in indexed /\ link[l].billed
  <2>1. PICK status \in {"pending", rzRefund[r].status} :
          Goes(h, [at |-> "refund", r |-> r, status |-> status, l |-> on, billed |-> billed])
    BY <1>3 DEF FindRefund, Begins, Goes
  <2>2. PICK j : j = [at |-> "refund", r |-> r, status |-> status, l |-> on, billed |-> billed]
    OBVIOUS
  <2>3. UNCHANGED <<rzRefund, link, indexed, refund>> /\ rzRefund[r] # NotMade /\ l \in Links
    BY <1>1, <1>3 DEF FindRefund, there, kept, TypeOK
  <2>4. l # Nobody
    BY <2>3, PaymentLinksAssumption DEF Nobody
  <2>5. RefundRight(j)
    BY <2>2, <2>3, <2>4 DEF RefundRight
  <2>6. RefundRight(j)'
    BY <2>3, <2>5 DEF RefundRight
  <2>7. \A g \in Handlers : job'[g] = j
    BY <1>1, <2>1, <2>2, OneGoes
  <2>8. \A g \in Handlers : RefundRight(job[g])'
    BY <2>6, <2>7 DEF RefundRight
  <2> QED BY <2>3, <2>8, TracedGoes
<1>4. ASSUME NEW h \in Handlers, RecordRefund(h) PROVE Traced'
  <2>1. PICK r \in Refunds, on \in Links \cup {Nobody} :
          job[h].r = r /\ job[h].l = on /\ job[h].at = "refund"
    BY <1>1, <1>4, Places DEF RecordRefund, Refunding
  <2>2. /\ rzRefund[r] # NotMade
        /\ on = IF rzRefund[r].l \in indexed THEN rzRefund[r].l ELSE Nobody
    BY <2>1 DEF Traced, RefundRight
  <2>3. UNCHANGED <<rz, rzRefund, link, indexed>>
    BY <1>4 DEF RecordRefund, there
  <2>4. refund'[r].l = IF refund[r] # NoLink /\ refund[r].l # Nobody THEN refund[r].l ELSE on
    BY <1>1, <1>4, <2>1 DEF RecordRefund, TypeOK, NoLink
  <2>5. \A q \in Refunds \ {r} : refund'[q] = refund[q]
    BY <1>1, <1>4, <2>1 DEF RecordRefund, TypeOK
  <2>6. ASSUME NEW q \in Refunds, refund'[q] # NoLink, refund'[q].l # Nobody
        PROVE  rzRefund[q] # NotMade /\ refund'[q].l = rzRefund[q].l /\ refund'[q].l \in indexed
    <3>1. CASE q = r
      BY <2>2, <2>4, <2>6, <3>1 DEF Traced
    <3>2. CASE q # r
      BY <2>5, <2>6, <3>2 DEF Traced
    <3> QED BY <3>1, <3>2
  <2>7. \A g \in Handlers : RefundRight(job[g])'
    <3>1. PICK j : Goes(h, j) /\ j.at # "refund"
      BY <1>4 DEF RecordRefund, Ends, Idle
    <3> QED BY <1>1, <3>1, RefundGoes
  <2> QED BY <2>3, <2>6, <2>7 DEF Traced, PaidIndexed, Have, Made
<1>5. ASSUME NEW h \in Handlers, Starts(h) \/ Continues(h) \/ Breaks(h),
             \A r \in Refunds : ~FindRefund(h, r), ~RecordRefund(h)
      PROVE  Traced'
  <2>1. UNCHANGED refund
    BY <1>5 DEF Starts, Continues, Breaks, kept, Approve, Check, Recheck, Extend, Remove, Reads,
                Deliver, Claim, Post, Lookup, Save, Sync, Write, Tell, Ask, Patch, Cancel,
                CannotCancel, Delete, PostFails, SyncFails, Die
  <2>2. PICK j : Goes(h, j) /\ j.at # "refund"
    BY <1>1, <1>5, NextJob DEF Moved
  <2> QED BY <1>1, <2>1, <2>2, RefundGoes, TracedGoes
<1> QED BY <1>2, <1>3, <1>4, <1>5 DEF Next

LEMMA SpecTraced == OneAtATime => (Spec => []Traced)
<1> SUFFICES ASSUME OneAtATime PROVE Spec => []Traced
  OBVIOUS
<1>1. Init => Traced
  BY DEF Init, Traced, PaidIndexed, RefundRight, Idle
<1>2. Sound /\ Fresh /\ Traced /\ [Next]_vars => Traced'
  BY NextTraced
<1> QED BY <1>1, <1>2, SpecSound, SpecFresh, PTL DEF Spec


-----------------------------------------------------------------------------
(* What the invoice shows. *)

NetOf(f, k) == IF SumOf(f) - k < 0 THEN 0 ELSE SumOf(f) - k
Takings     == [l \in OnInvoice |-> Collected(l)]

LEMMA NetIs == Net = NetOf(Takings, Cardinality(Refunded))
BY DEF Net, NetOf, Takings

(* What is on the invoice, collected and refunded settles what it shows. *)
LEMMA SameNet ==
    ASSUME NEW S, S = OnInvoice, S = OnInvoice', \A l \in S : Collected(l)' = Collected(l),
           \A r \in Refunds : (r \in Refunded)' <=> r \in Refunded
    PROVE  Net' = Net
<1>1. PICK f : f = Takings
  OBVIOUS
<1>2. Takings' = f
  BY <1>1 DEF Takings
<1>3. PICK R : R = Refunded
  OBVIOUS
<1>4. Refunded' = R
  BY <1>3 DEF Refunded
<1>5. PICK k : k = Cardinality(R)
  OBVIOUS
<1>6. Net = NetOf(f, k)
  BY <1>1, <1>3, <1>5, NetIs
<1>7. Net' = NetOf(f, k)
  BY <1>2, <1>4, <1>5 DEF Net, NetOf, Takings
<1> QED BY <1>6, <1>7

LEMMA NetStays == ASSUME UNCHANGED <<link, refund>> PROVE Net' = Net
<1>1. OnInvoice' = OnInvoice
  BY DEF OnInvoice, Have
<1>2. \A l : Collected(l)' = Collected(l)
  BY DEF Collected
<1>3. \A r \in Refunds : (r \in Refunded)' <=> r \in Refunded
  BY <1>1 DEF Refunded
<1> QED BY <1>1, <1>2, <1>3, SameNet

Counts(j) ==
    ~torn => /\ j.at \notin {"sync", "write"} => shown = Net
             /\ j.at = "write" => j.sum = Net

LEMMA CountsGoes ==
    ASSUME OneAtATime, TypeOK, NEW h \in Handlers, NEW j, Goes(h, j), Counts(j)'
    PROVE  Counted'
<1>1. \A g \in Handlers : job'[g] = j
  BY OneGoes
<1>2. j.at \notin {"sync", "write"} /\ ~torn' => shown' = Net'
  BY DEF Counts
<1>3. j.at = "write" /\ ~torn' => j.sum = Net'
  BY DEF Counts
<1> QED BY <1>1, <1>2, <1>3 DEF Counted

(* A step that leaves the links, the refunds and the invoice alone. *)
LEMMA PlainCounted ==
    ASSUME OneAtATime, TypeOK, Counted, NEW h \in Handlers, NEW j, Goes(h, j),
           UNCHANGED <<link, refund, shown>>, torn => torn',
           job[h].at \notin {"sync", "write"}, j.at \notin {"sync", "write"}
    PROVE  Counted'
<1>1. ~torn => shown = Net
  BY DEF Counted, OneAtATime
<1>2. Net' = Net
  BY NetStays
<1>3. Counts(j)'
  BY <1>1, <1>2 DEF Counts
<1> QED BY <1>3, CountsGoes

LEMMA OutsideCounted == ASSUME Counted, Outside \/ UNCHANGED vars PROVE Counted'
<1>1. UNCHANGED <<link, refund, shown, torn, job>>
  BY DEF Outside, MakeAtDashboard, Pay, Expire, PayPart, Changes, RefundChanges, vars, kept, notes
<1>2. Net' = Net
  BY <1>1, NetStays
<1> QED BY <1>1, <1>2 DEF Counted

LEMMA SaveCounted ==
    ASSUME OneAtATime, Sound, Fresh, Counted, NEW h \in Handlers, Save(h)
    PROVE  Counted'
<1>1. TypeOK
  BY DEF Sound, Typed
<1>2. PICK l \in Links, c \in Stored : job[h].l = l /\ job[h].copy = c
  BY <1>1, Places DEF Save, Saving
<1>3. CASE c.billed
  <2>1. PICK j : Goes(h, j) /\ j.at = "sync"
    BY <1>2, <1>3 DEF Save, After
  <2>2. Counts(j)'
    BY <2>1 DEF Counts
  <2> QED BY <1>1, <2>1, <2>2, CountsGoes
<1>4. CASE ~c.billed
  <2>1. PICK j : Goes(h, j) /\ j.at = "tell"
    BY <1>2, <1>4 DEF Save, After
  <2>2. \A m \in Links : link'[m] = IF m = l THEN c ELSE link[m]
    BY <1>1, <1>2 DEF Save, TypeOK
  <2>3. ~(Have(l) /\ link[l].billed)
    BY <1>2, <1>4 DEF Fresh, HoldsFresh, Save
  <2>4. PICK S : S = OnInvoice
    OBVIOUS
  <2>5. S = OnInvoice' /\ l \notin S
    BY <1>4, <2>2, <2>3, <2>4 DEF OnInvoice, Have
  <2>6. \A m \in S : Collected(m)' = Collected(m)
    BY <2>2, <2>4, <2>5 DEF Collected, OnInvoice
  <2>7. \A r \in Refunds : (r \in Refunded)' <=> r \in Refunded
    BY <2>4, <2>5 DEF Refunded, Save
  <2>8. Net' = Net
    BY <2>4, <2>5, <2>6, <2>7, SameNet
  <2>9. ~torn => shown = Net
    BY DEF Counted, OneAtATime, Save
  <2>10. Counts(j)'
    BY <2>1, <2>8, <2>9 DEF Counts, Save, notes
  <2> QED BY <1>1, <2>1, <2>10, CountsGoes
<1> QED BY <1>3, <1>4

LEMMA TellingCounted ==
    ASSUME OneAtATime, Sound, Counted, NEW h \in Handlers, Sync(h) \/ Write(h) \/ SyncFails(h)
    PROVE  Counted'
<1>1. TypeOK
  BY DEF Sound, Typed
<1>2. Net' = Net
  BY NetStays DEF Sync, Write, SyncFails, kept
<1>3. CASE Sync(h)
  <2>1. PICK j : Goes(h, j) /\ (IF Net = shown THEN j.at = "tell" ELSE j.at = "write" /\ j.sum = Net)
    BY <1>3 DEF Sync, After
  <2>2. Counts(j)'
    BY <1>2, <1>3, <2>1 DEF Counts, Sync, kept, notes
  <2> QED BY <1>1, <2>1, <2>2, CountsGoes
<1>4. CASE Write(h)
  <2>1. PICK j : Goes(h, j) /\ j.at = "tell"
    BY <1>4 DEF Write, After
  <2>2. ~torn => shown' = Net
    BY <1>4 DEF Counted, Write
  <2>3. Counts(j)'
    BY <1>2, <1>4, <2>1, <2>2 DEF Counts, Write, notes
  <2> QED BY <1>1, <2>1, <2>3, CountsGoes
<1>5. CASE SyncFails(h)
  BY <1>1, <1>5 DEF SyncFails, Counted
<1> QED BY <1>3, <1>4, <1>5

(* A link that is removed collected nothing. *)
LEMMA DeleteCounted ==
    ASSUME OneAtATime, Sound, Traced, Counted, NEW h \in Handlers, Delete(h)
    PROVE  Counted'
<1>1. TypeOK
  BY DEF Sound, Typed
<1>2. PICK l \in Links : job[h].l = l /\ Made(l) /\ rz[l].status \in {"expired", "cancelled"}
  BY <1>1, Places DEF Delete, Deleting, Sound, Told, HoldsTrue
<1>3. \A m \in Links : link'[m] = IF m = l THEN NoLink ELSE link[m]
  BY <1>1, <1>2 DEF Delete, TypeOK
<1>4. ASSUME l \in OnInvoice PROVE Collected(l) = 0
  <2>1. Have(l) /\ link[l].billed /\ link[l] \in Stored
    BY <1>1, <1>4, LinkTyped DEF OnInvoice
  <2>2. rz[l].paid = 0
    BY <1>2, <2>1 DEF Sound, Told, Behind, Consistent
  <2>3. link[l].status # "paid" /\ link[l].paid <= 0
    BY <1>2, <2>1, <2>2 DEF Sound, Told, Behind, Final
  <2> QED BY <2>1, <2>3 DEF Collected, Stored, Unknown
<1>5. \A r \in Refunds : refund[r] # NoLink => refund[r].l # l
  <2>1. l \notin indexed
    BY <1>2 DEF Traced, PaidIndexed, Sound, Told, Behind, Final
  <2>2. l # Nobody
    BY PaymentLinksAssumption DEF Nobody
  <2> QED BY <2>1, <2>2 DEF Traced
<1>6. PICK S : S = OnInvoice
  OBVIOUS
<1>7. OnInvoice' = S \ {l} /\ S \in SUBSET Links /\ IsFiniteSet(S)
  <2>1. OnInvoice' = S \ {l} /\ S \in SUBSET Links
    BY <1>3, <1>6 DEF OnInvoice, Have
  <2> QED BY <2>1, FS_Subset, PaymentLinksAssumption
<1>8. PICK f : f = Takings
  OBVIOUS
<1>9. f \in [S -> 0..Total] /\ (l \in S => f[l] = 0)
  BY <1>1, <1>4, <1>6, <1>8, CollectedTyped DEF Takings, OnInvoice
<1>10. PICK g : g = [x \in S \ {l} |-> f[x]]
  OBVIOUS
<1>11. Takings' = g
  <2>1. \A x \in S \ {l} : Collected(x)' = Collected(x)
    BY <1>3, <1>7 DEF Collected
  <2>2. \A x \in S : f[x] = Collected(x)
    BY <1>6, <1>8 DEF Takings
  <2> QED BY <1>7, <1>10, <2>1, <2>2 DEF Takings
<1>12. SumOf(g) = SumOf(f)
  <2>1. CASE l \in S
    <3>1. Total \in Nat
      BY PaymentLinksAssumption
    <3>2. SumOf(f) = SumOf([x \in S \ {l} |-> f[x]]) + f[l]
      BY <1>7, <1>9, <2>1, <3>1, SumWith
    <3>3. g \in [S \ {l} -> 0..Total] /\ IsFiniteSet(S \ {l})
      BY <1>7, <1>9, <1>10, FS_Difference
    <3>4. SumOf(g) \in Nat
      BY <3>1, <3>3, UnitsIn
    <3> QED BY <1>9, <1>10, <2>1, <3>2, <3>4
  <2>2. CASE l \notin S
    BY <1>9, <1>10, <2>2
  <2> QED BY <2>1, <2>2
<1>13. PICK R : R = Refunded
  OBVIOUS
<1>14. Refunded' = R
  BY <1>5, <1>6, <1>7, <1>13 DEF Refunded, Delete
<1>15. PICK k : k = Cardinality(R)
  OBVIOUS
<1>16. Net = NetOf(f, k)
  BY <1>8, <1>13, <1>15, NetIs
<1>17. Net' = NetOf(g, k)
  BY <1>11, <1>14, <1>15 DEF Net, NetOf, Takings
<1>18. Net' = Net
  BY <1>12, <1>16, <1>17 DEF NetOf
<1>19. ~torn => shown = Net
  BY DEF Counted, OneAtATime, Delete
<1>20. Counts(Idle)'
  BY <1>18, <1>19 DEF Counts, Delete, notes, Idle
<1> QED BY <1>1, <1>20, CountsGoes DEF Delete, Ends

LEMMA RecordCounted ==
    ASSUME OneAtATime, Sound, Traced, Counted, NEW h \in Handlers, RecordRefund(h)
    PROVE  Counted'
<1>1. TypeOK
  BY DEF Sound, Typed
<1>2. PICK r \in Refunds, on \in Links \cup {Nobody} :
        job[h].r = r /\ job[h].l = on /\ job[h].at = "refund"
  BY <1>1, Places DEF RecordRefund, Refunding
<1>3. CASE job[h].billed
  <2>1. PICK j : Goes(h, j) /\ j.at = "sync"
    BY <1>3 DEF RecordRefund, SyncsTheInvoice
  <2>2. Counts(j)'
    BY <2>1 DEF Counts
  <2> QED BY <1>1, <2>1, <2>2, CountsGoes
<1>4. CASE ~job[h].billed
  <2>1. Ends(h)
    BY <1>4 DEF RecordRefund, SyncsTheInvoice
  <2>2. /\ on = IF rzRefund[r].l \in indexed THEN rzRefund[r].l ELSE Nobody
        /\ ~(on # Nobody /\ link[on].billed)
    BY <1>2, <1>4 DEF Traced, RefundRight
  <2>3. on \notin OnInvoice
    BY <2>2, PaymentLinksAssumption DEF OnInvoice, Nobody
  <2>4. Nobody \notin OnInvoice
    BY PaymentLinksAssumption DEF OnInvoice, Nobody
  <2>5. /\ refund[r] # NoLink /\ refund[r].l # Nobody => refund[r].l = on
        /\ refund'[r].l = IF refund[r] # NoLink /\ refund[r].l # Nobody THEN refund[r].l ELSE on
        /\ \A q \in Refunds \ {r} : refund'[q] = refund[q]
    <3>1. refund[r] # NoLink /\ refund[r].l # Nobody => refund[r].l = on
      BY <2>2 DEF Traced
    <3>2. refund'[r].l = IF refund[r] # NoLink /\ refund[r].l # Nobody THEN refund[r].l ELSE on
      BY <1>1, <1>2 DEF RecordRefund, TypeOK, NoLink
    <3>3. \A q \in Refunds \ {r} : refund'[q] = refund[q]
      BY <1>1, <1>2 DEF RecordRefund, TypeOK
    <3> QED BY <3>1, <3>2, <3>3
  <2>6. UNCHANGED <<link, shown, torn>>
    BY DEF RecordRefund, notes
  <2>7. PICK S : S = OnInvoice
    OBVIOUS
  <2>8. S = OnInvoice'
    BY <2>6, <2>7 DEF OnInvoice, Have
  <2>9. \A q \in Refunds : (q \in Refunded)' <=> q \in Refunded
    <3>1. r \notin Refunded
      BY <2>3, <2>4, <2>5 DEF Refunded
    <3>2. ~(r \in Refunded)'
      BY <2>3, <2>5, <2>7, <2>8 DEF Refunded
    <3>3. \A q \in Refunds \ {r} : (q \in Refunded)' <=> q \in Refunded
      BY <2>5, <2>7, <2>8 DEF Refunded
    <3> QED BY <3>1, <3>2, <3>3
  <2>10. \A l \in S : Collected(l)' = Collected(l)
    BY <2>6 DEF Collected
  <2>11. Net' = Net
    BY <2>7, <2>8, <2>9, <2>10, SameNet
  <2>12. ~torn => shown = Net
    BY <1>2 DEF Counted, OneAtATime
  <2>13. Counts(Idle)'
    BY <2>6, <2>11, <2>12 DEF Counts, Idle
  <2> QED BY <1>1, <2>1, <2>13, CountsGoes DEF Ends
<1> QED BY <1>3, <1>4


LEMMA NextCounted ==
    ASSUME OneAtATime, Sound, Fresh, Traced, Counted, [Next]_vars
    PROVE  Counted'
<1>1. TypeOK
  BY DEF Sound, Typed
<1>2. CASE Outside \/ UNCHANGED vars
  BY <1>2, OutsideCounted
<1>3. ASSUME NEW h \in Handlers, Starts(h) PROVE Counted'
  <2>1. job[h].at = "idle"
    BY <1>3, BeginsGoes DEF Starts, Approve, Check, Recheck, Extend, Remove, Reads, Deliver, FindRefund
  <2>2. PICK j : Goes(h, j) /\ j.at \notin {"sync", "write"}
    BY <1>1, <1>3, <2>1, NextJob DEF Moved, Save, RecordRefund, Sync
  <2>3. UNCHANGED <<link, refund, shown, torn>>
    BY <1>3 DEF Starts, Approve, Check, Recheck, Extend, Remove, Reads, Deliver, FindRefund, kept, notes
  <2> QED BY <1>1, <2>1, <2>2, <2>3, PlainCounted
<1>4. ASSUME NEW h \in Handlers,
             \/ Claim(h) \/ Post(h) \/ Lookup(h) \/ PostFails(h) \/ Tell(h)
             \/ Ask(h) \/ Patch(h) \/ Cancel(h) \/ CannotCancel(h)
             \/ Die(h) /\ job[h].at \notin {"sync", "write"}
      PROVE  Counted'
  <2>1. job[h].at \notin {"sync", "write"}
    BY <1>4 DEF Claim, Post, Lookup, PostFails, Tell, Ask, Patch, Cancel, CannotCancel
  <2>2. UNCHANGED <<link, refund, shown>>
    BY <1>4 DEF Claim, Post, Lookup, PostFails, Tell, Ask, Patch, Cancel, CannotCancel, Die, kept
  <2>3. torn => torn'
    <3>1. Die(h) => (torn => torn')
      BY ZenonT(20) DEF Die
    <3>2. CASE ~Die(h)
      BY <1>4, <3>2 DEF Claim, Post, Lookup, PostFails, Tell, Ask, Patch, Cancel, CannotCancel,
                        Lose, notes
    <3> QED BY <3>1, <3>2
  <2>4. PICK j : Goes(h, j) /\ j.at \notin {"sync", "write"}
    <3>1. ASSUME Die(h) PROVE \E j : Goes(h, j) /\ j.at \notin {"sync", "write"}
      BY <3>1 DEF Die, Ends, Idle
    <3>2. job[h].at \notin {"save", "refund"} \/ Die(h)
      BY <1>4 DEF Claim, Post, Lookup, PostFails, Tell, Ask, Patch, Cancel, CannotCancel
    <3>3. Continues(h) \/ Breaks(h)
      BY <1>4 DEF Continues, Breaks
    <3> QED BY <1>1, <2>1, <3>1, <3>2, <3>3, NextJob DEF Moved, Save, RecordRefund, Sync
  <2> QED BY <1>1, <2>1, <2>2, <2>3, <2>4, PlainCounted
<1>5. ASSUME NEW h \in Handlers, Die(h), job[h].at \in {"sync", "write"} PROVE Counted'
  BY <1>5 DEF Die, Counted
<1>6. ASSUME NEW h \in Handlers, Continues(h) \/ Breaks(h) PROVE Counted'
  BY <1>4, <1>5, <1>6, SaveCounted, TellingCounted, DeleteCounted, RecordCounted DEF Continues, Breaks
<1> QED BY <1>2, <1>3, <1>6 DEF Next

(* Handled one at a time, an invoice with nothing under way shows what its *)
(* links collected less what was refunded, unless a handler ended between  *)
(* a save and the invoice (syncInvoicePaid, recordRefund).                 *)
THEOREM InvoiceIsRight == OneAtATime => (Spec => []CountedAtRest)
<1> SUFFICES ASSUME OneAtATime PROVE Spec => []CountedAtRest
  OBVIOUS
<1>1. Init => Counted
  <2> SUFFICES ASSUME Init PROVE Counted
    OBVIOUS
  <2>1. OnInvoice = {} /\ Refunded = {}
    BY DEF Init, OnInvoice, Have, Refunded
  <2>2. PICK f : f = Takings
    OBVIOUS
  <2>3. UNION {{l} \X (1..f[l]) : l \in DOMAIN f} = {}
    BY <2>1, <2>2 DEF Takings
  <2>4. SumOf(f) = 0 /\ Cardinality({}) = 0
    BY <2>3, FS_EmptySet DEF SumOf
  <2>5. Net = NetOf(f, 0)
    BY <2>1, <2>2, <2>4, NetIs
  <2>6. Net = 0
    BY <2>4, <2>5 DEF NetOf
  <2> QED BY <2>6 DEF Init, Counted, Idle
<1>2. Sound /\ Fresh /\ Traced /\ Counted /\ [Next]_vars => Counted'
  BY NextCounted
<1>3. Counted => CountedAtRest
  BY DEF Counted, CountedAtRest, Idle
<1> QED BY <1>1, <1>2, <1>3, SpecSound, SpecFresh, SpecTraced, PTL DEF Spec
=============================================================================
