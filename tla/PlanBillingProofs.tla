-------------------------- MODULE PlanBillingProofs --------------------------
(***************************************************************************)
(* Proofs about PlanBilling.tla, for every number of orders, payers, calls *)
(* and keys and every bound. Whatever Gaps admits, no race of the code     *)
(* makes a payment count twice, or one that was not made. What needs a gap *)
(* closed comes after that and names it: that periods add up, that paid    *)
(* time is kept, and that a checkout is reused.                            *)
(***************************************************************************)
EXTENDS PlanBilling, TLAPS

-----------------------------------------------------------------------------
(* Types. *)

LEMMA InitTyped == Init => TypeOK
<1> SUFFICES ASSUME Init PROVE TypeOK
  OBVIOUS
<1> QED BY DEF Init, TypeOK, NoAccount, Closed, NoRow, Sub, Call, Idle

(* Rows and calls stand on orders that Razorpay has, and a call applies    *)
(* only what is recorded as paid, at a date.                               *)
Grounded ==
    /\ \A o \in Orders : Stored(o) => bank[o] # "none"
    /\ \A o \in Orders : row[o].status = "paid" => row[o].paidAt # NotPaid
    /\ \A c \in Calls : ~At(c, "idle") => Stored(call[c].order)
    /\ \A c \in Calls : At(c, "take") => row[call[c].order].status = "paid"

(* What a call holds, step by step. *)
LEMMA CallFields ==
    ASSUME TypeOK, NEW c \in Calls, ~At(c, "idle")
    PROVE  /\ call[c].order \in Orders
           /\ At(c, "record") => call[c].saw \in {"created", "attempted", "authorized", "paid"}
           /\ At(c, "take") => call[c].seen \in Sub
BY DEF TypeOK, Call, Idle, At

LEMMA RowFields ==
    ASSUME TypeOK, NEW o \in Orders, Stored(o)
    PROVE  row[o] \in Row
BY DEF TypeOK, NoRow, Stored

LEMMA AccountStepTyped == TypeOK /\ AccountNext => TypeOK'
<1> SUFFICES ASSUME TypeOK, AccountNext PROVE TypeOK'
  OBVIOUS
<1> USE DEF TypeOK, NoAccount, checkout, razorpay, Decision
<1>1. ASSUME NEW k \in Keys, Connect(k) PROVE TypeOK'
  BY <1>1, PlanBillingAssumption DEF Connect
<1>2. CASE Disconnect
  BY <1>2, PlanBillingAssumption DEF Disconnect
<1>3. CASE VerifyReads
  BY <1>3 DEF VerifyReads
<1>4. CASE VerifySaves
  BY <1>4 DEF VerifySaves
<1> QED BY <1>1, <1>2, <1>3, <1>4 DEF AccountNext

LEMMA CheckoutStepTyped == TypeOK /\ CheckoutNext => TypeOK'
<1> SUFFICES ASSUME TypeOK, NEW t \in Tabs,
                    \/ \E item \in Item : StartCheckout(t, item)
                    \/ \E o \in Orders : CheckoutOpens(t, o)
                    \/ CheckoutFails(t)
             PROVE  TypeOK'
  BY DEF CheckoutNext
<1> USE DEF TypeOK, centre, razorpay
<1>1. ASSUME NEW item \in Item, StartCheckout(t, item) PROVE TypeOK'
  BY <1>1 DEF StartCheckout
<1>2. ASSUME NEW o \in Orders, CheckoutOpens(t, o) PROVE TypeOK'
  <2>1. opening[t] \in Item
    BY <1>2 DEF CheckoutOpens
  <2>2. row'[o] \in Row
    BY <1>2, <2>1 DEF CheckoutOpens, Row, NotPaid, Statuses
  <2> QED BY <1>2, <2>2 DEF CheckoutOpens
<1>3. CASE CheckoutFails(t)
  BY <1>3 DEF CheckoutFails, Fault
<1> QED BY <1>1, <1>2, <1>3

LEMMA CustomerStepTyped == TypeOK /\ CustomerNext => TypeOK'
<1> SUFFICES ASSUME TypeOK, NEW o \in Orders,
                    PaymentFails(o) \/ PaymentAuthorized(o) \/ PaymentCaptured(o)
             PROVE  TypeOK'
  BY DEF CustomerNext
<1> QED BY DEF TypeOK, PaymentFails, PaymentAuthorized, PaymentCaptured, Owe, Elsewhere,
               checkout, centre

LEMMA CentreStepTyped == TypeOK /\ CentreNext => TypeOK'
<1> SUFFICES ASSUME TypeOK, CentreNext PROVE TypeOK'
  OBVIOUS
<1> USE DEF TypeOK, Decision, checkout, razorpay, Sub
<1>1. ASSUME NEW p \in Plans, Move(p) PROVE TypeOK'
  BY <1>1 DEF Move
<1>2. CASE SetStatus
  BY <1>2 DEF SetStatus
<1>3. CASE ExtendReads
  BY <1>3 DEF ExtendReads
<1>4. CASE ExtendWrites
  <2>1. PICK end \in Nat : sub' = [sub EXCEPT !.active = TRUE, !.end = end]
    <3> DEFINE from == IF "extension" \in Gaps THEN extending ELSE sub.end
    <3>1. from \in Nat /\ sub' = [sub EXCEPT !.active = TRUE, !.end = 1 + IF from > now THEN from ELSE now]
      BY <1>4 DEF ExtendWrites
    <3> HIDE DEF from
    <3>2. (1 + IF from > now THEN from ELSE now) \in Nat
      BY <3>1
    <3> QED BY <3>1, <3>2
  <2>2. sub' \in Sub
    BY <2>1
  <2> QED BY <1>4, <2>2 DEF ExtendWrites
<1> QED BY <1>1, <1>2, <1>3, <1>4 DEF CentreNext

LEMMA OweTyped ==
    ASSUME NEW o \in Orders, owed \in [Orders -> BOOLEAN], Owe(o) \/ UNCHANGED owed
    PROVE  owed' \in [Orders -> BOOLEAN]
BY DEF Owe

LEMMA FaultTyped ==
    ASSUME faults \in Nat, Fault \/ UNCHANGED faults
    PROVE  faults' \in Nat
BY DEF Fault

LEMMA CallStepTyped == TypeOK /\ Grounded /\ CallNext => TypeOK'
<1> SUFFICES ASSUME TypeOK, Grounded, NEW c \in Calls,
                    \/ \E o \in Orders : Begin(c, o)
                    \/ Proceed(c) \/ Unreachable(c) \/ Die(c)
             PROVE  TypeOK'
  BY DEF CallNext
<1>1. ASSUME NEW o \in Orders, Begin(c, o) PROVE TypeOK'
  <2>1. call' \in [Calls -> Call]
    BY <1>1 DEF Begin, Call, TypeOK
  <2> QED BY <1>1, <2>1 DEF Begin, TypeOK, checkout, centre
<1>2. ASSUME ~At(c, "idle") PROVE call[c].order \in Orders /\ Stored(call[c].order)
  BY <1>2, CallFields DEF Grounded
<1>3. CASE Ask(c)
  <2> DEFINE o == call[c].order
  <2>1. o \in Orders /\ bank[o] \in {"created", "attempted", "authorized", "paid"}
    BY <1>2, <1>3 DEF Ask, At, Grounded, TypeOK
  <2>2. call' \in [Calls -> Call]
    <3> DEFINE entry == [step |-> IF bank[o] = "authorized" THEN "capture" ELSE "record",
                         order |-> o, saw |-> bank[o]]
    <3>1. entry \in Call
      BY <2>1 DEF Call
    <3>2. call' = [call EXCEPT ![c] = entry]
      BY <1>3 DEF Ask
    <3> QED BY <3>1, <3>2 DEF TypeOK
  <2> QED BY <1>3, <2>2 DEF Ask, TypeOK, checkout, centre, razorpay
<1>4. CASE Capture(c)
  <2> DEFINE o == call[c].order
             Seen(saw) == call' = [call EXCEPT ![c] = [step |-> "record", order |-> o, saw |-> saw]]
  <2>1. o \in Orders
    BY <1>2, <1>4 DEF Capture, At
  <2>2. Seen("paid") \/ Seen("authorized")
    BY <1>4 DEF Capture
  <2>3. call' \in [Calls -> Call]
    BY <2>1, <2>2 DEF Call, TypeOK
  <2>4. /\ bank' \in [Orders -> {"none", "created", "attempted", "authorized", "paid"}]
        /\ owed' \in [Orders -> BOOLEAN] /\ faults' \in Nat
    <3>1. bank' = bank \/ bank' = [bank EXCEPT ![o] = "paid"]
      BY <1>4 DEF Capture
    <3>2. Owe(o) \/ UNCHANGED owed
      BY <1>4 DEF Capture
    <3>3. Fault \/ UNCHANGED faults
      BY <1>4 DEF Capture
    <3> QED BY <2>1, <3>1, <3>2, <3>3, OweTyped, FaultTyped DEF TypeOK
  <2> QED BY <1>4, <2>3, <2>4 DEF Capture, TypeOK, checkout, centre
<1>5. CASE Record(c)
  <2> DEFINE o == call[c].order
             found == Found(call[c].saw)
  <2>1. o \in Orders /\ row[o] \in Row /\ found \in Statuses
    BY <1>2, <1>5, CallFields, RowFields DEF Record, At, Found, Statuses
  <2>2. PICK at \in {bankAt[o], now} :
          /\ row' = [row EXCEPT ![o].status = IF @ = "paid" THEN "paid" ELSE found,
                                ![o].paidAt = IF found = "paid" /\ @ = NotPaid THEN at ELSE @]
          /\ call' = [call EXCEPT ![c] =
                        IF Applies(o, found) THEN [step |-> "apply", order |-> o] ELSE Idle]
    BY <1>5 DEF Record
  <2> HIDE DEF o, found
  <2>3. at \in Nat
    BY <2>1 DEF TypeOK
  <2>4. row' \in [Orders -> Row \cup {NoRow}]
    BY <2>1, <2>2, <2>3 DEF TypeOK, Row, Statuses
  <2>5. call' \in [Calls -> Call]
    BY <2>1, <2>2 DEF TypeOK, Call
  <2> QED BY <1>5, <2>4, <2>5 DEF Record, TypeOK, centre, razorpay
<1>6. CASE Apply(c)
  <2>1. call[c].order \in Orders
    BY <1>2, <1>6 DEF Apply, At
  <2>2. call' \in [Calls -> Call]
    BY <1>6, <2>1 DEF Apply, Call, TypeOK
  <2> QED BY <1>6, <2>2 DEF Apply, TypeOK, checkout, centre, razorpay
<1>7. CASE Take(c)
  <2> DEFINE o == call[c].order
             start == PeriodStart(o, IF "renewal" \in Gaps THEN call[c].seen ELSE sub)
             end == start + Length[row[o].item.period]
  <2>1. o \in Orders /\ row[o] \in Row /\ call[c].seen \in Sub
    BY <1>2, <1>7, CallFields, RowFields DEF Take, At
  <2>2. PICK s \in Sub : start = PeriodStart(o, s)
    BY <2>1 DEF TypeOK
  <2>3. row[o].paidAt \in Nat /\ row[o].item.period \in Periods /\ row[o].item.plan \in Plans
    BY <1>7, <2>1 DEF Take, Grounded, Row, Item, NotPaid
  <2>4. start \in Nat
    BY <2>2, <2>3 DEF PeriodStart, Sub
  <2>5. Length[row[o].item.period] \in Nat
    BY <2>3, PlanBillingAssumption DEF Periods
  <2> HIDE DEF start
  <2>6. end \in Nat
    BY <2>4, <2>5
  <2> HIDE DEF end
  <2>7. ASSUME Mine(o) PROVE row' \in [Orders -> Row \cup {NoRow}] /\ sub' \in Sub
    <3>1. /\ row' = [row EXCEPT ![o].applied = TRUE, ![o].start = start, ![o].end = end]
          /\ sub' = [plan |-> row[o].item.plan, active |-> TRUE, end |-> end]
      BY <1>7, <2>7 DEF Take, start, end
    <3>2. row' \in [Orders -> Row \cup {NoRow}]
      BY <2>1, <2>4, <2>6, <3>1 DEF TypeOK, Row
    <3>3. sub' \in Sub
      BY <2>3, <2>6, <3>1 DEF Sub
    <3> QED BY <3>2, <3>3
  <2>8. ASSUME ~Mine(o) PROVE row' \in [Orders -> Row \cup {NoRow}] /\ sub' \in Sub
    BY <1>7, <2>8 DEF Take, TypeOK
  <2>9. call' \in [Calls -> Call]
    BY <1>7 DEF Take, Call, TypeOK
  <2> QED BY <1>7, <2>7, <2>8, <2>9 DEF Take, TypeOK, centre, razorpay
<1>8. CASE Unreachable(c)
  <2>1. call[c].order \in Orders
    BY <1>2, <1>8 DEF Unreachable, At
  <2>2. call' \in [Calls -> Call]
    BY <1>8, <2>1 DEF Unreachable, Call, TypeOK
  <2>3. owed' \in [Orders -> BOOLEAN] /\ faults' \in Nat
    BY <1>8, <2>1, OweTyped, FaultTyped DEF Unreachable, TypeOK
  <2> QED BY <1>8, <2>2, <2>3 DEF Unreachable, TypeOK, checkout, centre
<1>9. CASE Die(c)
  <2>1. call[c].order \in Orders
    BY <1>2, <1>9 DEF Die
  <2>2. owed' \in [Orders -> BOOLEAN] /\ faults' \in Nat
    BY <1>9, <2>1, OweTyped, FaultTyped DEF Die, TypeOK
  <2>3. call' \in [Calls -> Call]
    BY <1>9 DEF Die, Call, TypeOK
  <2> QED BY <1>9, <2>2, <2>3 DEF Die, TypeOK, checkout, centre
<1> QED BY <1>1, <1>3, <1>4, <1>5, <1>6, <1>7, <1>8, <1>9 DEF Proceed

LEMMA StepTyped == TypeOK /\ Grounded /\ [Next]_vars => TypeOK'
<1>1. CASE UNCHANGED vars
  BY <1>1 DEF vars, checkout, centre, razorpay, TypeOK
<1>2. CASE Tick
  BY <1>2 DEF Tick, checkout, centre, razorpay, TypeOK
<1> QED BY <1>1, <1>2, AccountStepTyped, CheckoutStepTyped, CustomerStepTyped,
           CentreStepTyped, CallStepTyped DEF Next

-----------------------------------------------------------------------------
(* What is believed of a payment is true of it.                            *)

(* A row is paid only when Razorpay has the money; it is applied only when *)
(* paid; and a call that saw it paid saw right.                            *)
Honest ==
    /\ \A o \in Orders : row[o].status = "paid" => bank[o] = "paid"
    /\ \A o \in Orders : Stored(o) /\ row[o].applied => row[o].status = "paid"
    /\ \A c \in Calls : At(c, "record") /\ call[c].saw = "paid" => bank[call[c].order] = "paid"

Sound == Grounded /\ Honest
IInv == TypeOK /\ Sound

LEMMA InitSound == Init => Sound
BY DEF Init, Sound, Grounded, Honest, NoRow, Idle, Stored, At

(* Steps that leave rows and calls alone, and never take money back. *)
LEMMA ElsewhereSound ==
    ASSUME IInv, UNCHANGED <<row, call>>,
           \A o \in Orders : bank'[o] = bank[o] \/ (bank[o] # "paid" /\ bank'[o] # "none")
    PROVE  Sound'
<1> USE DEF IInv, Sound, Grounded, Honest, Stored, At
<1>1. \A c \in Calls : call[c].step # "idle" => call[c].order \in Orders
  BY CallFields
<1> QED BY <1>1

LEMMA CustomerStepSound == IInv /\ CustomerNext => Sound'
<1> SUFFICES ASSUME IInv, NEW o \in Orders,
                    PaymentFails(o) \/ PaymentAuthorized(o) \/ PaymentCaptured(o)
             PROVE  Sound'
  BY DEF CustomerNext
<1>1. UNCHANGED <<row, call>>
  BY DEF PaymentFails, PaymentAuthorized, PaymentCaptured, Elsewhere, checkout
<1>2. \A q \in Orders : bank'[q] = bank[q] \/ (bank[q] # "paid" /\ bank'[q] # "none")
  BY DEF PaymentFails, PaymentAuthorized, PaymentCaptured, IInv, TypeOK
<1> QED BY <1>1, <1>2, ElsewhereSound

LEMMA CheckoutStepSound == IInv /\ CheckoutNext => Sound'
<1> SUFFICES ASSUME IInv, NEW t \in Tabs,
                    \/ \E item \in Item : StartCheckout(t, item)
                    \/ \E o \in Orders : CheckoutOpens(t, o)
                    \/ CheckoutFails(t)
             PROVE  Sound'
  BY DEF CheckoutNext
<1>1. ASSUME NEW item \in Item, StartCheckout(t, item) PROVE Sound'
  BY <1>1, ElsewhereSound DEF StartCheckout, razorpay
<1>2. CASE CheckoutFails(t)
  BY <1>2, ElsewhereSound DEF CheckoutFails, razorpay
<1>3. ASSUME NEW o \in Orders, CheckoutOpens(t, o) PROVE Sound'
  <2>1. /\ bank[o] = "none" /\ bank' = [bank EXCEPT ![o] = "created"]
        /\ row'[o].status = "created" /\ row'[o].applied = FALSE
        /\ \A q \in Orders \ {o} : row'[q] = row[q]
        /\ call' = call
    BY <1>3 DEF CheckoutOpens, IInv, TypeOK
  <2>2. \A c \in Calls : ~At(c, "idle") => call[c].order \in Orders \ {o}
    BY <2>1, CallFields DEF IInv, Sound, Grounded
  <2>3. \A q \in Orders \ {o} : bank'[q] = bank[q]
    BY <2>1 DEF IInv, TypeOK
  <2>4. bank'[o] = "created"
    BY <2>1 DEF IInv, TypeOK
  <2>5. Grounded'
    BY <2>1, <2>2, <2>3, <2>4 DEF IInv, Sound, Grounded, Stored, At
  <2>6. Honest'
    BY <2>1, <2>2, <2>3, <2>4 DEF IInv, Sound, Honest, Stored, At
  <2> QED BY <2>5, <2>6 DEF Sound
<1> QED BY <1>1, <1>2, <1>3

(* A call's step that changes no row, and takes no money back: what it     *)
(* waits for next is all there is to see to.                               *)
LEMMA CallAloneSound ==
    ASSUME IInv, NEW c \in Calls, NEW e \in Call, call' = [call EXCEPT ![c] = e], UNCHANGED row,
           \A o \in Orders : bank'[o] = bank[o] \/ (bank[o] # "paid" /\ bank'[o] # "none"),
           e.step # "idle" => Stored(e.order),
           e.step = "take" => row[e.order].status = "paid",
           e.step = "record" /\ e.saw = "paid" => bank'[e.order] = "paid"
    PROVE  Sound'
<1>1. \A d \in Calls : call'[d] = IF d = c THEN e ELSE call[d]
  BY DEF IInv, TypeOK
<1>2. \A d \in Calls : ~At(d, "idle") => call[d].order \in Orders
  BY CallFields DEF IInv
<1>3. Grounded'
  BY <1>1 DEF IInv, Sound, Grounded, Stored, At
<1>4. Honest'
  BY <1>1, <1>2 DEF IInv, Sound, Honest, Stored, At
<1> QED BY <1>3, <1>4 DEF Sound

LEMMA CallStepSound == IInv /\ CallNext => Sound'
<1> SUFFICES ASSUME IInv, NEW c \in Calls,
                    \/ \E o \in Orders : Begin(c, o)
                    \/ Proceed(c) \/ Unreachable(c) \/ Die(c)
             PROVE  Sound'
  BY DEF CallNext
<1> DEFINE Steady == \A q \in Orders : bank'[q] = bank[q] \/ (bank[q] # "paid" /\ bank'[q] # "none")
<1>0. ASSUME ~At(c, "idle") PROVE call[c].order \in Orders /\ Stored(call[c].order)
  BY <1>0, CallFields DEF IInv, Sound, Grounded
<1>i. Idle \in Call /\ Idle.step = "idle"
  BY DEF Idle, Call
<1>1. ASSUME NEW o \in Orders, Begin(c, o) PROVE Sound'
  <2> DEFINE e == [step |-> IF account.key = row[o].item.key THEN "ask" ELSE "apply", order |-> o]
  <2>1. e \in Call /\ e.step \notin {"take", "record"} /\ e.order = o
    BY DEF Call
  <2>2. call' = [call EXCEPT ![c] = e] /\ Stored(o) /\ UNCHANGED <<row, bank>>
    BY <1>1 DEF Begin, checkout
  <2> HIDE DEF e
  <2> QED BY <2>1, <2>2, CallAloneSound
<1>2. CASE Ask(c)
  <2> DEFINE o == call[c].order
             e == [step |-> IF bank[o] = "authorized" THEN "capture" ELSE "record",
                   order |-> o, saw |-> bank[o]]
  <2>1. o \in Orders /\ Stored(o)
    BY <1>2, <1>0 DEF Ask, At
  <2>2. bank[o] \in {"created", "attempted", "authorized", "paid"}
    BY <2>1 DEF IInv, TypeOK, Sound, Grounded
  <2>3. e \in Call /\ e.step # "take" /\ e.order = o /\ e.saw = bank[o]
    BY <2>1, <2>2 DEF Call
  <2>4. call' = [call EXCEPT ![c] = e] /\ UNCHANGED <<row, bank>>
    BY <1>2 DEF Ask, checkout, razorpay
  <2> HIDE DEF e
  <2> QED BY <2>1, <2>3, <2>4, CallAloneSound
<1>3. CASE Capture(c)
  <2> DEFINE o == call[c].order
             e(saw) == [step |-> "record", order |-> o, saw |-> saw]
  <2>1. o \in Orders /\ Stored(o)
    BY <1>3, <1>0 DEF Capture, At
  <2>2. UNCHANGED row /\ Steady
    BY <1>3, <2>1 DEF Capture, checkout, IInv, TypeOK
  <2>3. ASSUME call' = [call EXCEPT ![c] = e("paid")], bank'[o] = "paid" PROVE Sound'
    <3>1. e("paid") \in Call
      BY <2>1 DEF Call
    <3> QED BY <2>1, <2>2, <2>3, <3>1, CallAloneSound
  <2>4. ASSUME call' = [call EXCEPT ![c] = e("authorized")] PROVE Sound'
    <3>1. e("authorized") \in Call
      BY <2>1 DEF Call
    <3> QED BY <2>1, <2>2, <2>4, <3>1, CallAloneSound
  <2>5. \/ call' = [call EXCEPT ![c] = e("paid")] /\ bank'[o] = "paid"
        \/ call' = [call EXCEPT ![c] = e("authorized")]
    BY <1>3, <2>1 DEF Capture, IInv, TypeOK
  <2> QED BY <2>3, <2>4, <2>5
<1>4. CASE Record(c)
  <2> DEFINE o == call[c].order
             found == Found(call[c].saw)
  <2>1. o \in Orders /\ Stored(o) /\ row[o] \in Row /\ found \in Statuses
    BY <1>4, <1>0, CallFields, RowFields DEF Record, At, Found, Statuses, IInv
  <2>2. found = "paid" => bank[o] = "paid"
    BY <1>4 DEF Record, Found, IInv, Sound, Honest, At
  <2>3. PICK at \in {bankAt[o], now} :
          /\ row' = [row EXCEPT ![o].status = IF @ = "paid" THEN "paid" ELSE found,
                                ![o].paidAt = IF found = "paid" /\ @ = NotPaid THEN at ELSE @]
          /\ call' = [call EXCEPT ![c] =
                        IF Applies(o, found) THEN [step |-> "apply", order |-> o] ELSE Idle]
    BY <1>4 DEF Record
  <2>4. at \in Nat /\ bank' = bank
    BY <1>4, <2>1 DEF Record, razorpay, IInv, TypeOK
  <2> HIDE DEF o, found
  <2>5. /\ row'[o].status = IF row[o].status = "paid" THEN "paid" ELSE found
        /\ row'[o].paidAt = IF found = "paid" /\ row[o].paidAt = NotPaid THEN at ELSE row[o].paidAt
        /\ row'[o].applied = row[o].applied
        /\ \A q \in Orders \ {o} : row'[q] = row[q]
    BY <2>1, <2>3 DEF Row, IInv, TypeOK
  <2>6. \A q \in Orders : Stored(q) => Stored(q)'
    BY <2>1, <2>5 DEF Stored, Statuses
  <2>7. \A q \in Orders : row[q].status = "paid" => row'[q].status = "paid"
    BY <2>1, <2>5
  <2>8. /\ \A d \in Calls : d # c => call'[d] = call[d]
        /\ call'[c].step \in {"idle", "apply"}
        /\ call'[c].step = "apply" => call'[c].order = o
    BY <2>3 DEF IInv, TypeOK, Idle
  <2>9. \A d \in Calls : ~At(d, "idle") => call[d].order \in Orders
    BY CallFields DEF IInv
  <2>10. Grounded'
    <3>1. \A q \in Orders : Stored(q)' => bank'[q] # "none"
      BY <2>1, <2>4, <2>5 DEF IInv, Sound, Grounded, Stored
    <3>2. \A q \in Orders : row'[q].status = "paid" => row'[q].paidAt # NotPaid
      BY <2>1, <2>4, <2>5 DEF IInv, Sound, Grounded, NotPaid
    <3>3. \A d \in Calls : ~At(d, "idle")' => Stored(call[d].order)'
      BY <2>1, <2>6, <2>8, <2>9 DEF IInv, Sound, Grounded, At, Stored
    <3>4. \A d \in Calls : At(d, "take")' => row'[call'[d].order].status = "paid"
      BY <2>7, <2>8, <2>9 DEF IInv, Sound, Grounded, At
    <3> QED BY <3>1, <3>2, <3>3, <3>4 DEF Grounded
  <2>11. Honest'
    BY <2>1, <2>2, <2>4, <2>5, <2>7, <2>8 DEF IInv, Sound, Honest, Stored, At
  <2> QED BY <2>10, <2>11 DEF Sound
<1>5. CASE Apply(c)
  <2> DEFINE o == call[c].order
             e == [step |-> "take", order |-> o, seen |-> sub]
  <2>1. o \in Orders /\ Stored(o)
    BY <1>5, <1>0 DEF Apply, At
  <2>2. e \in Call /\ e.step = "take" /\ e.order = o
    BY <2>1 DEF Call, IInv, TypeOK
  <2>3. /\ \/ call' = [call EXCEPT ![c] = e] /\ row[o].status = "paid"
           \/ call' = [call EXCEPT ![c] = Idle]
        /\ UNCHANGED <<row, bank>>
    BY <1>5 DEF Apply, checkout, razorpay
  <2> HIDE DEF e
  <2> QED BY <1>i, <2>1, <2>2, <2>3, CallAloneSound
<1>6. CASE Take(c)
  <2> DEFINE o == call[c].order
  <2>1. o \in Orders /\ Stored(o) /\ row[o] \in Row /\ row[o].status = "paid"
    BY <1>6, <1>0, RowFields DEF Take, At, IInv, Sound, Grounded
  <2>2. bank' = bank /\ call' = [call EXCEPT ![c] = Idle]
    BY <1>6 DEF Take, razorpay
  <2>3. CASE row' = row
    BY <1>i, <2>2, <2>3, CallAloneSound
  <2>4. CASE \E start, end : row' = [row EXCEPT ![o].applied = TRUE, ![o].start = start, ![o].end = end]
    <3>1. \A q \in Orders : row'[q].status = row[q].status /\ row'[q].paidAt = row[q].paidAt
      BY <2>1, <2>4 DEF IInv, TypeOK, Row
    <3>2. \A q \in Orders \ {o} : row'[q] = row[q]
      BY <2>4 DEF IInv, TypeOK
    <3>3. \A d \in Calls : call'[d] = IF d = c THEN Idle ELSE call[d]
      BY <2>2 DEF IInv, TypeOK
    <3>4. \A d \in Calls : ~At(d, "idle") => call[d].order \in Orders
      BY CallFields DEF IInv
    <3>5. Grounded'
      BY <1>i, <2>2, <3>1, <3>3, <3>4 DEF IInv, Sound, Grounded, Stored, At, Idle
    <3>6. Honest'
      BY <1>i, <2>1, <2>2, <3>1, <3>2, <3>3 DEF IInv, Sound, Honest, Stored, At, Idle
    <3> QED BY <3>5, <3>6 DEF Sound
  <2>5. \/ row' = row
        \/ \E start, end : row' = [row EXCEPT ![o].applied = TRUE, ![o].start = start, ![o].end = end]
    BY <1>6 DEF Take
  <2> QED BY <2>3, <2>4, <2>5
<1>7. CASE Unreachable(c)
  <2> DEFINE o == call[c].order
             e == [step |-> "apply", order |-> o]
  <2>1. o \in Orders /\ Stored(o)
    BY <1>7, <1>0 DEF Unreachable, At
  <2>2. e \in Call /\ e.step = "apply" /\ e.order = o
    BY <2>1 DEF Call
  <2>3. call' = [call EXCEPT ![c] = e] /\ UNCHANGED <<row, bank>>
    BY <1>7 DEF Unreachable, checkout
  <2> HIDE DEF e
  <2> QED BY <2>1, <2>2, <2>3, CallAloneSound
<1>8. CASE Die(c)
  <2>1. call' = [call EXCEPT ![c] = Idle] /\ UNCHANGED <<row, bank>>
    BY <1>8 DEF Die, checkout
  <2> QED BY <1>i, <2>1, CallAloneSound
<1> QED BY <1>1, <1>2, <1>3, <1>4, <1>5, <1>6, <1>7, <1>8 DEF Proceed

LEMMA StepSound == IInv /\ [Next]_vars => Sound'
<1> SUFFICES ASSUME IInv, [Next]_vars PROVE Sound'
  OBVIOUS
<1>1. CASE UNCHANGED vars
  BY <1>1, ElsewhereSound DEF vars, checkout, razorpay
<1>2. CASE Tick
  BY <1>2, ElsewhereSound DEF Tick, checkout, razorpay
<1>3. CASE AccountNext
  BY <1>3, ElsewhereSound DEF AccountNext, Connect, Disconnect, VerifyReads, VerifySaves,
                              checkout, razorpay
<1>4. CASE CentreNext
  BY <1>4, ElsewhereSound DEF CentreNext, Move, SetStatus, ExtendReads, ExtendWrites,
                              checkout, razorpay
<1> QED BY <1>1, <1>2, <1>3, <1>4, CustomerStepSound, CheckoutStepSound, CallStepSound DEF Next

LEMMA Invariant == Spec => []IInv
<1>1. Init => IInv
  BY InitTyped, InitSound DEF IInv
<1>2. IInv /\ [Next]_vars => IInv'
  BY StepTyped, StepSound DEF IInv, Sound
<1> QED BY <1>1, <1>2, PTL DEF Spec

(* Every variable keeps its type: in particular a row never gets a status  *)
(* the table's CHECK constraint refuses.                                   *)
THEOREM BillingTypes == Spec => []TypeOK
<1>1. IInv => TypeOK
  BY DEF IInv
<1> QED BY <1>1, Invariant, PTL

(* No plan is changed by a payment Razorpay has not taken, whichever of    *)
(* the browser, the webhook and a recheck is first or dies on the way.     *)
THEOREM OnlyPaidApplies == Spec => []AppliedWhenPaid
<1>1. IInv => AppliedWhenPaid
  BY DEF IInv, Sound, Honest, AppliedWhenPaid, Applied
<1> QED BY <1>1, Invariant, PTL

-----------------------------------------------------------------------------
(* The refinement of PaidPlans.                                            *)

charges == [o \in Orders |-> Charge(o)]

LEMMA ChargesStay ==
    ASSUME \A o \in Orders : Charge(o)' = Charge(o)
    PROVE  UNCHANGED charges
BY DEF charges

(* Only the money, and whether the payment was applied, make the charge.   *)
LEMMA ChargeFrame ==
    ASSUME NEW o \in Orders,
           (bank[o] = "paid") <=> (bank'[o] = "paid"),
           (o \in Applied) <=> (o \in Applied')
    PROVE  Charge(o)' = Charge(o)
BY DEF Charge

LEMMA ElsewhereKeepsCharges ==
    ASSUME UNCHANGED <<row, bank>> PROVE UNCHANGED charges
BY DEF charges, Charge, Applied, Stored

(* Money taken for an order not paid before is a payment. *)
LEMMA CaptureIsPay ==
    ASSUME IInv, NEW o \in Orders, bank[o] # "paid", bank' = [bank EXCEPT ![o] = "paid"],
           UNCHANGED <<row, sub, decisions>>
    PROVE  Promise!Pay(o)
<1>1. o \notin Applied
  BY DEF IInv, Sound, Honest, Applied
<1>2. Applied' = Applied
  BY DEF Applied, Stored
<1>3. Charge(o) = "unpaid" /\ Charge(o)' = "paid"
  BY <1>1, <1>2 DEF Charge, IInv, TypeOK
<1>4. \A q \in Orders \ {o} : Charge(q)' = Charge(q)
  BY <1>2 DEF Charge, IInv, TypeOK
<1>5. charges' = [charges EXCEPT ![o] = "paid"]
  BY <1>3, <1>4 DEF charges
<1> QED BY <1>3, <1>5 DEF Promise!Pay, charges

(* The batch that finds the row its own is the payment's one application.  *)
LEMMA TakeIsApply ==
    ASSUME IInv, NEW o \in Orders, row[o].status = "paid", ~row[o].applied,
           \E start, end : row' = [row EXCEPT ![o].applied = TRUE, ![o].start = start, ![o].end = end],
           UNCHANGED <<bank, decisions>>
    PROVE  Promise!Apply(o)
<1>1. Stored(o) /\ row[o] \in Row
  BY RowFields DEF Stored, IInv
<1>2. row'[o].applied /\ row'[o].status = "paid" /\ \A q \in Orders \ {o} : row'[q] = row[q]
  BY <1>1 DEF Row, IInv, TypeOK
<1>3. o \notin Applied /\ o \in Applied' /\ \A q \in Orders \ {o} : q \in Applied' <=> q \in Applied
  BY <1>2 DEF Applied, Stored
<1>4. bank[o] = "paid"
  BY DEF IInv, Sound, Honest
<1>5. Charge(o) = "paid" /\ Charge(o)' = "applied"
  BY <1>3, <1>4 DEF Charge
<1>6. \A q \in Orders \ {o} : Charge(q)' = Charge(q)
  BY <1>3, ChargeFrame
<1>7. charges' = [charges EXCEPT ![o] = "applied"]
  BY <1>5, <1>6 DEF charges
<1> QED BY <1>5, <1>7 DEF Promise!Apply, charges

LEMMA StepKeepsPromise ==
    ASSUME IInv, [Next]_vars
    PROVE  [Promise!Next]_<<charges, sub, decisions>>
<1> DEFINE Stutter == UNCHANGED <<charges, sub, decisions>>
<1>1. CASE UNCHANGED vars
  BY <1>1, ElsewhereKeepsCharges DEF vars, checkout, centre, razorpay
<1>2. CASE Tick
  BY <1>2, ElsewhereKeepsCharges DEF Tick, checkout, centre, razorpay
<1>3. CASE AccountNext
  <2>1. UNCHANGED charges
    BY <1>3, ElsewhereKeepsCharges DEF AccountNext, Connect, Disconnect, VerifyReads, VerifySaves,
                                       checkout, razorpay
  <2>2. decisions' = decisions + 1 \/ UNCHANGED <<sub, decisions>>
    BY <1>3 DEF AccountNext, Connect, Disconnect, VerifyReads, VerifySaves, Decision
  <2> QED BY <2>1, <2>2 DEF Promise!Next, Promise!Decide, charges
<1>4. CASE CentreNext
  <2>1. UNCHANGED charges
    BY <1>4, ElsewhereKeepsCharges DEF CentreNext, Move, SetStatus, ExtendReads, ExtendWrites,
                                       checkout, razorpay
  <2>2. decisions' = decisions + 1 \/ UNCHANGED <<sub, decisions>>
    BY <1>4 DEF CentreNext, Move, SetStatus, ExtendReads, ExtendWrites, Decision
  <2> QED BY <2>1, <2>2 DEF Promise!Next, Promise!Decide, charges
<1>5. CASE CheckoutNext
  <2>1. UNCHANGED <<sub, decisions>>
    BY <1>5 DEF CheckoutNext, StartCheckout, CheckoutOpens, CheckoutFails, centre
  <2>2. ASSUME NEW t \in Tabs, NEW o \in Orders, CheckoutOpens(t, o) PROVE UNCHANGED charges
    <3>1. /\ bank[o] = "none" /\ bank' = [bank EXCEPT ![o] = "created"]
          /\ row'[o].applied = FALSE
          /\ \A q \in Orders \ {o} : row'[q] = row[q]
      BY <2>2 DEF CheckoutOpens, IInv, TypeOK
    <3>2. o \notin Applied /\ o \notin Applied'
      BY <3>1 DEF Applied, IInv, Sound, Grounded
    <3>3. \A q \in Orders : q \in Applied' <=> q \in Applied
      BY <3>1, <3>2 DEF Applied, Stored
    <3>4. \A q \in Orders : bank[q] = "paid" <=> bank'[q] = "paid"
      BY <3>1 DEF IInv, TypeOK
    <3> QED BY <3>3, <3>4, ChargeFrame, ChargesStay
  <2>3. ASSUME NEW t \in Tabs, CheckoutFails(t) \/ \E item \in Item : StartCheckout(t, item)
        PROVE  UNCHANGED charges
    BY <2>3, ElsewhereKeepsCharges DEF CheckoutFails, StartCheckout, razorpay
  <2> QED BY <1>5, <2>1, <2>2, <2>3 DEF CheckoutNext
<1>6. CASE CustomerNext
  <2> SUFFICES ASSUME NEW o \in Orders,
                      PaymentFails(o) \/ PaymentAuthorized(o) \/ PaymentCaptured(o)
               PROVE  Promise!Pay(o) \/ Stutter
    BY <1>6 DEF CustomerNext, Promise!Next, charges
  <2>1. CASE PaymentCaptured(o)
    BY <2>1, CaptureIsPay DEF PaymentCaptured, Elsewhere, checkout, centre
  <2>2. CASE PaymentFails(o) \/ PaymentAuthorized(o)
    <3>1. UNCHANGED <<row, sub, decisions>>
      BY <2>2 DEF PaymentFails, PaymentAuthorized, Elsewhere, checkout, centre
    <3>2. \A q \in Orders : bank[q] = "paid" <=> bank'[q] = "paid"
      BY <2>2 DEF PaymentFails, PaymentAuthorized, IInv, TypeOK
    <3>3. Applied' = Applied
      BY <3>1 DEF Applied, Stored
    <3> QED BY <3>1, <3>2, <3>3, ChargeFrame, ChargesStay
  <2> QED BY <2>1, <2>2
<1>7. CASE CallNext
  <2> SUFFICES ASSUME NEW c \in Calls,
                      \/ \E o \in Orders : Begin(c, o)
                      \/ Proceed(c) \/ Unreachable(c) \/ Die(c)
               PROVE  (\E o \in Orders : Promise!Pay(o) \/ Promise!Apply(o)) \/ Stutter
    BY <1>7 DEF CallNext, Promise!Next, charges
  <2>0. ASSUME ~At(c, "idle") PROVE call[c].order \in Orders /\ Stored(call[c].order)
    BY <2>0, CallFields DEF IInv, Sound, Grounded
  <2>1. CASE (\E o \in Orders : Begin(c, o)) \/ Ask(c) \/ Apply(c) \/ Unreachable(c) \/ Die(c)
    <3>1. UNCHANGED <<row, bank, sub, decisions>>
      BY <2>1 DEF Begin, Ask, Apply, Unreachable, Die, checkout, centre, razorpay
    <3> QED BY <3>1, ElsewhereKeepsCharges
  <2>2. CASE Capture(c)
    <3> DEFINE o == call[c].order
    <3>1. o \in Orders /\ UNCHANGED <<row, sub, decisions>>
      BY <2>2, <2>0 DEF Capture, At, checkout, centre
    <3>2. \/ bank[o] = "authorized" /\ bank' = [bank EXCEPT ![o] = "paid"]
          \/ bank' = bank
      BY <2>2 DEF Capture
    <3> QED BY <3>1, <3>2, CaptureIsPay, ElsewhereKeepsCharges
  <2>3. CASE Record(c)
    <3> DEFINE o == call[c].order
    <3>1. o \in Orders /\ Stored(o) /\ row[o] \in Row /\ UNCHANGED <<bank, sub, decisions>>
      BY <2>3, <2>0, RowFields DEF Record, At, centre, razorpay, IInv
    <3>2. Found(call[c].saw) \in Statuses
      BY <2>3, CallFields DEF Record, At, Found, Statuses, IInv
    <3>3. PICK status \in Statuses, at \in {bankAt[o], now, row[o].paidAt} : row' = [row EXCEPT ![o].status = status, ![o].paidAt = at]
      <4>1. (IF row[o].status = "paid" THEN "paid" ELSE Found(call[c].saw)) \in Statuses
        BY <3>2 DEF Statuses
      <4> QED BY <2>3, <4>1 DEF Record
    <3>4. row'[o].status \in Statuses /\ row'[o].applied = row[o].applied
      BY <3>1, <3>3 DEF Row, IInv, TypeOK
    <3>5. \A q \in Orders \ {o} : row'[q] = row[q]
      BY <3>3 DEF IInv, TypeOK
    <3>6. \A q \in Orders : q \in Applied' <=> q \in Applied
      BY <3>1, <3>4, <3>5 DEF Applied, Stored, Statuses
    <3> QED BY <3>1, <3>6, ChargeFrame, ChargesStay
  <2>4. CASE Take(c)
    <3> DEFINE o == call[c].order
    <3>1. /\ o \in Orders /\ row[o].status = "paid"
          /\ UNCHANGED <<bank, decisions>>
      BY <2>4, <2>0 DEF Take, At, centre, razorpay, IInv, Sound, Grounded
    <3>2. CASE Mine(o)
      <4>1. \E start, end : row' = [row EXCEPT ![o].applied = TRUE, ![o].start = start, ![o].end = end]
        BY <2>4, <3>2 DEF Take
      <4> QED BY <3>1, <3>2, <4>1, TakeIsApply DEF Mine
    <3>3. CASE ~Mine(o)
      BY <2>4, <3>1, <3>3, ElsewhereKeepsCharges DEF Take
    <3> QED BY <3>2, <3>3
  <2> QED BY <2>1, <2>2, <2>3, <2>4 DEF Proceed
<1> QED BY <1>1, <1>2, <1>3, <1>4, <1>5, <1>6, <1>7 DEF Next, Promise!Next, charges

(* Plan billing does what PaidPlans promises: every payment taken changes  *)
(* the plan at most once, and without one only the control centre does.    *)
THEOREM AppliedExactlyOnce == Spec => KeepsPromise
<1>1. Init => Promise!Init
  BY DEF Init, Promise!Init, Charge, Applied, Stored, NoRow
<1>2. IInv /\ [Next]_vars => [Promise!Next]_<<charges, sub, decisions>>
  BY StepKeepsPromise
<1> QED BY <1>1, <1>2, Invariant, PTL DEF Spec, KeepsPromise, Promise!Spec, charges

-----------------------------------------------------------------------------
(* What the code promises where a value read before an await is not used   *)
(* after it: the gaps named are the ones each result needs closed.         *)

(* Rows once stored keep their item and date of making, an applied row is  *)
(* applied for good over the same period, and no row becomes unpaid again. *)
RowLasts(o) ==
    Stored(o) =>
        /\ Stored(o)'
        /\ row'[o].item = row[o].item
        /\ row'[o].made = row[o].made
        /\ Unpaid(o)' => Unpaid(o)
        /\ row[o].applied =>
             row'[o].applied /\ row'[o].start = row[o].start /\ row'[o].end = row[o].end

(* No payment is applied in this step. *)
NoneApplied == \A o \in Orders : o \in Applied' => o \in Applied

LEMMA SameRows == ASSUME UNCHANGED row PROVE NoneApplied /\ \A o \in Orders : RowLasts(o)
BY DEF NoneApplied, Applied, RowLasts, Stored, Unpaid

(* The payment a step applies, over the period it gives it. *)
AppliesNow(o, start) ==
    /\ o \notin Applied /\ Stored(o) /\ ~row[o].applied /\ row[o].paidAt \in Nat
    /\ start \in Nat /\ row[o].item.plan \in Plans /\ Length[row[o].item.period] \in Nat
    /\ start = PeriodStart(o, sub)
    /\ row' = [row EXCEPT ![o].applied = TRUE, ![o].start = start,
                          ![o].end = start + Length[row[o].item.period]]
    /\ sub' = [plan |-> row[o].item.plan, active |-> TRUE,
               end |-> start + Length[row[o].item.period]]
    /\ UNCHANGED <<opening, moves>>

LEMMA TakeApplies ==
    ASSUME IInv, "renewal" \notin Gaps, NEW c \in Calls, Take(c)
    PROVE  \/ UNCHANGED <<row, sub, opening, moves>>
           \/ \E o \in Orders : \E start \in Nat : AppliesNow(o, start)
<1> DEFINE o == call[c].order
           start == PeriodStart(o, sub)
<1>1. o \in Orders /\ Stored(o) /\ row[o] \in Row /\ row[o].status = "paid"
  BY CallFields, RowFields DEF Take, At, IInv, Sound, Grounded
<1>2. /\ row[o].paidAt \in Nat /\ row[o].item.period \in Periods
      /\ row[o].item.plan \in Plans
  BY <1>1 DEF Row, Item, NotPaid, IInv, Sound, Grounded
<1>3. start \in Nat
  BY <1>2 DEF PeriodStart, IInv, TypeOK, Sub
<1>4. Length[row[o].item.period] \in Nat
  BY <1>2, PlanBillingAssumption DEF Periods
<1>5. CASE Mine(o)
  <2>1. AppliesNow(o, start)
    BY <1>1, <1>2, <1>3, <1>4, <1>5 DEF Take, AppliesNow, Mine, Applied, centre
  <2> QED BY <1>1, <1>3, <2>1
<1>6. CASE ~Mine(o)
  BY <1>6 DEF Take, centre
<1> QED BY <1>5, <1>6

LEMMA AppliedRow ==
    ASSUME IInv, NEW o \in Orders, NEW start \in Nat, AppliesNow(o, start)
    PROVE  /\ row'[o].start = start /\ row'[o].end = start + Length[row[o].item.period]
           /\ row'[o].item = row[o].item
           /\ \A q \in Orders : RowLasts(q)
           /\ \A q \in Orders : q \in Applied' <=> q \in Applied \/ q = o
<1>1. row[o] \in Row
  BY RowFields DEF AppliesNow, IInv
<1>2. /\ row'[o].start = start /\ row'[o].end = start + Length[row[o].item.period]
      /\ row'[o].item = row[o].item /\ row'[o].made = row[o].made
      /\ row'[o].status = row[o].status /\ row'[o].applied
      /\ \A q \in Orders \ {o} : row'[q] = row[q]
  BY <1>1 DEF AppliesNow, Row, IInv, TypeOK
<1>3. \A q \in Orders : RowLasts(q)
  BY <1>2 DEF RowLasts, Stored, Unpaid, AppliesNow
<1>4. \A q \in Orders : q \in Applied' <=> q \in Applied \/ q = o
  BY <1>2 DEF Applied, Stored, AppliesNow
<1> QED BY <1>2, <1>3, <1>4

LEMMA RecordRows ==
    ASSUME IInv, NEW c \in Calls, Record(c)
    PROVE  NoneApplied /\ \A o \in Orders : RowLasts(o)
<1>0. PICK o \in Orders : o = call[c].order
  BY CallFields DEF Record, At, IInv
<1>1. Stored(o) /\ row[o] \in Row /\ Found(call[c].saw) \in Statuses
  BY <1>0, CallFields, RowFields DEF Record, At, Found, Statuses, IInv, Sound, Grounded
<1>2. PICK status, at : row' = [row EXCEPT ![o].status = IF @ = "paid" THEN "paid" ELSE status,
                                           ![o].paidAt = at] /\ status \in Statuses
  BY <1>0, <1>1 DEF Record
<1>3. /\ row'[o].status = IF row[o].status = "paid" THEN "paid" ELSE status
      /\ row'[o].applied = row[o].applied /\ row'[o].item = row[o].item
      /\ row'[o].made = row[o].made /\ row'[o].start = row[o].start /\ row'[o].end = row[o].end
      /\ \A q \in Orders \ {o} : row'[q] = row[q]
  BY <1>1, <1>2 DEF Row, IInv, TypeOK
<1>4. NoneApplied
  BY <1>1, <1>3 DEF NoneApplied, Applied, Stored
<1>5. Stored(o)' /\ (Unpaid(o)' => Unpaid(o))
  <2>1. row[o].status \in Statuses
    BY <1>1 DEF Row
  <2> QED BY <1>2, <1>3, <2>1 DEF Stored, Unpaid, Statuses
<1>6. \A q \in Orders : RowLasts(q)
  BY <1>3, <1>5 DEF RowLasts, Stored, Unpaid
<1> QED BY <1>4, <1>6

(* Whatever subscription a batch goes by, it leaves the rows as they were, *)
(* but for the one it applies.                                             *)
LEMMA CallRows ==
    ASSUME IInv, NEW c \in Calls, Take(c) \/ Record(c)
    PROVE  \A o \in Orders : RowLasts(o) /\ (Stored(o)' => Stored(o))
<1>0. PICK o \in Orders : o = call[c].order
  BY CallFields DEF Take, Record, At, IInv
<1>1. Stored(o) /\ row[o] \in Row
  BY <1>0, RowFields DEF Take, Record, At, IInv, Sound, Grounded
<1>2. CASE row' = row
  BY <1>2, SameRows DEF Stored
<1>3. ASSUME NEW start, NEW end,
             row' = [row EXCEPT ![o].applied = TRUE, ![o].start = start, ![o].end = end], ~row[o].applied
      PROVE  \A q \in Orders : RowLasts(q) /\ (Stored(q)' => Stored(q))
  <2>1. /\ row'[o].item = row[o].item /\ row'[o].made = row[o].made
        /\ row'[o].status = row[o].status
        /\ \A q \in Orders \ {o} : row'[q] = row[q]
    BY <1>1, <1>3 DEF Row, IInv, TypeOK
  <2> QED BY <1>1, <1>3, <2>1 DEF RowLasts, Stored, Unpaid
<1>4. CASE Record(c)
  <2>1. \A q \in Orders \ {o} : row'[q] = row[q]
    BY <1>0, <1>4 DEF Record, IInv, TypeOK
  <2> QED BY <1>1, <1>4, <2>1, RecordRows DEF Stored
<1>5. CASE Take(c)
  BY <1>0, <1>2, <1>3, <1>5 DEF Take, Mine
<1> QED BY <1>4, <1>5

LEMMA OpensRows ==
    ASSUME IInv, NEW t \in Tabs, NEW o \in Orders, CheckoutOpens(t, o)
    PROVE  NoneApplied /\ \A q \in Orders : RowLasts(q)
<1>1. /\ row'[o].applied = FALSE /\ ~Stored(o)
      /\ \A q \in Orders \ {o} : row'[q] = row[q]
  BY DEF CheckoutOpens, IInv, TypeOK, Sound, Grounded
<1> QED BY <1>1 DEF NoneApplied, Applied, RowLasts, Stored, Unpaid

(* What a step can do to the plan: nothing; a change in the control centre;*)
(* a later end; or one more payment applied.                               *)
LEMMA PlanSteps ==
    ASSUME IInv, [Next]_vars, "renewal" \notin Gaps, "extension" \notin Gaps
    PROVE  \/ /\ NoneApplied /\ \A o \in Orders : RowLasts(o)
              /\ \/ UNCHANGED <<sub, moves>>
                 \/ moves' = moves + 1 /\ (sub'.plan # sub.plan \/ sub'.end = sub.end)
                 \/ UNCHANGED moves /\ sub'.active /\ sub'.plan = sub.plan /\ sub'.end >= sub.end
           \/ \E o \in Orders : \E start \in Nat : AppliesNow(o, start)
<1> DEFINE Goal == \/ /\ NoneApplied /\ \A o \in Orders : RowLasts(o)
                      /\ \/ UNCHANGED <<sub, moves>>
                         \/ moves' = moves + 1 /\ (sub'.plan # sub.plan \/ sub'.end = sub.end)
                         \/ UNCHANGED moves /\ sub'.active /\ sub'.plan = sub.plan /\ sub'.end >= sub.end
                   \/ \E o \in Orders : \E start \in Nat : AppliesNow(o, start)
<1>1. ASSUME UNCHANGED <<row, sub, moves>> PROVE Goal
  BY <1>1, SameRows
<1>2. CASE CentreNext
  <2>1. UNCHANGED row
    BY <1>2 DEF CentreNext, Move, SetStatus, ExtendReads, ExtendWrites, checkout
  <2>2. NoneApplied /\ \A o \in Orders : RowLasts(o)
    BY <2>1, SameRows
  <2>3. ASSUME NEW p \in Plans, Move(p) PROVE Goal
    BY <2>2, <2>3 DEF Move, IInv, TypeOK, Sub
  <2>4. CASE SetStatus
    BY <2>2, <2>4 DEF SetStatus, IInv, TypeOK, Sub
  <2>5. CASE ExtendReads
    BY <1>1, <2>5 DEF ExtendReads, checkout
  <2>6. CASE ExtendWrites
    <3>1. sub' = [sub EXCEPT !.active = TRUE, !.end = 1 + IF sub.end > now THEN sub.end ELSE now]
      BY <2>6 DEF ExtendWrites
    <3>2. sub.end \in Nat /\ now \in Nat /\ UNCHANGED moves
      BY <2>6 DEF ExtendWrites, IInv, TypeOK, Sub
    <3>3. sub'.active /\ sub'.plan = sub.plan
      BY <3>1 DEF IInv, TypeOK, Sub
    <3>4. sub'.end = 1 + IF sub.end > now THEN sub.end ELSE now
      BY <3>1 DEF IInv, TypeOK, Sub
    <3>5. sub'.end >= sub.end
      BY <3>2, <3>4
    <3> QED BY <2>2, <3>2, <3>3, <3>5
  <2> QED BY <1>2, <2>3, <2>4, <2>5, <2>6 DEF CentreNext
<1>3. CASE CheckoutNext
  <2>1. UNCHANGED <<sub, moves>>
    BY <1>3 DEF CheckoutNext, StartCheckout, CheckoutOpens, CheckoutFails, centre
  <2>2. ASSUME NEW t \in Tabs, NEW o \in Orders, CheckoutOpens(t, o) PROVE Goal
    BY <2>1, <2>2, OpensRows
  <2>3. ASSUME NEW t \in Tabs, CheckoutFails(t) \/ \E item \in Item : StartCheckout(t, item)
        PROVE  Goal
    BY <1>1, <2>1, <2>3 DEF CheckoutFails, StartCheckout
  <2> QED BY <1>3, <2>2, <2>3 DEF CheckoutNext
<1>4. CASE CallNext
  <2> SUFFICES ASSUME NEW c \in Calls,
                      \/ \E o \in Orders : Begin(c, o)
                      \/ Proceed(c) \/ Unreachable(c) \/ Die(c)
               PROVE  Goal
    BY <1>4 DEF CallNext
  <2>1. CASE Take(c)
    BY <2>1, <1>1, TakeApplies
  <2>2. CASE Record(c)
    BY <2>2, RecordRows DEF Record, centre
  <2>3. CASE (\E o \in Orders : Begin(c, o)) \/ Ask(c) \/ Capture(c) \/ Apply(c) \/ Unreachable(c) \/ Die(c)
    BY <1>1, <2>3 DEF Begin, Ask, Capture, Apply, Unreachable, Die, checkout, centre
  <2> QED BY <2>1, <2>2, <2>3 DEF Proceed
<1>5. CASE UNCHANGED vars \/ Tick \/ AccountNext \/ CustomerNext
  BY <1>1, <1>5 DEF vars, Tick, AccountNext, Connect, Disconnect, VerifyReads, VerifySaves,
     CustomerNext, PaymentFails, PaymentAuthorized, PaymentCaptured, Elsewhere, checkout, centre
<1> QED BY <1>2, <1>3, <1>4, <1>5 DEF Next

(* All that has been paid for is for one plan, and the control centre has  *)
(* changed neither plan nor status.                                        *)
OnePlan == moves = 0 /\ \A o, q \in Applied : row[o].item.plan = row[q].item.plan

(* Then the plan runs at least to the end of every period paid for. *)
RunsToEnd ==
    OnePlan =>
        \A o \in Applied :
            sub.active /\ sub.plan = row[o].item.plan /\ row[o].end <= sub.end

Apart(o, q) == row[o].end <= row[q].start \/ row[q].end <= row[o].start

LEMMA OneApplies ==
    ASSUME IInv, RunsToEnd, PeriodsDoNotOverlap,
           NEW o \in Orders, NEW start \in Nat, AppliesNow(o, start)
    PROVE  RunsToEnd' /\ PeriodsDoNotOverlap'
<1> SUFFICES ASSUME OnePlan' PROVE /\ \A q \in Applied' : sub'.active /\ sub'.plan = row'[q].item.plan /\ row'[q].end <= sub'.end
                                   /\ \A p, q \in Applied' : p # q => Apart(p, q)'
  BY DEF RunsToEnd, PeriodsDoNotOverlap, OnePlan, Apart
<1>1. /\ row'[o].start = start /\ row'[o].end = start + Length[row[o].item.period]
      /\ row'[o].item = row[o].item
      /\ \A q \in Orders : q \in Applied' <=> q \in Applied \/ q = o
      /\ Length[row[o].item.period] \in Nat /\ row[o].paidAt \in Nat
      /\ sub' = [plan |-> row[o].item.plan, active |-> TRUE, end |-> row'[o].end]
  BY AppliedRow DEF AppliesNow
<1>2. \A q \in Applied : row'[q].item = row[q].item /\ row'[q].start = row[q].start /\ row'[q].end = row[q].end
  BY AppliedRow DEF RowLasts, Applied
<1>3. \A q \in Applied : row[q].item.plan = row[o].item.plan /\ q \in Orders
  BY <1>1, <1>2 DEF OnePlan, Applied
<1>4. OnePlan
  BY <1>1, <1>3 DEF OnePlan, AppliesNow
<1>5. \A q \in Applied : row[q].end \in Nat
  BY RowFields DEF Applied, Row, IInv
<1>6. \A q \in Applied : row[q].end <= start
  <2> SUFFICES ASSUME NEW q \in Applied PROVE row[q].end <= start
    OBVIOUS
  <2>1. sub.active /\ sub.plan = row[o].item.plan /\ row[q].end <= sub.end
    BY <1>3, <1>4 DEF RunsToEnd
  <2>2. start = IF sub.end > row[o].paidAt THEN sub.end ELSE row[o].paidAt
    BY <2>1 DEF AppliesNow, PeriodStart
  <2>3. sub.end \in Nat
    BY DEF IInv, TypeOK, Sub
  <2> QED BY <1>1, <1>5, <2>1, <2>2, <2>3
<1>7. start <= row'[o].end
  BY <1>1
<1>8. \A q \in Applied' : sub'.active /\ sub'.plan = row'[q].item.plan /\ row'[q].end <= sub'.end
  <2> SUFFICES ASSUME NEW q \in Applied' PROVE sub'.active /\ sub'.plan = row'[q].item.plan /\ row'[q].end <= sub'.end
    OBVIOUS
  <2>1. CASE q = o
    BY <1>1, <2>1
  <2>2. CASE q \in Applied
    BY <1>1, <1>2, <1>3, <1>5, <1>6, <2>2
  <2> QED BY <1>1, <2>1, <2>2 DEF Applied
<1>9. ASSUME NEW p \in Applied', NEW q \in Applied', p # q PROVE Apart(p, q)'
  <2>1. CASE p \in Applied /\ q \in Applied
    BY <1>2, <1>4, <1>9, <2>1 DEF Apart, PeriodsDoNotOverlap, OnePlan
  <2>2. CASE p = o /\ q \in Applied
    BY <1>1, <1>2, <1>6, <2>2 DEF Apart
  <2>3. CASE q = o /\ p \in Applied
    BY <1>1, <1>2, <1>6, <2>3 DEF Apart
  <2> QED BY <1>1, <1>9, <2>1, <2>2, <2>3 DEF Applied
<1> QED BY <1>8, <1>9

LEMMA NoneApplies ==
    ASSUME IInv, TypeOK', RunsToEnd, PeriodsDoNotOverlap, NoneApplied, \A o \in Orders : RowLasts(o),
           \/ UNCHANGED <<sub, moves>>
           \/ moves' = moves + 1
           \/ UNCHANGED moves /\ sub'.active /\ sub'.plan = sub.plan /\ sub'.end >= sub.end
    PROVE  RunsToEnd' /\ PeriodsDoNotOverlap'
<1> SUFFICES ASSUME OnePlan' PROVE /\ \A q \in Applied' : sub'.active /\ sub'.plan = row'[q].item.plan /\ row'[q].end <= sub'.end
                                   /\ \A p, q \in Applied' : p # q => Apart(p, q)'
  BY DEF RunsToEnd, PeriodsDoNotOverlap, OnePlan, Apart
<1>1. \A q \in Orders : q \in Applied' <=> q \in Applied
  BY DEF NoneApplied, RowLasts, Applied
<1>2. \A q \in Applied : row'[q].item = row[q].item /\ row'[q].start = row[q].start /\ row'[q].end = row[q].end
  BY DEF RowLasts, Applied
<1>3. moves' = moves
  BY DEF OnePlan, IInv, TypeOK
<1>4. OnePlan
  BY <1>1, <1>2, <1>3 DEF OnePlan, Applied
<1>5. /\ sub'.plan = sub.plan /\ (sub.active => sub'.active) /\ sub'.end >= sub.end
  BY <1>3 DEF IInv, TypeOK, Sub
<1>6. \A q \in Applied : row[q].end \in Nat
  BY RowFields DEF Applied, Row, IInv
<1>7. sub.end \in Nat /\ sub'.end \in Nat
  BY DEF IInv, TypeOK, Sub
<1>8. \A q \in Applied : sub'.active /\ sub'.plan = row'[q].item.plan /\ row'[q].end <= sub'.end
  BY <1>2, <1>4, <1>5, <1>6, <1>7 DEF RunsToEnd
<1>9. \A p, q \in Applied : p # q => Apart(p, q)'
  BY <1>2, <1>4 DEF Apart, PeriodsDoNotOverlap, OnePlan
<1> QED BY <1>1, <1>8, <1>9 DEF Applied

LEMMA PeriodStep ==
    ASSUME IInv, [Next]_vars, "renewal" \notin Gaps, "extension" \notin Gaps,
           RunsToEnd, PeriodsDoNotOverlap
    PROVE  RunsToEnd' /\ PeriodsDoNotOverlap'
<1>1. TypeOK'
  BY StepTyped DEF IInv, Sound
<1> QED BY <1>1, PlanSteps, OneApplies, NoneApplies

(* No two payments for the same plan buy the same time, if the batch that  *)
(* applies one reads the plan as it changes it (billing.ts applyPaidPayment).*)
THEOREM PeriodsAddUp ==
    "renewal" \notin Gaps /\ "extension" \notin Gaps => (Spec => []PeriodsDoNotOverlap)
<1> SUFFICES ASSUME "renewal" \notin Gaps, "extension" \notin Gaps
             PROVE  Spec => []PeriodsDoNotOverlap
  OBVIOUS
<1>1. Init => RunsToEnd /\ PeriodsDoNotOverlap
  BY DEF Init, RunsToEnd, PeriodsDoNotOverlap, Applied, Stored, NoRow
<1>2. IInv /\ RunsToEnd /\ PeriodsDoNotOverlap /\ [Next]_vars => (RunsToEnd /\ PeriodsDoNotOverlap)'
  BY PeriodStep
<1> QED BY <1>1, <1>2, Invariant, PTL DEF Spec

LEMMA TimeStep ==
    ASSUME IInv, [Next]_vars, "renewal" \notin Gaps, "extension" \notin Gaps
    PROVE  KeepsTime
<1>1. sub \in Sub /\ sub' \in Sub
  BY StepTyped DEF IInv, TypeOK, Sound
<1>2. ASSUME NEW o \in Orders, NEW start \in Nat, AppliesNow(o, start) PROVE KeepsTime
  <2>1. /\ sub'.plan = row[o].item.plan
        /\ sub'.end = start + Length[row[o].item.period]
        /\ Length[row[o].item.period] \in Nat /\ row[o].paidAt \in Nat
        /\ start = PeriodStart(o, sub)
    BY <1>2 DEF AppliesNow
  <2>2. sub.end \in Nat
    BY <1>1 DEF Sub
  <2> QED BY <1>2, <2>1, <2>2 DEF KeepsTime, PeriodStart
<1>3. ASSUME \/ UNCHANGED <<sub, moves>>
             \/ sub'.plan # sub.plan \/ sub'.end = sub.end
             \/ sub'.end >= sub.end
      PROVE  KeepsTime
  BY <1>1, <1>3 DEF KeepsTime, Sub
<1> QED BY <1>2, <1>3, PlanSteps

(* While an organization stays on a plan no paid time is taken back, if    *)
(* neither a payment nor an extension is written over a newer date         *)
(* (plans.ts extendSubscription, billing.ts applyPaidPayment).             *)
THEOREM TimeIsKept == "renewal" \notin Gaps /\ "extension" \notin Gaps => (Spec => PaidTimeIsKept)
<1> SUFFICES ASSUME "renewal" \notin Gaps, "extension" \notin Gaps PROVE Spec => PaidTimeIsKept
  OBVIOUS
<1>1. IInv /\ [Next]_vars => [KeepsTime]_vars
  BY TimeStep
<1> QED BY <1>1, Invariant, PTL DEF Spec, PaidTimeIsKept

-----------------------------------------------------------------------------
(* Checkouts started twice. *)

(* A checkout being started has found nothing recent to reuse, and is the  *)
(* only one of its item.                                                   *)
NothingRecent ==
    \A t \in Tabs :
        opening[t] # Closed =>
            /\ \A o \in Orders :
                 Unpaid(o) /\ row[o].item = opening[t] => row[o].made + ReuseTime <= now
            /\ \A u \in Tabs \ {t} : opening[u] # opening[t]

LEMMA RowDates == ASSUME IInv, NEW o \in Orders, Unpaid(o) PROVE row[o].made \in Nat /\ Stored(o)
BY RowFields DEF Unpaid, Stored, Row, IInv

(* A step that stores no row and starts no checkout. *)
LEMMA NoneOpens ==
    ASSUME IInv, NothingRecent, OneOpenCheckout,
           \A o \in Orders : RowLasts(o),
           \A o \in Orders : Stored(o)' => Stored(o),
           \A t \in Tabs : opening'[t] # Closed => opening'[t] = opening[t],
           now' \in Nat, now' >= now
    PROVE  NothingRecent' /\ OneOpenCheckout'
<1>1. \A o \in Orders : Unpaid(o)' => Unpaid(o) /\ row'[o].item = row[o].item /\ row'[o].made = row[o].made
  BY DEF RowLasts, Unpaid, Stored
<1>2. OneOpenCheckout'
  BY <1>1 DEF OneOpenCheckout
<1>3. now \in Nat /\ ReuseTime \in Nat
  BY PlanBillingAssumption DEF IInv, TypeOK
<1>4. ASSUME NEW t \in Tabs, opening'[t] # Closed, NEW o \in Orders, Unpaid(o)', row'[o].item = opening'[t]
      PROVE  row'[o].made + ReuseTime <= now'
  <2>1. row[o].made + ReuseTime <= now /\ row[o].made \in Nat
    BY <1>1, <1>4, RowDates DEF NothingRecent
  <2> QED BY <1>1, <1>3, <1>4, <2>1
<1>5. \A t \in Tabs : opening'[t] # Closed => \A u \in Tabs \ {t} : opening'[u] # opening'[t]
  BY DEF NothingRecent
<1> QED BY <1>2, <1>4, <1>5 DEF NothingRecent

LEMMA StartsOne ==
    ASSUME IInv, NothingRecent, OneOpenCheckout, "doubleClick" \notin Gaps,
           NEW t \in Tabs, NEW item \in Item, StartCheckout(t, item)
    PROVE  NothingRecent' /\ OneOpenCheckout'
<1>1. /\ row' = row /\ now' = now
      /\ \A u \in Tabs : opening'[u] = IF u = t THEN item ELSE opening[u]
      /\ opening[t] = Closed
      /\ \A u \in Tabs : opening[u] # item
      /\ ~\E o \in Orders : Recent(o, item)
  BY DEF StartCheckout, IInv, TypeOK
<1>2. OneOpenCheckout'
  BY <1>1 DEF OneOpenCheckout, Unpaid
<1>3. \A o \in Orders : Unpaid(o) /\ row[o].item = item => row[o].made + ReuseTime <= now
  <2> SUFFICES ASSUME NEW o \in Orders, Unpaid(o), row[o].item = item PROVE row[o].made + ReuseTime <= now
    OBVIOUS
  <2>1. ~(row[o].made > now - ReuseTime)
    BY <1>1 DEF Recent
  <2>2. row[o].made \in Nat /\ now \in Nat /\ ReuseTime \in Nat
    BY RowDates, PlanBillingAssumption DEF IInv, TypeOK
  <2> QED BY <2>1, <2>2
<1>4. NothingRecent'
  BY <1>1, <1>3 DEF NothingRecent, Unpaid
<1> QED BY <1>2, <1>4

LEMMA OpensOne ==
    ASSUME IInv, NothingRecent, OneOpenCheckout, NEW t \in Tabs, NEW o \in Orders, CheckoutOpens(t, o)
    PROVE  NothingRecent' /\ OneOpenCheckout'
<1>1. /\ opening[t] # Closed /\ now' = now
      /\ row'[o].item = opening[t] /\ row'[o].made = now
      /\ \A q \in Orders \ {o} : row'[q] = row[q]
      /\ \A u \in Tabs : opening'[u] = IF u = t THEN Closed ELSE opening[u]
  BY DEF CheckoutOpens, IInv, TypeOK
<1>2. \A q \in Orders \ {o} : Unpaid(q) /\ row[q].item = opening[t] => row[q].made + ReuseTime <= now
  BY <1>1 DEF NothingRecent
<1>3. OneOpenCheckout'
  BY <1>1, <1>2 DEF OneOpenCheckout, Unpaid
<1>4. \A u \in Tabs : opening'[u] # Closed => u # t /\ opening[u] # opening[t] /\ opening'[u] = opening[u]
  BY <1>1 DEF NothingRecent
<1>5. ASSUME NEW u \in Tabs, opening'[u] # Closed, NEW q \in Orders, Unpaid(q)', row'[q].item = opening'[u]
      PROVE  row'[q].made + ReuseTime <= now'
  BY <1>1, <1>4, <1>5 DEF NothingRecent, Unpaid
<1>6. \A u \in Tabs : opening'[u] # Closed => \A v \in Tabs \ {u} : opening'[v] # opening'[u]
  BY <1>1, <1>4 DEF NothingRecent
<1> QED BY <1>3, <1>5, <1>6 DEF NothingRecent

LEMMA CheckoutsStep ==
    ASSUME IInv, [Next]_vars, "doubleClick" \notin Gaps, NothingRecent, OneOpenCheckout
    PROVE  NothingRecent' /\ OneOpenCheckout'
<1>0. now \in Nat
  BY DEF IInv, TypeOK
<1>1. ASSUME UNCHANGED <<row, opening>>, now' = now \/ now' = now + 1
      PROVE  NothingRecent' /\ OneOpenCheckout'
  BY <1>0, <1>1, NoneOpens, SameRows DEF Stored
<1>2. CASE CheckoutNext
  <2>1. ASSUME NEW t \in Tabs, CheckoutFails(t) PROVE NothingRecent' /\ OneOpenCheckout'
    BY <1>0, <2>1, NoneOpens, SameRows DEF CheckoutFails, Stored, IInv, TypeOK
  <2> QED BY <1>2, <2>1, StartsOne, OpensOne DEF CheckoutNext
<1>3. CASE CallNext
  <2> SUFFICES ASSUME NEW c \in Calls,
                      \/ \E o \in Orders : Begin(c, o)
                      \/ Proceed(c) \/ Unreachable(c) \/ Die(c)
               PROVE  NothingRecent' /\ OneOpenCheckout'
    BY <1>3 DEF CallNext
  <2>1. CASE Take(c) \/ Record(c)
    <3>1. UNCHANGED <<opening, now>>
      BY <2>1 DEF Take, Record
    <3>2. \A o \in Orders : RowLasts(o) /\ (Stored(o)' => Stored(o))
      BY <2>1, CallRows
    <3> QED BY <1>0, <3>1, <3>2, NoneOpens
  <2>2. CASE (\E o \in Orders : Begin(c, o)) \/ Ask(c) \/ Capture(c) \/ Apply(c) \/ Unreachable(c) \/ Die(c)
    BY <1>1, <2>2 DEF Begin, Ask, Capture, Apply, Unreachable, Die, checkout
  <2> QED BY <2>1, <2>2 DEF Proceed
<1>4. CASE UNCHANGED vars \/ Tick \/ AccountNext \/ CustomerNext \/ CentreNext
  BY <1>1, <1>4 DEF vars, Tick, AccountNext, Connect, Disconnect, VerifyReads, VerifySaves,
     CustomerNext, PaymentFails, PaymentAuthorized, PaymentCaptured, Elsewhere, checkout,
     CentreNext, Move, SetStatus, ExtendReads, ExtendWrites
<1> QED BY <1>2, <1>3, <1>4 DEF Next

(* Nobody has two unpaid orders of the same thing to pay, if two requests  *)
(* do not both find none to reuse (billing.ts startCheckout).              *)
THEOREM CheckoutIsReused == "doubleClick" \notin Gaps => (Spec => []OneOpenCheckout)
<1> SUFFICES ASSUME "doubleClick" \notin Gaps PROVE Spec => []OneOpenCheckout
  OBVIOUS
<1>1. Init => NothingRecent /\ OneOpenCheckout
  BY DEF Init, NothingRecent, OneOpenCheckout, Unpaid, NoRow, Closed
<1>2. IInv /\ NothingRecent /\ OneOpenCheckout /\ [Next]_vars => (NothingRecent /\ OneOpenCheckout)'
  BY CheckoutsStep
<1> QED BY <1>1, <1>2, Invariant, PTL DEF Spec
=============================================================================
