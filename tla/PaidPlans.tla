------------------------------ MODULE PaidPlans ------------------------------
(***************************************************************************)
(* What plan billing promises (platform/billing.ts:1-17): money is taken   *)
(* for a checkout, and every checkout paid for changes the organization's  *)
(* plan exactly once. Nothing else does, but the control centre.           *)
(***************************************************************************)
EXTENDS Naturals

CONSTANTS Orders

VARIABLES
    charge,      \* of each checkout: unpaid, paid, applied
    plan,        \* the organization's plan and the date it has paid up to
    decisions    \* changes made in the control centre

Init ==
    /\ charge = [o \in Orders |-> "unpaid"]
    /\ decisions = 0

(* The money arrives at Razorpay. *)
Pay(o) ==
    /\ charge[o] = "unpaid"
    /\ charge' = [charge EXCEPT ![o] = "paid"]
    /\ UNCHANGED <<plan, decisions>>

(* The plan changes, because of this payment. *)
Apply(o) ==
    /\ charge[o] = "paid"
    /\ charge' = [charge EXCEPT ![o] = "applied"]
    /\ UNCHANGED decisions

(* The control centre changes it. *)
Decide ==
    /\ decisions' = decisions + 1
    /\ UNCHANGED charge

Next == Decide \/ \E o \in Orders : Pay(o) \/ Apply(o)

Spec == Init /\ [][Next]_<<charge, plan, decisions>>
=============================================================================
