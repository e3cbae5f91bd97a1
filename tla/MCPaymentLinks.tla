--------------------------- MODULE MCPaymentLinks ---------------------------
(* Instances of PaymentLinks for TLC: handlers one at a time, with faults; *)
(* and two at once, on one link. Requests are interchangeable.             *)
EXTENDS PaymentLinks, TLC

CONSTANTS h1, h2, q1, q2, r1

MCHandlers == {h1, h2}
MCRequests == {q1, q2}
MCSymmetry == Permutations(MCRequests)
=============================================================================
