--------------------------- MODULE MCPlanBilling ---------------------------
(* Instances of PlanBilling for TLC. A month is two units of time; orders  *)
(* are interchangeable.                                                    *)
EXTENDS PlanBilling, TLC

CONSTANTS o1, o2

MCOrders == {o1, o2}
MCOneOrder == {o1}
MCLength == [monthly |-> 2]
MCSymmetry == Permutations(Orders)
=============================================================================
