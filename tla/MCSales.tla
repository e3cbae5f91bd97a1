------------------------------ MODULE MCSales ------------------------------
(* An instance of Sales and Invoicing for TLC: a proforma and a challan,   *)
(* an invoice made from each, of the same piece, two credit notes on the   *)
(* second, which together are worth more than it; and two sales. The       *)
(* invoice made from the challan is of the second year, and the other may  *)
(* be moved from the first year to it while it is a draft.                 *)
EXTENDS Sales, TLC

CONSTANTS h1, c, p, t, u, n, m, s1, s2, a, b, y1, y2

MCDocs   == {p, c, t, u, n, m}
MCKind   == [d \in MCDocs |->
    CASE d = p -> "proforma" [] d = c -> "challan" [] d \in {t, u} -> "tax" [] OTHER -> "credit"]
MCSource == [d \in MCDocs |-> CASE d = t -> c [] d = u -> p [] d \in {n, m} -> t [] OTHER -> None]
MCWorth  == [d \in MCDocs |-> 2]
MCMayBeIn   == [d \in MCDocs |-> IF d = u THEN {y1, y2} ELSE IF d = t THEN {y2} ELSE {y1}]
MCMaxNumber == [k \in Kinds \X {y1, y2} |->
    IF k[1] = "credit" \/ k = <<"tax", y2>> THEN 2 ELSE 1]
MCSymmetry == Permutations({n, m}) \cup Permutations({s1, s2})
=============================================================================
