---------------------------- MODULE MCDeltaSync ----------------------------
(* Instances of DeltaSync for TLC: an ordinary item and an invoice, read   *)
(* by a person with full access and, in some runs, by one who may only     *)
(* read the first.                                                         *)
EXTENDS DeltaSync

MCItems == {"art", "inv"}
MCInvoices == {"inv"}
MCIdentities == {"full", "narrow"}
MCReadable == [w \in MCIdentities |-> IF w = "full" THEN MCItems ELSE {"art"}]
=============================================================================
