------------------------- MODULE MCOptimisticEdits -------------------------
(* An instance of OptimisticEdits for TLC: an artwork, undone from what    *)
(* the screen had, and a contact, undone from the saved copy and shown as  *)
(* answered; with a fault or a restart, not both.                          *)
EXTENDS OptimisticEdits

MCItems == {"art", "contact"}
MCArtwork == {"art"}
MCContact == {"contact"}
MCOnePerson == {"full"}
MCReadsAll == [w \in MCOnePerson |-> Items]
MCOneDisturbance == faults + restarts <= 1
=============================================================================
