---------------------------- MODULE MCSecondTab ----------------------------
(* An instance of SecondTab for TLC: two tabs of one person, and an item   *)
(* that changes often enough to be gone on a full page and back on the     *)
(* next one.                                                               *)
EXTENDS SecondTab

MCItems == {"art"}
MCOnePerson == {"full"}
MCReadsAll == [w \in MCOnePerson |-> MCItems]

(* A fault or a restart, not both: with a second tab, each is enough.     *)
MCOneDisturbance == faults + restarts <= 1
=============================================================================
