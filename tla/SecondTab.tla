------------------------------ MODULE SecondTab ------------------------------
(***************************************************************************)
(* Two tabs of one person in one browser. Each keeps its own cursor in     *)
(* memory (deltaSyncClient.ts, savedCursor); the saved lists and the mark  *)
(* beside them are shared through localStorage.                            *)
(*                                                                         *)
(* The other tab's pass is one step here. It comes while this tab waits:   *)
(* anywhere in the "tabs" runs, otherwise only between two passes.         *)
(***************************************************************************)
EXTENDS DeltaSync

VARIABLE other  \* the other tab's cursor: Unread, NoCursor or a seq

(* Where its pass begins: in its memory, or at the shared mark.            *)
OtherStart ==
    IF other # Unread THEN other
    ELSE IF mark.who = who /\ mark.fresh THEN mark.cursor ELSE NoCursor

(* This tab waits for its next poll and owes no page: the last one it read *)
(* was not full and its cursor is saved, or it starts over anyway.         *)
AtRest ==
    /\ phase = "idle" /\ ~more /\ cursor \in {NoCursor, next}
    /\ loader = "none" /\ opener # "reload"

(* Mutant: the mark moves on, the saved lists wait for a later save.       *)
OtherCatchesUpUnsaved(c) ==
    /\ ~CursorExpired(c)
    /\ other' = MaxSeq
    /\ mark' = [who |-> who, cursor |-> MaxSeq, fresh |-> mark.who = who /\ mark.fresh]
    /\ UNCHANGED saved

(* The rows it has not seen, merged into the shared lists, then their seq. *)
OtherCatchesUp(c) ==
    LET page == Attached({s \in kept : s > c}, Readable[who]) IN
    /\ ~CursorExpired(c)
    /\ saved' = [i \in Items |-> IF i \in DOMAIN page THEN page[i] ELSE saved[i]]
    /\ other' = MaxSeq
    /\ mark' = [who |-> who, cursor |-> MaxSeq, fresh |-> mark.who = who /\ mark.fresh]

OtherFullCopy(c) ==
    /\ c = NoCursor \/ CursorExpired(c)
    /\ saved' = [i \in Items |-> IF i \in Readable[who] THEN table[i] ELSE saved[i]]
    /\ other' = MaxSeq
    /\ mark' = [who |-> who, cursor |-> MaxSeq, fresh |-> TRUE]

OtherPass ==
    /\ AtRest \/ "tabs" \in Gaps
    /\ \/ OtherStart # NoCursor /\ OtherCatchesUp(OtherStart)
       \/ OtherFullCopy(OtherStart)
    /\ UNCHANGED <<server, tab, pass, load, env>>

(* It is closed, or reloaded.                                              *)
OtherRestarts ==
    /\ other # Unread
    /\ other' = Unread
    /\ UNCHANGED vars

TabsInit == Init /\ other = Unread

(* A page put into the shared lists whose cursor is never saved, as this    *)
(* tab is closed or the device has no room: it may have put older rows than *)
(* the other tab's under that tab's mark ("replay").                       *)
Interrupted ==
    \/ phase = "applied" /\ (restarts' # restarts \/ faults' # faults)
    \/ phase = "answer" /\ phase' = "idle" /\ saved' # saved

TabsNext ==
    \/ Next /\ UNCHANGED other /\ (Interrupted => "replay" \in Gaps)
    \/ OtherPass
    \/ OtherRestarts

TabsSpec == TabsInit /\ [][TabsNext]_<<vars, other>>

(* This tab goes on polling; nothing is assumed of the other one.          *)
TabsFairSpec == TabsSpec /\ Fairness

-----------------------------------------------------------------------------
(* A mark that a start-up would use is never ahead of the saved lists,     *)
(* whichever tab wrote which, except between a page being applied and its  *)
(* cursor being saved: there a tombstone this tab replays may hide a row   *)
(* that the other tab has already brought back (useEntityData.ts           *)
(* applyChanges, deltaSyncClient.ts savedCursor).                          *)
MarkNeverAheadAtRest == phase # "applied" /\ mark.fresh => MarkNeverAhead
=============================================================================
