-------------------------- MODULE OptimisticEdits --------------------------
(***************************************************************************)
(* The tab of DeltaSync.tla with its own edits (hooks/useHandlers.ts): a   *)
(* change shows at once, on screen and in the saved copy, and is sent in   *)
(* the background; when the server refuses it or cannot be reached, what   *)
(* was there before is put back. Billing documents wait for the answer and *)
(* show that instead.                                                      *)
(*                                                                         *)
(* Gaps adds the interleavings of an edit and the sync that the handlers   *)
(* do not exclude: "savedBefore", "undoFails", "closed"; and, where the    *)
(* code puts a row whatever the list holds by now, that it does: "undo",   *)
(* "lateAnswer".                                                           *)
(***************************************************************************)
EXTENDS DeltaSync

CONSTANTS
    Artworks,  \* items whose undo is taken from the screen, not the saved copy
    Answered,  \* items whose server answer is shown (contacts, invoices)
    MaxEdits   \* bound: edits the person makes

ASSUME EditsAssumption ==
    /\ Invoices \subseteq Answered /\ Answered \subseteq Items
    /\ Artworks \subseteq Items
    /\ MaxEdits \in Nat

VARIABLES
    stage,   \* of the edit of each item: none, sent, landed (committed), refused
    change,  \* what the edit does: a put or a delete
    before,  \* what an undo puts back
    landed,  \* the seq its commit was given
    edits

edit == <<stage, change, before, landed, edits>>

(* What a list holds where this tab's own edit shows. *)
Edited  == -4
Dropped == -5
Mine(i) == IF change[i] = "put" THEN Edited ELSE Dropped

EditsInit ==
    /\ Init
    /\ stage = [i \in Items |-> "none"]
    /\ change = [i \in Items |-> "put"]
    /\ before = Blank /\ landed = Blank
    /\ edits = 0

-----------------------------------------------------------------------------
(* listStore.put and drop: the screen and the saved copy, together.        *)
PutInLists(i, v) ==
    /\ screen' = [screen EXCEPT ![i] = v]
    /\ saved' = [saved EXCEPT ![i] = v]
    /\ UNCHANGED <<server, mark, who, cursor, intact, shown, pass, load>>

Untouched == UNCHANGED <<server, device, tab, pass, load>>

(* What an edit remembers for its undo: an artwork as the screen has it,   *)
(* every other item as saved on the device (listStore.find). A billing     *)
(* document has no undo; what it showed is kept to tell a newer row by.    *)
AsItWas(i) == IF i \in Artworks \cup Invoices THEN screen[i] ELSE saved[i]

(* handleUpdate..., handleDelete...: remember, show, send. Where the device *)
(* cannot store it, nothing is shown or sent. The model edits an item again *)
(* only when its last edit is over; and one of which the device has another *)
(* version than the screen, or none, only with "savedBefore".              *)
Edit(i, op) ==
    /\ edits < MaxEdits /\ edits' = edits + 1
    /\ stage[i] = "none" /\ screen[i] \in Nat
    /\ stage' = [stage EXCEPT ![i] = "sent"]
    /\ change' = [change EXCEPT ![i] = op]
    /\ AsItWas(i) = screen[i] \/ "savedBefore" \in Gaps
    /\ before' = [before EXCEPT ![i] = AsItWas(i)]
    /\ IF i \in Invoices THEN Untouched
       ELSE PutInLists(i, IF op = "put" THEN Edited ELSE Dropped)
    /\ UNCHANGED <<landed, env>>

(* The server takes it: the row and its change_log entry, in one batch.    *)
(* Where it answers with the row, it refuses to update one that is gone.   *)
Land(i) ==
    /\ stage[i] = "sent"
    /\ \/ change[i] = "put" /\ table[i] # Absent /\ Put(i)
       \/ change[i] = "put" /\ i \notin Answered /\ PutMissing(i)
       \/ change[i] = "delete" /\ Delete(i)
    /\ stage' = [stage EXCEPT ![i] = "landed"]
    /\ landed' = [landed EXCEPT ![i] = table'[i]]
    /\ UNCHANGED <<change, before, edits, device, tab, pass, load, env>>

(* It refuses, or is never reached; or its answer is lost.                 *)
Refuse(i) ==
    /\ stage[i] \in {"sent", "landed"}
    /\ stage' = [stage EXCEPT ![i] = "refused"]
    /\ UNCHANGED <<change, before, landed, edits, vars>>

(* The sync has applied another row of it since.                           *)
Overtaken(i) == screen[i] \notin {Mine(i), before[i], landed[i]}

(* The edit, where it still shows, is now the server's row; an update that  *)
(* found no row shows until the sync brings its tombstone.                 *)
Accept(i) ==
    LET row == IF change[i] = "put" /\ landed[i] = Absent THEN Edited ELSE landed[i] IN
    /\ screen' = [screen EXCEPT ![i] = IF @ = Mine(i) THEN row ELSE @]
    /\ saved' = [saved EXCEPT ![i] = IF @ = Mine(i) THEN row ELSE @]
    /\ UNCHANGED <<server, mark, who, cursor, intact, shown, pass, load>>

(* The answer. Where it is shown, it is put whatever the list holds by now *)
(* ("lateAnswer": also over a newer row the sync has applied meanwhile).   *)
Confirm(i) ==
    /\ stage[i] = "landed"
    /\ stage' = [stage EXCEPT ![i] = "none"]
    /\ IF i \in Answered /\ ("lateAnswer" \in Gaps \/ ~Overtaken(i))
       THEN PutInLists(i, landed[i])
       ELSE Accept(i)
    /\ UNCHANGED <<change, before, landed, edits, env>>

(* Mutant: a refused edit leaves the screen but not the saved copy.        *)
UndoOnScreen(i) ==
    /\ stage[i] = "refused"
    /\ stage' = [stage EXCEPT ![i] = "none"]
    /\ screen' = [screen EXCEPT ![i] = IF @ = Mine(i) THEN before[i] ELSE @]
    /\ UNCHANGED <<change, before, landed, edits, env, server, device, who, cursor, intact, shown, pass, load>>

(* sendInBackground's undo puts back what was remembered, if anything was, *)
(* whatever the list holds by now ("undo": also over a newer row). Where   *)
(* the device cannot store it, the screen is not set either ("undoFails"). *)
(* An invoice has nothing to undo.                                         *)
Undo(i) ==
    /\ stage[i] = "refused"
    /\ stage' = [stage EXCEPT ![i] = "none"]
    /\ IF /\ i \notin Invoices /\ before[i] # Absent
          /\ (screen[i] \in {Mine(i), before[i]} \/ "undo" \in Gaps)
       THEN \/ PutInLists(i, before[i]) /\ UNCHANGED faults
            \/ "undoFails" \in Gaps /\ Untouched /\ Fault
       ELSE Untouched /\ UNCHANGED faults
    /\ UNCHANGED <<change, before, landed, edits, restarts>>

(* Closing or reloading the page ends what it was waiting for; the saved   *)
(* copy stays as the edit left it ("closed").                              *)
Close ==
    /\ Restart
    /\ \A i \in Items : stage[i] # "none" => "closed" \in Gaps
    /\ stage' = [i \in Items |-> "none"]
    /\ UNCHANGED <<change, before, landed, edits>>

EditsNext ==
    \/ (ServerNext \/ EngineNext \/ FetchFails \/ MarkAges) /\ UNCHANGED edit
    \/ Close
    \/ \E i \in Items :
         \/ \E op \in Ops : Edit(i, op)
         \/ Land(i) \/ Refuse(i) \/ Confirm(i) \/ Undo(i)

EditsSpec == EditsInit /\ [][EditsNext]_<<vars, edit>>

-----------------------------------------------------------------------------
(* A list that has got to c holds what the server has, in every row whose  *)
(* edit is over and that nobody has changed since.                         *)
Settles(list, w, c) ==
    \A i \in Readable[w] : stage[i] = "none" /\ Settled(log, i, c) => list[i] = table[i]

(* Once an edit is over, accepted or not, the screen shows the item as the *)
(* server has it, as far as the sync has got, and so does the saved copy,  *)
(* as far as its mark: no refused edit stays, and no undo and no late      *)
(* answer hides a newer row that the sync has applied and will not apply   *)
(* again (useHandlers.ts sendInBackground, keepInvoice).                   *)
EditsSettle ==
    /\ cursor >= 0 => Settles(screen, who, cursor)
    /\ mark.who \in Identities => Settles(saved, mark.who, mark.cursor)
=============================================================================
