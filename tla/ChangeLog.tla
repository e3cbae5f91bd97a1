------------------------------ MODULE ChangeLog ------------------------------
(***************************************************************************)
(* The server's half of delta sync (frontend/deltaSync.ts): the business   *)
(* tables, the change_log written in the same D1 batch as every mutation,  *)
(* its retention, and what GET /api/sync reads.                            *)
(*                                                                         *)
(* A row's content is abstracted to the sequence number of the change that *)
(* wrote it: 0 for a row older than the log, Absent for no row.            *)
(***************************************************************************)
EXTENDS Integers, Sequences, FiniteSets, FiniteSetsExt

CONSTANTS
    Items,       \* rows of the synchronized tables
    MaxChanges,  \* bound: mutations the model makes
    PageSize,    \* rows of one /api/sync page (the LIMIT)
    Gaps         \* interleavings the code leaves open that a run includes

ASSUME ChangeLogAssumption ==
    /\ MaxChanges \in Nat
    /\ PageSize \in Nat \ {0}

VARIABLES
    table,  \* the version each row has, or Absent
    log,    \* every change ever logged, in commit order: its index is its seq
    kept    \* the seqs retention has not deleted yet

server == <<table, log, kept>>

Absent == -1
Versions == Nat \cup {Absent}
Ops == {"put", "delete"}
Seqs == 1 .. Len(log)

ServerTypeOK ==
    /\ table \in [Items -> Versions]
    /\ log \in Seq([item : Items, op : Ops, at : Int])
    /\ kept \subseteq Seqs

ServerInit ==
    /\ table \in [Items -> {0, Absent}]
    /\ log = <<>>
    /\ kept = {}

-----------------------------------------------------------------------------
(* changeLogStmt stamps changed_at with Date.now() while the batch is      *)
(* prepared; seq is given at commit. Two writers can commit in the other   *)
(* order than they took their stamps ("stamp").                            *)
Stamps(seq) == IF "stamp" \in Gaps THEN {seq - 2, seq} ELSE {seq}

(* One D1 batch: the business write and its change_log row.                *)
Commit(i, op, version) ==
    /\ Len(log) < MaxChanges
    /\ table' = [table EXCEPT ![i] = version]
    /\ \E at \in Stamps(Len(log) + 1) :
         log' = Append(log, [item |-> i, op |-> op, at |-> at])
    /\ kept' = kept \cup {Len(log) + 1}

(* A create, an update or a restore from the deleted items.                *)
Put(i) == Commit(i, "put", Len(log) + 1)

(* An update of a row that is gone by now: no row, but logged all the same. *)
PutMissing(i) ==
    /\ table[i] = Absent
    /\ Commit(i, "put", Absent)

(* A delete asks nothing of the row, so that one deleted twice is logged    *)
(* twice.                                                                  *)
Delete(i) == Commit(i, "delete", Absent)

(* Mutant: retention by age alone, the newest row included.                *)
PruneByAge(cutoff) ==
    /\ kept' = {s \in kept : log[s].at >= cutoff}
    /\ kept' # kept
    /\ UNCHANGED <<table, log>>

(* pruneChangeLog: rows older than the cutoff, never the newest.           *)
Prune(cutoff) ==
    /\ kept' = {s \in kept : log[s].at >= cutoff \/ s = Max(kept)}
    /\ kept' # kept
    /\ UNCHANGED <<table, log>>

-----------------------------------------------------------------------------
(* What GET /api/sync reads. Each read is a D1 query of its own.           *)

MaxSeq == IF kept = {} THEN 0 ELSE Max(kept)

(* Mutant: a hole of one row between the cursor and the log is let pass.   *)
CursorExpiredLate(c) ==
    IF kept = {} THEN c > 0
    ELSE \/ \A s \in kept : s < c
         \/ \A s \in kept : c + 2 < s

(* The cursor is ahead of the log, or rows it still needs were pruned.     *)
CursorExpired(c) ==
    IF kept = {} THEN c > 0
    ELSE \/ \A s \in kept : s < c
         \/ \A s \in kept : c + 1 < s

(* Mutant: the query takes the cursor for the first row it has not seen.   *)
PageRowsAfterNext(c) ==
    {s \in kept : s > c + 1 /\ Cardinality({r \in kept : c < r /\ r <= s}) <= PageSize}

(* SELECT ... WHERE seq > c ORDER BY seq LIMIT PageSize.                   *)
PageRows(c) ==
    {s \in kept : s > c /\ Cardinality({r \in kept : c < r /\ r <= s}) <= PageSize}

(* Of a set of rows, the last.                                             *)
IsLast(s, rows) == s \in rows /\ \A r \in rows : r <= s

About(rows, i) == {s \in rows : log[s].item = i}

(* The items a page tells a caller about: rows it may not read are dropped. *)
Touched(rows, readable) == {log[s].item : s \in rows} \cap readable

(* attachRecords, and what mergeChanges then makes of the page: the last   *)
(* row about an item decides. A put carries the row as it is now, and      *)
(* becomes a tombstone when the row is gone.                               *)
Attached(rows, readable) ==
    [i \in Touched(rows, readable) |->
        IF \E s \in rows : IsLast(s, About(rows, i)) /\ log[s].op = "delete"
        THEN Absent ELSE table[i]]

-----------------------------------------------------------------------------
(* Every change that log l has of the item is at or before c.              *)
Settled(l, i, c) == \A s \in 1 .. Len(l) : l[s].item = i => s <= c

(* A copy brought up to c shows a settled item as the server has it.       *)
Covers(copy, c, readable) == \A i \in readable : Settled(log, i, c) => copy[i] = table[i]
=============================================================================
