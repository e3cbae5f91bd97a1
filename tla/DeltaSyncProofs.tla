--------------------------- MODULE DeltaSyncProofs ---------------------------
(***************************************************************************)
(* Proofs about DeltaSync, for any items, identities, changes, faults and  *)
(* restarts: the types of its variables, the server's log and the age of a *)
(* saved copy, whatever the gaps; and that without the named gaps no       *)
(* committed change is ever skipped, on the screen or in the saved copy.   *)
(***************************************************************************)
EXTENDS DeltaSync, FiniteSetTheorems, TLAPS

-----------------------------------------------------------------------------
(* The log: its newest row is kept, so the boundary is its length.         *)

LogTypeInv == ServerTypeOK /\ NewestRowKept

LEMMA Boundaries == ASSUME LogTypeInv PROVE MaxSeq = Len(log)
  <1>1. CASE kept = {}
    <2>1. log = <<>>
      BY <1>1 DEF LogTypeInv, NewestRowKept
    <2>. QED  BY <1>1, <2>1 DEF MaxSeq
  <1>2. CASE kept # {}
    <2>1. Len(log) \in Nat /\ \A s \in kept : s \in Int /\ 1 <= s /\ s <= Len(log)
      BY DEF LogTypeInv, ServerTypeOK, Seqs
    <2>2. log # <<>>
      <3>1. Len(<<>>) = 0
        OBVIOUS
      <3>. QED  BY <1>2, <2>1, <3>1
    <2>3. Len(log) \in kept /\ \A s \in kept : Len(log) >= s
      BY <2>1, <2>2 DEF LogTypeInv, NewestRowKept
    <2>4. Max(kept) \in kept /\ \A s \in kept : Max(kept) >= s
      BY <2>3 DEF Max
    <2>5. Max(kept) = Len(log)
      BY <2>1, <2>3, <2>4
    <2>. QED  BY <1>2, <2>5 DEF MaxSeq
  <1>. QED  BY <1>1, <1>2

LEMMA SameServer == ASSUME LogTypeInv, UNCHANGED server PROVE LogTypeInv'
  BY DEF LogTypeInv, ServerTypeOK, NewestRowKept, server, Seqs

LEMMA CommitLog ==
  ASSUME LogTypeInv, NEW i \in Items, NEW op \in Ops, NEW version \in Versions,
         Commit(i, op, version)
  PROVE  /\ LogTypeInv'
         /\ Len(log') = Len(log) + 1
         /\ \A s \in Seqs : log'[s] = log[s]
         /\ log'[Len(log) + 1].item = i /\ log'[Len(log) + 1].op = op
  <1>1. PICK at \in Int : log' = Append(log, [item |-> i, op |-> op, at |-> at])
    BY DEF Commit, Stamps, LogTypeInv, ServerTypeOK
  <1>2. log \in Seq([item : Items, op : Ops, at : Int])
    BY DEF LogTypeInv, ServerTypeOK
  <1>3. /\ log' \in Seq([item : Items, op : Ops, at : Int])
        /\ Len(log') = Len(log) + 1
        /\ log'[Len(log) + 1] = [item |-> i, op |-> op, at |-> at]
        /\ \A s \in Seqs : log'[s] = log[s]
    BY <1>1, <1>2 DEF Seqs
  <1>4. table' \in [Items -> Versions]
    BY DEF Commit, LogTypeInv, ServerTypeOK
  <1>5. kept' \subseteq 1 .. Len(log') /\ Len(log') \in kept'
    <2>1. kept' = kept \cup {Len(log) + 1}
      BY DEF Commit
    <2>2. Len(log) \in Nat /\ \A s \in kept : s \in Int /\ 1 <= s /\ s <= Len(log)
      BY <1>2 DEF LogTypeInv, ServerTypeOK, Seqs
    <2>3. Len(log) + 1 \in 1 .. Len(log') /\ \A s \in kept : s \in 1 .. Len(log')
      BY <1>3, <2>2
    <2>. QED  BY <1>3, <2>1, <2>3
  <1>. QED  BY <1>3, <1>4, <1>5 DEF LogTypeInv, ServerTypeOK, NewestRowKept, Seqs

LEMMA WriteLog ==
  ASSUME LogTypeInv, NEW i \in Items, Write(i)
  PROVE  \E op \in Ops, version \in Versions :
            Commit(i, op, version) /\ (op = "delete" => version = Absent)
  <1>1. Len(log) + 1 \in Versions /\ Absent \in Versions
    BY DEF LogTypeInv, ServerTypeOK, Versions
  <1>. QED  BY <1>1 DEF Write, Put, PutMissing, Delete, Ops

LEMMA PruneKeepsLog ==
  ASSUME LogTypeInv, NEW cutoff, PruneLog(cutoff)
  PROVE  LogTypeInv' /\ log' = log /\ table' = table /\ kept' \subseteq kept
  <1>1. log' = log /\ table' = table /\ kept' \subseteq kept
    BY DEF PruneLog, Prune
  <1>2. ASSUME log # <<>> PROVE Len(log) \in kept'
    <2>1. Len(log) \in kept
      BY <1>2 DEF LogTypeInv, NewestRowKept
    <2>2. Max(kept) = Len(log)
      BY <2>1, Boundaries DEF MaxSeq
    <2>. QED  BY <2>1, <2>2 DEF PruneLog, Prune
  <1>. QED  BY <1>1, <1>2 DEF LogTypeInv, ServerTypeOK, NewestRowKept, Seqs

LEMMA ServerSteps == LogTypeInv /\ [Next]_vars => LogTypeInv'
  <1>. SUFFICES ASSUME LogTypeInv, [Next]_vars PROVE LogTypeInv'
    OBVIOUS
  <1>1. ASSUME NEW i \in Items, Write(i) PROVE LogTypeInv'
    BY <1>1, WriteLog, CommitLog
  <1>2. ASSUME NEW cutoff \in 1 .. MaxChanges, PruneLog(cutoff) PROVE LogTypeInv'
    BY <1>2, PruneKeepsLog
  <1>3. CASE EngineNext
    <2>1. UNCHANGED server
      BY <1>3 DEF EngineNext, Run, Boundary, FullLoad, ReadBounds, ReadPage, ReadRecords,
         Rejected, Apply, SavePage, Reload, LoadDone, LoadFetch, LoadApply, StartLoad
    <2>. QED  BY <2>1, SameServer
  <1>4. CASE Disturbance
    <2>1. UNCHANGED server
      BY <1>4 DEF Disturbance, RunAgain, FetchFails, Restart, RenewUser, MarkAges, LoadFail,
         ChangeAccess, SignInAgain
    <2>. QED  BY <2>1, SameServer
  <1>5. CASE UNCHANGED vars
    BY <1>5, SameServer DEF vars
  <1>. QED  BY <1>1, <1>2, <1>3, <1>4, <1>5 DEF Next, ServerNext

(* The newest row survives every pruning, whatever stamps the rows carry:  *)
(* the boundary of a full copy never drops back (pruneChangeLog).          *)
THEOREM NewestKept == Spec => []NewestRowKept
  <1>1. Init => LogTypeInv
    BY DEF Init, ServerInit, LogTypeInv, ServerTypeOK, NewestRowKept, Seqs, Versions, Absent
  <1>2. LogTypeInv => NewestRowKept
    BY DEF LogTypeInv
  <1>. QED  BY <1>1, <1>2, ServerSteps, PTL DEF Spec

-----------------------------------------------------------------------------
(* Every step keeps the variables in their types.                          *)

LEMMA SamePass == ASSUME PassTypeOK, UNCHANGED pass PROVE PassTypeOK'
  BY DEF PassTypeOK, pass
LEMMA SameLoad == ASSUME LoadTypeOK, UNCHANGED load PROVE LoadTypeOK'
  BY DEF LoadTypeOK, load
LEMMA SameEnv == ASSUME EnvTypeOK, UNCHANGED env PROVE EnvTypeOK'
  BY DEF EnvTypeOK, env

LEMMA ThrowsType == ASSUME PassTypeOK, Throws
  PROVE /\ phase' \in Phases /\ again' \in BOOLEAN
        /\ opener' \in {"opening", "reload", "leftover", "settled"}
  BY DEF PassTypeOK, Throws, Phases

LEMMA SyncedType == ASSUME PassTypeOK, Synced
  PROVE /\ phase' \in Phases /\ again' \in BOOLEAN /\ resynced' \in BOOLEAN /\ pages' \in Nat
        /\ opener' \in {"opening", "reload", "leftover", "settled"}
  BY DEF PassTypeOK, Synced, Phases

LEMMA NextPageType == ASSUME PassTypeOK, NextPage
  PROVE /\ phase' \in Phases /\ again' \in BOOLEAN /\ resynced' \in BOOLEAN /\ pages' \in Nat
        /\ opener' \in {"opening", "reload", "leftover", "settled"}
  BY SyncedType DEF PassTypeOK, NextPage, Phases

LEMMA FaultType == ASSUME EnvTypeOK, Fault PROVE faults' \in 0 .. MaxFaults
  BY DeltaSyncAssumption DEF EnvTypeOK, Fault

(* The types of everything but the lists themselves, and of the lists.     *)
ControlTypeOK ==
    /\ ServerTypeOK
    /\ mark \in [who : Identities \cup {"nobody"}, cursor : Nat \cup {NoCursor}, fresh : BOOLEAN]
    /\ who \in Identities
    /\ cursor \in Nat \cup {NoCursor, Unread}
    /\ intact \in BOOLEAN
    /\ PassTypeOK /\ LoadTypeOK /\ EnvTypeOK

ListsTypeOK ==
    /\ saved \in [Items -> Versions]
    /\ screen \in [Items -> Versions]
    /\ shown \in [Items -> Versions \cup {Forgotten}]

LEMMA Types == TypeOK <=> ControlTypeOK /\ ListsTypeOK
  BY DEF TypeOK, DeviceTypeOK, TabTypeOK, ControlTypeOK, ListsTypeOK

LEMMA SaveCursorType ==
  ASSUME ControlTypeOK, NEW whole \in BOOLEAN, SaveCursor(next, whole)
  PROVE  /\ mark' \in [who : Identities \cup {"nobody"}, cursor : Nat \cup {NoCursor}, fresh : BOOLEAN]
         /\ cursor' \in Nat
         /\ faults' \in 0 .. MaxFaults
  <1>. USE DEF ControlTypeOK
  <1>1. cursor' = next /\ next \in Nat
    BY DEF SaveCursor, PassTypeOK
  <1>2. CASE mark' = NoMark /\ UNCHANGED faults
    BY <1>1, <1>2 DEF NoMark, EnvTypeOK
  <1>3. CASE UNCHANGED mark /\ Fault
    BY <1>1, <1>3, FaultType
  <1>4. ASSUME mark' = [who |-> who, cursor |-> next,
                        fresh |-> whole \/ (mark.who = who /\ mark.fresh)], UNCHANGED faults
        PROVE  /\ mark' \in [who : Identities \cup {"nobody"}, cursor : Nat \cup {NoCursor}, fresh : BOOLEAN]
               /\ faults' \in 0 .. MaxFaults
    <2>1. (whole \/ (mark.who = who /\ mark.fresh)) \in BOOLEAN
      OBVIOUS
    <2>. QED  BY <1>1, <1>4, <2>1 DEF EnvTypeOK
  <1>. QED  BY <1>1, <1>2, <1>3, <1>4 DEF SaveCursor

LEMMA ShowType ==
  ASSUME ListsTypeOK, NEW i \in Items, NEW v \in Versions, Show(i, v)
  PROVE  screen' \in [Items -> Versions] /\ shown' \in [Items -> Versions \cup {Forgotten}]
  <1>1. Remembered(v) \in Versions \cup {Forgotten}
    BY DEF Remembered
  <1>. QED  BY <1>1 DEF Show, ListsTypeOK

LEMMA StartLoadLists ==
  ASSUME ListsTypeOK, NEW by, StartLoad(by)
  PROVE  ListsTypeOK'
  <1>1. screen' \in [Items -> Versions]
    BY DEF StartLoad, ListsTypeOK, Versions
  <1>2. shown' \in [Items -> Versions \cup {Forgotten}]
    BY DEF StartLoad, Remembered, ListsTypeOK, Versions
  <1>. QED  BY <1>1, <1>2 DEF StartLoad, ListsTypeOK, device

LEMMA StartLoadType ==
  ASSUME ControlTypeOK, NEW by \in {"pass", "fallback"}, StartLoad(by)
  PROVE  LoadTypeOK'
  <1>1. Readable[who] \subseteq Items
    BY DeltaSyncAssumption DEF ControlTypeOK
  <1>. QED  BY <1>1 DEF StartLoad, LoadTypeOK, Blank, Versions

(* While the server is being asked, and until its page is saved, the engine *)
(* has a position.                                                         *)
Positions == {"ask", "rejected", "page", "attach", "answer", "applied"}
Positioned == phase \in Positions => cursor \in Nat

LEMMA NextPositioned == ASSUME ControlTypeOK, Positioned, [Next]_vars PROVE Positioned'
  <1>. USE DEF Positioned, Positions
  <1>1. ASSUME UNCHANGED <<phase, cursor>> PROVE Positioned'
    BY <1>1
  <1>2. ASSUME phase' \notin Positions PROVE Positioned'
    BY <1>2
  <1>3. CASE Run
    BY <1>3 DEF Run, StartCursor, ControlTypeOK, NoCursor, Unread
  <1>4. CASE LoadDone
    <2>1. next \in Nat
      BY DEF ControlTypeOK, PassTypeOK
    <2>. QED  BY <1>2, <1>4, <2>1 DEF LoadDone, Throws, SaveCursor
  <1>5. CASE SavePage
    <2>1. next \in Nat
      BY DEF ControlTypeOK, PassTypeOK
    <2>. QED  BY <1>5, <2>1 DEF SavePage, SaveCursor
  <1>6. CASE EngineNext /\ ~Run /\ ~LoadDone /\ ~SavePage
    BY <1>6, <1>1, <1>2 DEF EngineNext, Boundary, FullLoad, ReadBounds, ReadPage, ReadRecords,
       Rejected, Apply, Reload, LoadFetch, LoadApply, StartLoad, Throws, tab, pass
  <1>7. CASE Disturbance
    BY <1>7, <1>1, <1>2 DEF Disturbance, RunAgain, FetchFails, Restart, RenewUser, MarkAges,
       LoadFail, ChangeAccess, SignInAgain, NoPass, Throws, tab, pass
  <1>8. CASE ServerNext \/ UNCHANGED vars
    BY <1>8, <1>1 DEF ServerNext, Write, PruneLog, vars, tab, pass
  <1>. QED  BY <1>3, <1>4, <1>5, <1>6, <1>7, <1>8 DEF Next

LEMMA ControlStep ==
  ASSUME ControlTypeOK, NewestRowKept, Positioned, [Next]_vars
  PROVE  ControlTypeOK'
  <1>. DEFINE MarkType == [who : Identities \cup {"nobody"}, cursor : Nat \cup {NoCursor}, fresh : BOOLEAN]
              ClientOK == /\ mark \in MarkType /\ who \in Identities
                          /\ cursor \in Nat \cup {NoCursor, Unread} /\ intact \in BOOLEAN
                          /\ PassTypeOK /\ LoadTypeOK /\ EnvTypeOK
  <1>. SUFFICES ClientOK'
    BY ServerSteps DEF ControlTypeOK, LogTypeInv
  <1>. USE DeltaSyncAssumption, SamePass, SameLoad, SameEnv DEF ControlTypeOK
  <1>1. ASSUME UNCHANGED <<mark, who, cursor, intact, pass, load, env>> PROVE ClientOK'
    BY <1>1
  <1>2. CASE Run
    BY <1>2 DEF Run, StartCursor, PassTypeOK, Phases, NoCursor, Unread, device
  <1>3. CASE RunAgain
    BY <1>3 DEF RunAgain, PassTypeOK, device, tab
  <1>4. CASE Boundary
    <2>1. MaxSeq \in Nat
      BY Boundaries DEF LogTypeInv, ServerTypeOK
    <2>. QED  BY <1>4, <2>1 DEF Boundary, PassTypeOK, Phases, device
  <1>5. CASE FullLoad
    <2>1. LoadTypeOK'
      BY <1>5, StartLoadType DEF FullLoad
    <2>. QED  BY <1>5, <2>1 DEF FullLoad, StartLoad, PassTypeOK, Phases, device
  <1>6. CASE Reload
    <2>1. CASE loader = "none"
      <3>1. LoadTypeOK'
        BY <1>6, <2>1, StartLoadType DEF Reload
      <3>. QED  BY <1>6, <2>1, <3>1 DEF Reload, StartLoad, PassTypeOK, device
    <2>2. CASE loader # "none"
      BY <1>6, <2>2 DEF Reload, PassTypeOK, device, tab
    <2>. QED  BY <2>1, <2>2
  <1>7. ASSUME NEW i \in Items, LoadFetch(i) PROVE ClientOK'
    BY <1>7 DEF LoadFetch, ServerTypeOK, LoadTypeOK, device, tab
  <1>8. ASSUME NEW i \in Items, LoadApply(i) PROVE ClientOK'
    <2>1. LoadTypeOK'
      BY <1>8 DEF LoadApply, LoadTypeOK, Versions
    <2>2. intact' \in BOOLEAN
      <3>1. CASE orphan
        BY <1>8, <3>1 DEF LoadApply
      <3>2. CASE ~orphan
        BY <1>8, <3>2 DEF LoadApply
      <3>. QED  BY <3>1, <3>2
    <2>3. EnvTypeOK'
      BY <1>8, FaultType DEF LoadApply, EnvTypeOK
    <2>. QED  BY <1>8, <2>1, <2>2, <2>3 DEF LoadApply
  <1>9. ASSUME NEW i \in Items, LoadFail(i) PROVE ClientOK'
    <2>1. failed' \in BOOLEAN
      BY <1>9 DEF LoadFail, LoadTypeOK
    <2>2. LoadTypeOK'
      BY <1>9, <2>1 DEF LoadFail, LoadTypeOK, Versions
    <2>3. EnvTypeOK'
      BY <1>9, FaultType DEF LoadFail, EnvTypeOK
    <2>. QED  BY <1>9, <2>2, <2>3 DEF LoadFail, device
  <1>10. CASE LoadDone
    <2>1. LoadTypeOK'
      BY <1>10 DEF LoadDone, LoadTypeOK
    <2>2. CASE Throws /\ UNCHANGED <<mark, cursor, resynced, pages, faults>>
      BY <1>10, <2>1, <2>2, ThrowsType DEF LoadDone, PassTypeOK, EnvTypeOK
    <2>3. CASE SaveCursor(next, TRUE)
               /\ IF resynced THEN NextPage
                  ELSE phase' = "ask" /\ UNCHANGED <<resynced, pages, again, opener>>
      <3>1. mark' \in MarkType /\ cursor' \in Nat /\ faults' \in 0 .. MaxFaults
        BY <2>3, SaveCursorType
      <3>2. PassTypeOK'
        BY <1>10, <2>3, NextPageType DEF LoadDone, PassTypeOK, Phases
      <3>. QED  BY <1>10, <2>1, <3>1, <3>2 DEF LoadDone, EnvTypeOK
    <2>4. CASE UNCHANGED <<mark, cursor, phase, resynced, pages, again, opener, faults>>
      BY <1>10, <2>1, <2>4 DEF LoadDone, PassTypeOK, EnvTypeOK
    <2>. QED  BY <1>10, <2>2, <2>3, <2>4 DEF LoadDone
  <1>11. CASE ReadBounds
    BY <1>11 DEF ReadBounds, PassTypeOK, Phases, device, tab
  <1>12. CASE ReadPage
    <2>1. \A s \in kept : s \in Nat
      BY DEF ServerTypeOK, Seqs
    <2>2. rows' \subseteq Nat
      BY <1>12, <2>1 DEF ReadPage, PageRows
    <2>. QED  BY <1>12, <2>2 DEF ReadPage, PassTypeOK, Phases, device, tab
  <1>13. CASE ReadRecords
    <2>1. next' \in Nat
      <3>1. CASE rows = {}
        BY <1>13, <3>1 DEF ReadRecords, Positioned, Positions
      <3>2. CASE rows # {}
        BY <1>13, <3>2 DEF ReadRecords, IsLast, PassTypeOK
      <3>. QED  BY <3>1, <3>2
    <2>2. DOMAIN answer' \subseteq Items /\ \A i \in DOMAIN answer' : answer'[i] \in Versions
      BY <1>13 DEF ReadRecords, Attached, Touched, ServerTypeOK, Versions
    <2>. QED  BY <1>13, <2>1, <2>2 DEF ReadRecords, PassTypeOK, Phases, device, tab
  <1>14. CASE Rejected
    <2>1. PassTypeOK'
      BY <1>14, ThrowsType DEF Rejected, PassTypeOK, Phases
    <2>2. mark' \in MarkType
      BY <1>14 DEF Rejected, NoMark
    <2>. QED  BY <1>14, <2>1, <2>2 DEF Rejected
  <1>15. CASE Apply
    <2>1. PICK stored \in SUBSET DOMAIN answer :
            LET lost == DOMAIN answer \ stored IN
            /\ intact' = (intact /\ lost \subseteq Invoices)
            /\ IF lost = {} THEN UNCHANGED faults ELSE Fault
            /\ IF lost \cap Invoices = {} THEN phase' = "applied" /\ UNCHANGED <<again, opener>>
               ELSE Throws
      BY <1>15 DEF Apply
    <2>2. intact' \in BOOLEAN
      BY <2>1
    <2>3. faults' \in 0 .. MaxFaults
      BY <2>1, FaultType DEF EnvTypeOK
    <2>4. PassTypeOK'
      BY <1>15, <2>1, ThrowsType DEF Apply, PassTypeOK, Phases, NoAnswer
    <2>. QED  BY <1>15, <2>2, <2>3, <2>4 DEF Apply, EnvTypeOK
  <1>16. CASE SavePage
    <2>1. mark' \in MarkType /\ cursor' \in Nat /\ faults' \in 0 .. MaxFaults
      BY <1>16, SaveCursorType DEF SavePage
    <2>2. PassTypeOK'
      BY <1>16, NextPageType, SyncedType DEF SavePage, PassTypeOK
    <2>. QED  BY <1>16, <2>1, <2>2 DEF SavePage, EnvTypeOK
  <1>17. CASE FetchFails
    <2>1. PassTypeOK'
      BY <1>17, ThrowsType DEF FetchFails, PassTypeOK, NoAnswer
    <2>. QED  BY <1>17, <2>1, FaultType DEF FetchFails, EnvTypeOK, device, tab
  <1>18. ASSUME NoPass, opener' \in {"opening", "reload", "leftover", "settled"},
                UNCHANGED <<next, more, resynced, pages>>
         PROVE  PassTypeOK'
    BY <1>18 DEF NoPass, NoAnswer, PassTypeOK, Phases
  <1>19. ASSUME Restarts, UNCHANGED faults PROVE EnvTypeOK'
    BY <1>19 DEF Restarts, EnvTypeOK
  <1>20. CASE Restart
    BY <1>18, <1>19, <1>20 DEF Restart, Blank, LoadTypeOK, Unread, Versions, device
  <1>21. ASSUME NEW w \in Identities, ChangeAccess(w) PROVE ClientOK'
    BY <1>18, <1>19, <1>21 DEF ChangeAccess, LoadTypeOK, Unread, device
  <1>22. ASSUME NEW w \in Identities, SignInAgain(w) PROVE ClientOK'
    <2>1. PassTypeOK'
      BY <1>18, <1>22 DEF SignInAgain, PassTypeOK
    <2>2. mark' \in MarkType
      BY <1>22 DEF SignInAgain, NoMark
    <2>. QED  BY <1>19, <1>22, <2>1, <2>2 DEF SignInAgain, LoadTypeOK, Unread
  <1>23. CASE RenewUser
    BY <1>19, <1>23 DEF RenewUser, LoadTypeOK, device, tab
  <1>24. CASE MarkAges
    BY <1>24 DEF MarkAges, tab
  <1>25. CASE ServerNext \/ UNCHANGED vars
    BY <1>1, <1>25 DEF ServerNext, Write, PruneLog, vars, device, tab
  <1>. QED
    BY <1>2, <1>3, <1>4, <1>5, <1>6, <1>7, <1>8, <1>9, <1>10, <1>11, <1>12, <1>13, <1>14, <1>15,
       <1>16, <1>17, <1>20, <1>21, <1>22, <1>23, <1>24, <1>25
    DEF Next, EngineNext, Disturbance

LEMMA ListsStep ==
  ASSUME ControlTypeOK, ListsTypeOK, [Next]_vars
  PROVE  ListsTypeOK'
  <1>1. ASSUME UNCHANGED <<saved, screen, shown>> PROVE ListsTypeOK'
    BY <1>1 DEF ListsTypeOK
  <1>2. CASE FullLoad
    BY <1>2, StartLoadLists DEF FullLoad
  <1>3. CASE Reload
    BY <1>1, <1>3, StartLoadLists DEF Reload, device, tab
  <1>4. ASSUME NEW i \in Items, LoadApply(i) PROVE ListsTypeOK'
    <2>1. got[i] \in Versions
      BY DEF ControlTypeOK, LoadTypeOK
    <2>2. saved' \in [Items -> Versions]
      BY <1>4, <2>1 DEF LoadApply, ListsTypeOK
    <2>3. screen' \in [Items -> Versions] /\ shown' \in [Items -> Versions \cup {Forgotten}]
      BY <1>4, <2>1, ShowType DEF LoadApply, ListsTypeOK
    <2>. QED  BY <2>2, <2>3 DEF ListsTypeOK
  <1>5. ASSUME NEW i \in Items, LoadFail(i) PROVE ListsTypeOK'
    <2>1. saved[i] \in Versions
      BY DEF ListsTypeOK
    <2>2. screen' \in [Items -> Versions] /\ shown' \in [Items -> Versions \cup {Forgotten}]
      BY <1>5, <2>1, ShowType DEF LoadFail, ListsTypeOK
    <2>. QED  BY <1>5, <2>2 DEF LoadFail, ListsTypeOK, device
  <1>6. CASE Apply
    <2>1. PICK stored \in SUBSET DOMAIN answer :
            saved' = [i \in Items |-> IF i \in stored THEN answer[i] ELSE saved[i]]
      BY <1>6 DEF Apply
    <2>2. saved' \in [Items -> Versions] /\ screen' \in [Items -> Versions]
      BY <1>6, <2>1 DEF Apply, ListsTypeOK, ControlTypeOK, PassTypeOK
    <2>. QED  BY <1>6, <2>2 DEF Apply, ListsTypeOK
  <1>7. CASE Restart
    BY <1>7 DEF Restart, ListsTypeOK, device
  <1>8. ASSUME NEW w \in Identities, SignInAgain(w) PROVE ListsTypeOK'
    BY <1>8 DEF SignInAgain, Blank, ListsTypeOK, Versions
  <1>9. CASE EngineNext /\ ~FullLoad /\ ~Reload /\ ~Apply /\ ~(\E i \in Items : LoadApply(i))
    BY <1>1, <1>9 DEF EngineNext, Run, Boundary, ReadBounds, ReadPage, ReadRecords, Rejected,
       SavePage, LoadDone, LoadFetch, device, tab
  <1>10. CASE RunAgain \/ FetchFails \/ RenewUser \/ MarkAges \/ \E w \in Identities : ChangeAccess(w)
    BY <1>1, <1>10 DEF RunAgain, FetchFails, RenewUser, MarkAges, ChangeAccess, device, tab
  <1>11. CASE ServerNext \/ UNCHANGED vars
    BY <1>1, <1>11 DEF ServerNext, Write, PruneLog, vars, device, tab
  <1>. QED
    BY <1>2, <1>3, <1>4, <1>5, <1>6, <1>7, <1>8, <1>9, <1>10, <1>11 DEF Next, EngineNext, Disturbance

LEMMA InitTypes == Init => TypeOK /\ NewestRowKept /\ Positioned
  <1>. SUFFICES ASSUME Init PROVE TypeOK /\ NewestRowKept /\ Positioned
    OBVIOUS
  <1>. USE DEF Init, Blank, Versions, Absent
  <1>1. ServerTypeOK /\ NewestRowKept
    BY DEF ServerInit, ServerTypeOK, NewestRowKept, Seqs
  <1>2. DeviceTypeOK /\ TabTypeOK /\ LoadTypeOK
    BY DEF DeviceTypeOK, TabTypeOK, LoadTypeOK, NoMark, Unread
  <1>3. EnvTypeOK /\ Positioned
    BY DeltaSyncAssumption DEF EnvTypeOK, Positioned, Positions
  <1>4. DOMAIN answer = {}
    BY DEF NoAnswer
  <1>5. PassTypeOK
    BY <1>4 DEF PassTypeOK, Phases
  <1>. QED  BY <1>1, <1>2, <1>3, <1>5 DEF TypeOK

LEMMA NextTypes ==
  TypeOK /\ NewestRowKept /\ Positioned /\ [Next]_vars => (TypeOK /\ NewestRowKept /\ Positioned)'
  <1>. SUFFICES ASSUME TypeOK, NewestRowKept, Positioned, [Next]_vars
                PROVE  (TypeOK /\ NewestRowKept /\ Positioned)'
    OBVIOUS
  <1>1. ControlTypeOK' /\ ListsTypeOK'
    BY Types, ControlStep, ListsStep
  <1>2. TypeOK'
    BY <1>1 DEF TypeOK, DeviceTypeOK, TabTypeOK, ControlTypeOK, ListsTypeOK
  <1>. QED  BY <1>2, Types, NextPositioned, ServerSteps DEF ControlTypeOK, LogTypeInv

(* Every variable keeps its type, whatever the gaps.                       *)
THEOREM TypeCorrect == Spec => []TypeOK
  BY InitTypes, NextTypes, PTL DEF Spec

-----------------------------------------------------------------------------
LEMMA CopyRenews == ASSUME DeviceTypeOK, [Next]_vars PROVE RenewedByCopy
  <1>. USE DEF RenewedByCopy
  <1>1. ASSUME UNCHANGED mark PROVE RenewedByCopy
    BY <1>1
  <1>2. ASSUME mark' = NoMark PROVE RenewedByCopy
    BY <1>2 DEF NoMark
  <1>3. CASE LoadDone
    BY <1>1, <1>3 DEF LoadDone
  <1>4. CASE SavePage
    <2>1. ASSUME mark' = [who |-> who, cursor |-> next,
                          fresh |-> FALSE \/ (mark.who = who /\ mark.fresh)]
          PROVE  RenewedByCopy
      BY <2>1
    <2>. QED  BY <1>1, <1>2, <1>4, <2>1 DEF SavePage, SaveCursor
  <1>5. CASE MarkAges
    BY <1>5 DEF MarkAges, DeviceTypeOK
  <1>6. CASE EngineNext /\ ~LoadDone /\ ~SavePage
    BY <1>1, <1>2, <1>6 DEF EngineNext, Run, Boundary, FullLoad, ReadBounds, ReadPage, ReadRecords,
       Rejected, Apply, Reload, LoadFetch, LoadApply, StartLoad, device
  <1>7. CASE Disturbance /\ ~MarkAges
    BY <1>1, <1>2, <1>7 DEF Disturbance, RunAgain, FetchFails, Restart, RenewUser,
       LoadFail, ChangeAccess, SignInAgain, device
  <1>8. CASE ServerNext \/ UNCHANGED vars
    BY <1>1, <1>8 DEF ServerNext, Write, PruneLog, vars, device
  <1>. QED  BY <1>3, <1>4, <1>5, <1>6, <1>7, <1>8 DEF Next

(* The age of a saved copy starts anew only with a full copy, whatever the *)
(* gaps (deltaSyncClient.ts, savedCursor).                                 *)
THEOREM CopyAge == Spec => OnlyFullCopyRenewsMark
  <1>1. TypeOK => DeviceTypeOK
    BY DEF TypeOK
  <1>2. TypeOK /\ [Next]_vars => [RenewedByCopy]_vars
    BY <1>1, CopyRenews
  <1>. QED  BY <1>2, TypeCorrect, PTL DEF Spec, OnlyFullCopyRenewsMark

-----------------------------------------------------------------------------
(* Without the named gaps.                                                 *)

NoGaps == Gaps = {}

(* A copy v of item i, brought up to c, is what table t has.               *)
Current(l, t, v, i, c) == Settled(l, i, c) => v = t[i]

(* The rows kept are the newest ones: a suffix of the log. A row whose last *)
(* change is a delete is gone.                                             *)
SuffixKept == \A s \in kept : \A r \in Seqs : s <= r => r \in kept
StampsInOrder == \A s \in Seqs : log[s].at = s
DeletedGone ==
    \A s \in Seqs : log[s].op = "delete" /\ Settled(log, log[s].item, s)
                       => table[log[s].item] = Absent
LogInv == SuffixKept /\ StampsInOrder /\ DeletedGone

(* Which load may run in which phase of the pass.                          *)
PhaseInv ==
    /\ phase \in {"boundary", "copy", "loading"} => cursor = NoCursor
    /\ cursor = Unread => phase = "idle"
    /\ phase = "loading" => loader = "pass" /\ ~orphan
    /\ loader = "pass" /\ ~orphan => phase = "loading"
    /\ loader = "fallback" /\ ~orphan => phase \in {"idle", "boundary", "copy"}
    /\ opener = "reload" => phase = "idle"
    /\ loader = "none" => todo = {}

(* Positions never outrun the log, nor one another.                        *)
PositionInv ==
    /\ cursor <= Len(log) /\ mark.cursor <= Len(log) /\ next <= Len(log)
    /\ cursor >= 0 => mark.cursor <= cursor
    /\ phase \in {"copy", "loading"} => mark.cursor <= next
    /\ phase \in {"answer", "applied"} => cursor <= next
    /\ mark.who \in Identities => mark.cursor >= 0

(* What the tab shows is as new as the position it has, or will read.      *)
ScreenInv == cursor >= 0 =>
    \A i \in Readable[who] : Current(log, table, screen[i], i, cursor)
OpeningInv == cursor = Unread /\ mark.who = who =>
    \A i \in Readable[who] : Current(log, table, screen[i], i, mark.cursor)

(* So is the saved copy, for its mark and, while intact, for the cursor.   *)
MarkInv == mark.who \in Identities =>
    \A i \in Readable[mark.who] : Current(log, table, saved[i], i, mark.cursor)
CopyInv == intact /\ cursor >= 0 =>
    \A i \in Readable[who] : Current(log, table, saved[i], i, cursor)

(* A list in flight is as new as every position it will stand behind.      *)
FallbackInv == loader = "fallback" /\ ~orphan =>
    \A i \in fetched : /\ Current(log, table, got[i], i, mark.cursor)
                       /\ cursor >= 0 => Current(log, table, got[i], i, cursor)
LoadingInv == phase = "loading" =>
    /\ \A i \in fetched : Current(log, table, got[i], i, next)
    /\ ~failed => \A i \in Readable[who] \ todo :
         /\ Current(log, table, screen[i], i, next)
         /\ intact => Current(log, table, saved[i], i, next)

(* A page in flight leaves out no row between the cursor and its end.      *)
AskedInv == phase = "page" => \A s \in Seqs : s > cursor => s \in kept
RowsInv == phase = "attach" =>
    /\ rows \subseteq Seqs
    /\ \A r \in rows : r > cursor
    /\ \A s \in Seqs : \A r \in rows : cursor < s /\ s <= r => s \in rows
AnswerInv == phase = "answer" =>
    /\ DOMAIN answer \subseteq Readable[who]
    /\ \A i \in DOMAIN answer : Current(log, table, answer[i], i, next)
    /\ \A i \in Readable[who] \ DOMAIN answer : Settled(log, i, next) => Settled(log, i, cursor)
AppliedInv == phase = "applied" => \A i \in Readable[who] :
    /\ Current(log, table, screen[i], i, next)
    /\ intact => Current(log, table, saved[i], i, next)

PageInv == AskedInv /\ RowsInv /\ AnswerInv
DataInv ==
    /\ ScreenInv /\ OpeningInv /\ MarkInv /\ CopyInv
    /\ FallbackInv /\ LoadingInv /\ AppliedInv

IInv == LogInv /\ PhaseInv /\ PositionInv /\ PageInv /\ DataInv

-----------------------------------------------------------------------------
(* The log, without the stamp gap.                                         *)

LEMMA RowOf == ASSUME NEW S, NEW q \in Seq(S), NEW n \in 1 .. Len(q) PROVE q[n] \in S
  OBVIOUS

LEMMA WrittenLog ==
  ASSUME LogTypeInv, NEW j \in Items, Write(j), NEW i, NEW c \in Int, c <= Len(log)
  PROVE  Settled(log', i, c) => i # j /\ Settled(log, i, c)
  <1>1. /\ Len(log) \in Nat
        /\ Len(log') = Len(log) + 1
        /\ \A s \in Seqs : log'[s] = log[s]
        /\ log'[Len(log) + 1].item = j
    BY WriteLog, CommitLog DEF LogTypeInv, ServerTypeOK
  <1>2. SUFFICES ASSUME Settled(log', i, c) PROVE i # j /\ Settled(log, i, c)
    OBVIOUS
  <1>3. i # j
    BY <1>1, <1>2 DEF Settled
  <1>4. Settled(log, i, c)
    BY <1>1, <1>2 DEF Settled, Seqs
  <1>. QED  BY <1>3, <1>4

(* What is current at a position within the log stays so when others write. *)
LEMMA WrittenCurrent ==
  ASSUME LogTypeInv, NEW j \in Items, Write(j), NEW i \in Items, NEW v,
         NEW c \in Int, c <= Len(log), Current(log, table, v, i, c)
  PROVE  Current(log', table', v, i, c)
  <1>1. \A k \in Items : k # j => table'[k] = table[k]
    BY DEF Write, Put, PutMissing, Delete, Commit, LogTypeInv, ServerTypeOK
  <1>. QED  BY <1>1, WrittenLog DEF Current

(* Current at a position, current at every earlier one.                    *)
LEMMA Earlier ==
  ASSUME NEW l, Len(l) \in Nat, NEW t, NEW v, NEW i, NEW c \in Int, NEW d \in Int, c <= d,
         Current(l, t, v, i, d)
  PROVE  Current(l, t, v, i, c)
  BY DEF Current, Settled

(* What was just read is current at every position.                        *)
LEMMA JustRead == ASSUME NEW l, NEW t, NEW i, NEW c PROVE Current(l, t, t[i], i, c)
  BY DEF Current

LEMMA SameLog == ASSUME LogInv, UNCHANGED server PROVE LogInv'
  BY DEF LogInv, SuffixKept, StampsInOrder, DeletedGone, server, Seqs, Settled

LEMMA LogWrite ==
  ASSUME NoGaps, LogTypeInv, LogInv, NEW j \in Items, Write(j)
  PROVE  LogInv'
  <1>1. PICK op \in Ops, version \in Versions :
          Commit(j, op, version) /\ (op = "delete" => version = Absent)
    BY WriteLog
  <1>2. /\ Len(log) \in Nat
        /\ Len(log') = Len(log) + 1
        /\ \A s \in Seqs : log'[s] = log[s]
        /\ log'[Len(log) + 1].item = j /\ log'[Len(log) + 1].op = op
    BY <1>1, CommitLog DEF LogTypeInv, ServerTypeOK
  <1>3. /\ kept' = kept \cup {Len(log) + 1}
        /\ table' = [table EXCEPT ![j] = version]
        /\ log' = Append(log, [item |-> j, op |-> op, at |-> Len(log) + 1])
    BY <1>1 DEF Commit, Stamps, NoGaps
  <1>4. \A s \in Seqs' : s \in Seqs \/ s = Len(log) + 1
    BY <1>2 DEF Seqs
  <1>5. SuffixKept'
    <2>1. \A s \in kept : s \in Int /\ s <= Len(log)
      BY <1>2 DEF LogTypeInv, ServerTypeOK, Seqs
    <2>. QED  BY <1>2, <1>3, <1>4, <2>1 DEF LogInv, SuffixKept, Seqs
  <1>6. StampsInOrder'
    <2>1. log'[Len(log) + 1].at = Len(log) + 1
      BY <1>3 DEF LogTypeInv, ServerTypeOK
    <2>. QED  BY <1>2, <1>4, <2>1 DEF LogInv, StampsInOrder
  <1>7. DeletedGone'
    <2>1. SUFFICES ASSUME NEW s \in Seqs', log'[s].op = "delete", Settled(log', log'[s].item, s)
                   PROVE  table'[log'[s].item] = Absent
      BY DEF DeletedGone
    <2>2. CASE s = Len(log) + 1
      BY <1>1, <1>2, <1>3, <2>1, <2>2 DEF LogTypeInv, ServerTypeOK
    <2>3. CASE s \in Seqs
      <3>0. log[s] \in [item : Items, op : Ops, at : Int]
        <4>1. log \in Seq([item : Items, op : Ops, at : Int]) /\ s \in 1 .. Len(log)
          BY <2>3 DEF LogTypeInv, ServerTypeOK, Seqs
        <4>. QED  BY <4>1, RowOf
      <3>1. log'[s] = log[s] /\ s \in Int /\ s <= Len(log) /\ log[s].item \in Items
        BY <1>2, <2>3, <3>0 DEF Seqs
      <3>2. log[s].item # j /\ Settled(log, log[s].item, s)
        BY <2>1, <3>1, WrittenLog
      <3>3. table[log[s].item] = Absent
        BY <2>1, <2>3, <3>1, <3>2 DEF LogInv, DeletedGone
      <3>. QED  BY <1>3, <3>1, <3>2, <3>3 DEF LogTypeInv, ServerTypeOK
    <2>. QED  BY <1>4, <2>2, <2>3
  <1>. QED  BY <1>5, <1>6, <1>7 DEF LogInv

LEMMA LogPrune ==
  ASSUME LogTypeInv, LogInv, NEW cutoff \in Int, PruneLog(cutoff)
  PROVE  LogInv'
  <1>1. /\ log' = log /\ table' = table
        /\ kept' = {s \in kept : log[s].at >= cutoff \/ s = Max(kept)}
    BY DEF PruneLog, Prune
  <1>2. Len(log) \in Nat /\ \A s \in kept : s \in Seqs
    BY DEF LogTypeInv, ServerTypeOK
  <1>3. kept # {} => Max(kept) = Len(log)
    BY Boundaries DEF MaxSeq
  <1>4. SuffixKept'
    <2>1. SUFFICES ASSUME NEW s \in kept', NEW r \in Seqs, s <= r PROVE r \in kept'
      BY <1>1 DEF SuffixKept, Seqs
    <2>2. s \in kept /\ r \in kept
      BY <1>1, <2>1 DEF LogInv, SuffixKept
    <2>3. log[s].at = s /\ log[r].at = r
      BY <1>2, <2>2 DEF LogInv, StampsInOrder
    <2>4. s \in Int /\ r \in Int /\ r <= Len(log)
      BY <1>2, <2>2 DEF Seqs
    <2>5. CASE s >= cutoff
      BY <1>1, <2>1, <2>2, <2>3, <2>4, <2>5
    <2>6. CASE s = Max(kept)
      BY <1>1, <1>2, <1>3, <2>1, <2>2, <2>4, <2>6
    <2>. QED  BY <1>1, <2>3, <2>5, <2>6
  <1>. QED  BY <1>1, <1>4 DEF LogInv, StampsInOrder, DeletedGone, Seqs

LEMMA LogStep == ASSUME NoGaps, LogTypeInv, LogInv, [Next]_vars PROVE LogInv'
  <1>1. ASSUME NEW i \in Items, Write(i) PROVE LogInv'
    BY <1>1, LogWrite
  <1>2. ASSUME NEW cutoff \in 1 .. MaxChanges, PruneLog(cutoff) PROVE LogInv'
    BY <1>2, LogPrune
  <1>3. ASSUME UNCHANGED server PROVE LogInv'
    BY <1>3, SameLog
  <1>4. CASE EngineNext
    BY <1>3, <1>4 DEF EngineNext, Run, Boundary, FullLoad, ReadBounds, ReadPage, ReadRecords,
       Rejected, Apply, SavePage, Reload, LoadDone, LoadFetch, LoadApply, StartLoad
  <1>5. CASE Disturbance
    BY <1>3, <1>5 DEF Disturbance, RunAgain, FetchFails, Restart, RenewUser, MarkAges, LoadFail,
       ChangeAccess, SignInAgain
  <1>. QED  BY <1>1, <1>2, <1>3, <1>4, <1>5 DEF Next, ServerNext, vars

-----------------------------------------------------------------------------
(* The phases.                                                             *)

LEMMA PhaseStep ==
  ASSUME NoGaps, ControlTypeOK, PhaseInv, [Next]_vars
  PROVE  PhaseInv'
  <1>. USE DEF PhaseInv, NoCursor, Unread
  <1>1. ASSUME UNCHANGED <<phase, cursor, loader, orphan, opener>>, todo' \subseteq todo PROVE PhaseInv'
    BY <1>1
  <1>2. CASE Run
    BY <1>2 DEF Run, StartCursor, NoGaps, load, ControlTypeOK
  <1>3. CASE Boundary
    BY <1>3 DEF Boundary, load
  <1>4. CASE FullLoad
    BY <1>4 DEF FullLoad, StartLoad
  <1>5. CASE Reload
    BY <1>5 DEF Reload, StartLoad, NoGaps, tab, load
  <1>6. CASE LoadDone
    BY <1>6 DEF LoadDone, SaveCursor, NextPage, Synced, Throws, ControlTypeOK, PassTypeOK, LoadTypeOK
  <1>7. CASE ReadBounds \/ ReadPage \/ ReadRecords
    BY <1>7 DEF ReadBounds, ReadPage, ReadRecords, tab, load
  <1>8. CASE Rejected
    BY <1>8 DEF Rejected, Throws, load
  <1>9. CASE Apply
    BY <1>9 DEF Apply, Throws, load
  <1>10. CASE SavePage
    BY <1>10 DEF SavePage, SaveCursor, NextPage, Synced, ControlTypeOK, PassTypeOK, load
  <1>11. CASE FetchFails
    BY <1>11 DEF FetchFails, Throws, Waiting, tab, load
  <1>12. CASE Restart
    BY <1>12 DEF Restart, NoPass
  <1>13. ASSUME NEW w \in Identities, ChangeAccess(w) PROVE PhaseInv'
    BY <1>13 DEF ChangeAccess, NoPass
  <1>14. ASSUME NEW w \in Identities, SignInAgain(w) PROVE PhaseInv'
    BY <1>14 DEF SignInAgain, NoPass, NoGaps
  <1>15. CASE RenewUser
    BY <1>15 DEF RenewUser, tab, pass, NoGaps
  <1>16. CASE RunAgain \/ MarkAges \/ \E i \in Items : LoadFail(i) \/ LoadFetch(i) \/ LoadApply(i)
    BY <1>1, <1>16 DEF RunAgain, MarkAges, LoadFail, LoadFetch, LoadApply, tab, pass, load
  <1>17. CASE ServerNext \/ UNCHANGED vars
    BY <1>1, <1>17 DEF ServerNext, Write, PruneLog, tab, pass, load, vars
  <1>. QED
    BY <1>2, <1>3, <1>4, <1>5, <1>6, <1>7, <1>8, <1>9, <1>10, <1>11, <1>12, <1>13, <1>14,
       <1>15, <1>16, <1>17
    DEF Next, EngineNext, Disturbance

-----------------------------------------------------------------------------
(* The positions.                                                          *)

LEMMA NumberTypes ==
  ASSUME ControlTypeOK
  PROVE  cursor \in Int /\ mark.cursor \in Int /\ next \in Nat /\ Len(log) \in Nat
  BY DEF ControlTypeOK, ServerTypeOK, PassTypeOK, NoCursor, Unread

LEMMA PositionTypes ==
  ASSUME TypeOK
  PROVE  cursor \in Int /\ mark.cursor \in Int /\ next \in Nat /\ Len(log) \in Nat
  BY Types, NumberTypes

(* A write only lengthens the log.                                         *)
LEMMA PositionsWritten ==
  ASSUME ControlTypeOK, PositionInv, Len(log') \in Nat, Len(log) <= Len(log'),
         UNCHANGED <<cursor, mark, next, phase>>
  PROVE  PositionInv'
  BY NumberTypes DEF PositionInv

LEMMA Saved ==
  ASSUME ControlTypeOK, PositionInv, NEW whole \in BOOLEAN, SaveCursor(next, whole),
         mark.cursor <= next
  PROVE  /\ cursor' = next /\ mark'.cursor \in Int /\ mark'.cursor <= next
         /\ mark'.who \in Identities => mark'.cursor >= 0
         /\ \/ mark' = NoMark
            \/ mark' = mark
            \/ intact /\ mark'.who = who /\ mark'.cursor = next
  <1>. USE NumberTypes
  <1>1. cursor' = next
    BY DEF SaveCursor
  <1>2. CASE mark' = NoMark
    <2>1. NoMark.who = "nobody" /\ NoMark.cursor = -1
      BY DEF NoMark, NoCursor
    <2>. QED  BY <1>1, <1>2, <2>1, DeltaSyncAssumption
  <1>3. CASE mark' = mark
    BY <1>1, <1>3 DEF PositionInv
  <1>4. CASE intact /\ mark' = [who |-> who, cursor |-> next,
                               fresh |-> whole \/ (mark.who = who /\ mark.fresh)]
    <2>1. mark'.who = who /\ mark'.cursor = next
      BY <1>4
    <2>. QED  BY <1>1, <1>4, <2>1
  <1>. QED  BY <1>2, <1>3, <1>4 DEF SaveCursor

LEMMA PositionStep ==
  ASSUME ControlTypeOK, NewestRowKept, Positioned, LogInv, PhaseInv, PositionInv, RowsInv, [Next]_vars
  PROVE  PositionInv'
  <1>. USE NumberTypes
  <1>1. ASSUME UNCHANGED <<cursor, mark, next, log>>,
               phase' \in {"copy", "loading"} => phase \in {"copy", "loading"},
               phase' \in {"answer", "applied"} => phase \in {"answer", "applied"}
        PROVE  PositionInv'
    BY <1>1 DEF PositionInv
  <1>2. CASE Run
    BY <1>2, DeltaSyncAssumption DEF Run, StartCursor, PositionInv, NoCursor, Unread, server, device, ControlTypeOK
  <1>3. CASE Boundary
    <2>1. next' = Len(log)
      BY <1>3, Boundaries DEF Boundary, LogTypeInv, ControlTypeOK
    <2>. QED  BY <1>3, <2>1 DEF Boundary, PositionInv, server, device
  <1>4. CASE FullLoad
    BY <1>1, <1>4 DEF FullLoad, StartLoad, server, device
  <1>5. CASE Reload
    BY <1>1, <1>5 DEF Reload, StartLoad, server, device, tab
  <1>6. CASE LoadDone
    <2>1. CASE UNCHANGED <<mark, cursor>>
      BY <1>1, <1>6, <2>1 DEF LoadDone, SaveCursor, Throws, NextPage, Synced, server
    <2>2. CASE SaveCursor(next, TRUE) /\ phase = "loading"
      <3>1. phase' \in {"ask", "idle"}
        BY <1>6, <2>2 DEF LoadDone, NextPage, Synced, Throws, PhaseInv
      <3>2. mark.cursor <= next
        BY <2>2 DEF PositionInv
      <3>3. cursor' = next /\ mark'.cursor \in Int /\ mark'.cursor <= next /\ (mark'.who \in Identities => mark'.cursor >= 0)
        BY <2>2, <3>2, Saved
      <3>. QED  BY <1>6, <3>1, <3>3 DEF LoadDone, PositionInv, server
    <2>. QED  BY <1>6, <2>1, <2>2 DEF LoadDone
  <1>7. CASE ReadBounds \/ ReadPage
    BY <1>1, <1>7 DEF ReadBounds, ReadPage, server, device, tab
  <1>8. CASE ReadRecords
    <2>1. next' \in Int /\ cursor <= next' /\ next' <= Len(log)
      <3>1. CASE rows = {}
        BY <1>8, <3>1 DEF ReadRecords, PositionInv
      <3>2. CASE rows # {}
        BY <1>8, <3>2 DEF ReadRecords, IsLast, RowsInv, Seqs
      <3>. QED  BY <3>1, <3>2
    <2>. QED  BY <1>8, <2>1 DEF ReadRecords, PositionInv, server, device, tab
  <1>9. CASE Rejected
    BY <1>9, DeltaSyncAssumption DEF Rejected, Throws, NoMark, NoCursor, PositionInv, server
  <1>10. CASE Apply
    BY <1>1, <1>10 DEF Apply, Throws, server
  <1>11. CASE SavePage
    <2>1. phase' \in {"ask", "idle"}
      BY <1>11 DEF SavePage, NextPage, Synced
    <2>2. mark.cursor <= next
      BY <1>11 DEF SavePage, PositionInv, Positioned, Positions
    <2>3. cursor' = next /\ mark'.cursor \in Int /\ mark'.cursor <= next /\ (mark'.who \in Identities => mark'.cursor >= 0)
      BY <1>11, <2>2, Saved DEF SavePage
    <2>. QED  BY <1>11, <2>1, <2>3 DEF SavePage, PositionInv, server
  <1>12. CASE FetchFails
    BY <1>1, <1>12 DEF FetchFails, Throws, server, device, tab
  <1>13. CASE Restart
    BY <1>13 DEF Restart, NoPass, PositionInv, Unread, server, device
  <1>14. ASSUME NEW w \in Identities, ChangeAccess(w) PROVE PositionInv'
    BY <1>14 DEF ChangeAccess, NoPass, PositionInv, Unread, server, device
  <1>15. ASSUME NEW w \in Identities, SignInAgain(w) PROVE PositionInv'
    BY <1>15, DeltaSyncAssumption
    DEF SignInAgain, NoPass, NoMark, NoCursor, PositionInv, Unread, server
  <1>16. CASE MarkAges
    <2>1. mark'.cursor = mark.cursor /\ mark'.who = mark.who
      BY <1>16 DEF MarkAges, ControlTypeOK
    <2>. QED  BY <1>16, <2>1 DEF MarkAges, PositionInv, server, tab, pass
  <1>17. CASE RenewUser \/ RunAgain \/ \E i \in Items : LoadFail(i) \/ LoadFetch(i) \/ LoadApply(i)
    BY <1>1, <1>17 DEF RenewUser, RunAgain, LoadFail, LoadFetch, LoadApply, server, device, tab, pass
  <1>18. ASSUME NEW i \in Items, Write(i) PROVE PositionInv'
    <2>1. Len(log') = Len(log) + 1
      BY <1>18, WriteLog, CommitLog DEF LogTypeInv, ControlTypeOK
    <2>. QED  BY <1>18, <2>1, PositionsWritten DEF Write, device, tab, pass
  <1>19. ASSUME NEW cutoff \in 1 .. MaxChanges, PruneLog(cutoff) PROVE PositionInv'
    BY <1>1, <1>19 DEF PruneLog, Prune, device, tab, pass
  <1>20. CASE UNCHANGED vars
    BY <1>1, <1>20 DEF vars, server, device, tab, pass
  <1>. QED
    BY <1>2, <1>3, <1>4, <1>5, <1>6, <1>7, <1>8, <1>9, <1>10, <1>11, <1>12, <1>13, <1>14,
       <1>15, <1>16, <1>17, <1>18, <1>19, <1>20
    DEF Next, ServerNext, EngineNext, Disturbance

-----------------------------------------------------------------------------
(* The page in flight, from the bounds to the records.                     *)

LEMMA ReadableItems == \A w \in Identities : Readable[w] \subseteq Items
  BY DeltaSyncAssumption

LEMMA BoundsAsked ==
  ASSUME ControlTypeOK, NewestRowKept, LogInv, ReadBounds
  PROVE  AskedInv'
  <1>1. UNCHANGED <<log, kept, cursor>> /\ (phase' = "page" => ~CursorExpired(cursor))
    BY DEF ReadBounds, server, tab
  <1>2. SUFFICES ASSUME ~CursorExpired(cursor), NEW s \in Seqs, s > cursor PROVE s \in kept
    BY <1>1 DEF AskedInv, Seqs
  <1>3. kept # {}
    BY <1>2 DEF NewestRowKept, Seqs
  <1>4. PICK k \in kept : ~(cursor + 1 < k)
    BY <1>2, <1>3 DEF CursorExpired
  <1>5. k \in Int /\ s \in Int /\ cursor \in Int
    BY <1>2, NumberTypes DEF ControlTypeOK, ServerTypeOK, Seqs
  <1>. QED  BY <1>2, <1>4, <1>5 DEF LogInv, SuffixKept

(* A page is the oldest rows after the cursor: a row before one it has is   *)
(* in it.                                                                  *)
LEMMA PageIsPrefix ==
  ASSUME ServerTypeOK, NEW c \in Int, NEW r \in PageRows(c), NEW s \in kept, c < s, s <= r
  PROVE  s \in PageRows(c)
  <1>. DEFINE Before(q) == {p \in kept : c < p /\ p <= q}
  <1>1. Len(log) \in Nat /\ PageSize \in Nat /\ \A p \in kept : p \in 1 .. Len(log)
    BY ChangeLogAssumption DEF ServerTypeOK, Seqs
  <1>2. r \in kept /\ Cardinality(Before(r)) <= PageSize
    BY DEF PageRows
  <1>3. \A q : IsFiniteSet(Before(q)) /\ Cardinality(Before(q)) \in Nat
    <2>1. IsFiniteSet(1 .. Len(log))
      BY <1>1, FS_Interval
    <2>2. \A q : Before(q) \subseteq 1 .. Len(log)
      BY <1>1
    <2>. QED  BY <2>1, <2>2, FS_Subset, FS_CardinalityType
  <1>4. Before(s) \subseteq Before(r)
    BY <1>1, <1>2
  <1>5. Cardinality(Before(s)) <= Cardinality(Before(r))
    BY <1>3, <1>4, FS_Subset
  <1>6. Cardinality(Before(s)) <= PageSize
    <2>1. Cardinality(Before(s)) \in Nat /\ Cardinality(Before(r)) \in Nat
      BY <1>3
    <2>. HIDE DEF Before
    <2>. QED  BY <1>1, <1>2, <1>5, <2>1
  <1>. QED  BY <1>6 DEF PageRows

LEMMA PageRead ==
  ASSUME ControlTypeOK, AskedInv, ReadPage
  PROVE  RowsInv'
  <1>. USE NumberTypes DEF ControlTypeOK
  <1>1. UNCHANGED <<log, kept, cursor>> /\ phase = "page" /\ rows' = PageRows(cursor)
    BY DEF ReadPage, server, tab
  <1>2. rows' \subseteq Seqs /\ \A r \in rows' : r > cursor
    BY <1>1 DEF PageRows, ServerTypeOK
  <1>3. ASSUME NEW s \in Seqs, NEW r \in rows', cursor < s, s <= r PROVE s \in rows'
    <2>1. s \in kept
      BY <1>1, <1>3 DEF AskedInv, Seqs
    <2>. QED  BY <1>1, <1>3, <2>1, PageIsPrefix
  <1>. QED  BY <1>1, <1>2, <1>3 DEF RowsInv, Seqs

(* The records are as new as the end of the page, and an item the page     *)
(* leaves out has not changed since the cursor.                            *)
LEMMA RecordsRead ==
  ASSUME ControlTypeOK, LogInv, RowsInv, ReadRecords
  PROVE  AnswerInv'
  <1>. USE NumberTypes DEF ControlTypeOK
  <1>1. /\ UNCHANGED <<log, table, who, cursor>>
        /\ phase = "attach" /\ phase' = "answer" /\ answer' = Attached(rows, Readable[who])
    BY DEF ReadRecords, server, tab
  <1>2. /\ rows \subseteq Seqs /\ \A r \in rows : r > cursor
        /\ \A s \in Seqs : \A r \in rows : cursor < s /\ s <= r => s \in rows
    BY <1>1 DEF RowsInv
  <1>3. /\ rows = {} => next' = cursor
        /\ rows # {} => next' \in rows /\ \A r \in rows : r <= next'
    BY DEF ReadRecords, IsLast
  <1>4. \A s \in Seqs : s \in Int
    BY DEF Seqs
  <1>5. ASSUME NEW s \in Seqs, s <= next', s > cursor PROVE s \in rows
    <2>1. rows # {}
      BY <1>3, <1>4, <1>5
    <2>. QED  BY <1>2, <1>3, <1>5, <2>1
  <1>6. DOMAIN answer' = Touched(rows, Readable[who])
    BY <1>1 DEF Attached
  <1>7. ASSUME NEW i \in DOMAIN answer' PROVE Current(log, table, answer'[i], i, next')
    <2>1. answer'[i] = IF \E s \in rows : IsLast(s, About(rows, i)) /\ log[s].op = "delete"
                       THEN Absent ELSE table[i]
      BY <1>1, <1>6, <1>7 DEF Attached
    <2>2. SUFFICES ASSUME Settled(log, i, next'),
                          NEW s \in rows, IsLast(s, About(rows, i)), log[s].op = "delete"
                   PROVE  table[i] = Absent
      BY <2>1 DEF Current
    <2>3. s \in Seqs /\ log[s].item = i /\ \A r \in rows : log[r].item = i => r <= s
      BY <1>2, <2>2 DEF IsLast, About
    <2>4. ASSUME NEW r \in Seqs, log[r].item = i PROVE r <= s
      <3>1. r <= next'
        BY <2>2, <2>4 DEF Settled, Seqs
      <3>2. CASE r > cursor
        BY <1>5, <2>3, <2>4, <3>1, <3>2
      <3>3. CASE ~(r > cursor)
        BY <1>2, <1>4, <2>2, <2>3, <3>3
      <3>. QED  BY <3>2, <3>3
    <2>5. Settled(log, log[s].item, s)
      BY <2>3, <2>4 DEF Settled, Seqs
    <2>. QED  BY <2>2, <2>3, <2>5 DEF LogInv, DeletedGone
  <1>8. ASSUME NEW i \in Readable[who] \ DOMAIN answer', Settled(log, i, next')
        PROVE  Settled(log, i, cursor)
    <2>1. SUFFICES ASSUME NEW s \in Seqs, log[s].item = i PROVE s <= cursor
      BY DEF Settled, Seqs
    <2>2. s <= next'
      BY <1>8, <2>1 DEF Settled, Seqs
    <2>3. s \notin rows
      BY <1>6, <1>8, <2>1 DEF Touched
    <2>. QED  BY <1>4, <1>5, <2>2, <2>3
  <1>9. DOMAIN answer' \subseteq Readable[who]
    BY <1>6 DEF Touched
  <1>. QED  BY <1>1, <1>7, <1>8, <1>9 DEF AnswerInv

LEMMA PageWritten ==
  ASSUME ControlTypeOK, NewestRowKept, cursor <= Len(log), next <= Len(log), PageInv,
         NEW j \in Items, Write(j)
  PROVE  PageInv'
  <1>. USE NumberTypes, ReadableItems DEF PageInv
  <1>1. /\ UNCHANGED <<who, cursor, phase, next, rows, answer>>
        /\ who \in Identities
    BY DEF Write, tab, pass, ControlTypeOK
  <1>2. LogTypeInv
    BY DEF LogTypeInv, ControlTypeOK
  <1>3. /\ Len(log') = Len(log) + 1 /\ kept' = kept \cup {Len(log) + 1}
        /\ \A s \in Seqs : log'[s] = log[s]
        /\ log'[Len(log) + 1].item = j
    BY <1>2, WriteLog, CommitLog DEF Commit
  <1>4. AskedInv' /\ RowsInv'
    BY <1>1, <1>3 DEF AskedInv, RowsInv, Seqs
  <1>5. AnswerInv'
    <2>1. SUFFICES ASSUME phase = "answer" PROVE AnswerInv'
      BY <1>1 DEF AnswerInv
    <2>2. \A i \in DOMAIN answer : Current(log', table', answer[i], i, next)
      BY <1>1, <1>2, <2>1, WrittenCurrent DEF AnswerInv
    <2>3. ASSUME NEW i \in Readable[who] \ DOMAIN answer, Settled(log', i, next)
          PROVE  Settled(log', i, cursor)
      <3>1. i # j /\ Settled(log, i, next)
        BY <1>2, <2>3, WrittenLog
      <3>2. Settled(log, i, cursor)
        BY <2>1, <2>3, <3>1 DEF AnswerInv
      <3>. QED  BY <1>3, <3>1, <3>2 DEF Settled, Seqs
    <2>. QED  BY <1>1, <2>1, <2>2, <2>3 DEF AnswerInv
  <1>. QED  BY <1>4, <1>5

LEMMA PageStep ==
  ASSUME NoGaps, ControlTypeOK, NewestRowKept, LogInv, cursor <= Len(log), next <= Len(log),
         PageInv, [Next]_vars
  PROVE  PageInv'
  <1>. USE DEF PageInv
  <1>1. ASSUME phase' \notin {"page", "attach", "answer"} PROVE PageInv'
    BY <1>1 DEF AskedInv, RowsInv, AnswerInv
  <1>2. ASSUME UNCHANGED <<log, table, who, cursor, phase, next, rows, answer>>,
               phase = "page" => kept' = kept
        PROVE  PageInv'
    BY <1>2 DEF AskedInv, RowsInv, AnswerInv, Seqs
  <1>3. CASE ReadBounds
    <2>1. phase' \in {"page", "rejected"}
      BY <1>3 DEF ReadBounds
    <2>. QED  BY <1>3, <2>1, BoundsAsked DEF RowsInv, AnswerInv
  <1>4. CASE ReadPage
    <2>1. phase' = "attach"
      BY <1>4 DEF ReadPage
    <2>. QED  BY <1>4, <2>1, PageRead DEF AskedInv, AnswerInv
  <1>5. CASE ReadRecords
    <2>1. phase' = "answer"
      BY <1>5 DEF ReadRecords
    <2>. QED  BY <1>5, <2>1, RecordsRead DEF AskedInv, RowsInv
  <1>6. ASSUME NEW i \in Items, Write(i) PROVE PageInv'
    BY <1>6, PageWritten
  <1>7. ASSUME NEW cutoff, PruneLog(cutoff) PROVE PageInv'
    BY <1>2, <1>7 DEF PruneLog, Prune, NoGaps, tab, pass
  <1>8. CASE Run \/ Boundary \/ FullLoad \/ Rejected \/ Apply \/ SavePage \/ FetchFails \/ Restart
    BY <1>1, <1>8 DEF Run, Boundary, FullLoad, Rejected, Apply, SavePage, NextPage, Synced,
       FetchFails, Restart, Throws, NoPass
  <1>9. CASE LoadDone
    BY <1>1, <1>2, <1>9 DEF LoadDone, NextPage, Synced, Throws, SaveCursor, server
  <1>10. CASE Reload \/ RunAgain \/ RenewUser \/ MarkAges
    BY <1>2, <1>10 DEF Reload, StartLoad, RunAgain, RenewUser, MarkAges, server, tab, pass
  <1>11. CASE \E i \in Items : LoadFetch(i) \/ LoadApply(i) \/ LoadFail(i)
    BY <1>2, <1>11 DEF LoadFetch, LoadApply, LoadFail, server, tab, pass
  <1>12. CASE \E w \in Identities : ChangeAccess(w) \/ SignInAgain(w)
    BY <1>1, <1>12 DEF ChangeAccess, SignInAgain, NoPass, NoGaps
  <1>13. CASE UNCHANGED vars
    BY <1>2, <1>13 DEF vars, server, tab, pass
  <1>. QED
    BY <1>3, <1>4, <1>5, <1>6, <1>7, <1>8, <1>9, <1>10, <1>11, <1>12, <1>13
    DEF Next, ServerNext, EngineNext, Disturbance

-----------------------------------------------------------------------------
(* What the tab shows, keeps and awaits. First, what leaves each part alone. *)

LEMMA SameScreen ==
  ASSUME ScreenInv, OpeningInv, UNCHANGED <<log, table, who, screen, cursor, mark>>
  PROVE  ScreenInv' /\ OpeningInv'
  BY DEF ScreenInv, OpeningInv

LEMMA SameCopy ==
  ASSUME MarkInv, CopyInv, UNCHANGED <<log, table, who, saved, cursor, mark>>, intact' => intact
  PROVE  MarkInv' /\ CopyInv'
  BY DEF MarkInv, CopyInv

LEMMA SameLoads ==
  ASSUME FallbackInv, LoadingInv, phase' = "loading" => phase = "loading",
         UNCHANGED <<log, table, who, screen, saved, intact, cursor, mark, next, loader, orphan,
                     todo, fetched, got, failed>>
  PROVE  FallbackInv' /\ LoadingInv'
  BY DEF FallbackInv, LoadingInv

LEMMA NoLoad ==
  ASSUME loader' # "fallback" \/ orphan', phase' # "loading"
  PROVE  FallbackInv' /\ LoadingInv'
  BY DEF FallbackInv, LoadingInv

LEMMA SameApplied ==
  ASSUME AppliedInv, intact' => intact, UNCHANGED <<log, table, who, screen, saved, phase, next>>
  PROVE  AppliedInv'
  BY DEF AppliedInv

LEMMA NotApplied == ASSUME phase' # "applied" PROVE AppliedInv'
  BY DEF AppliedInv

LEMMA DataWrite ==
  ASSUME TypeOK, NewestRowKept, PositionInv, DataInv, NEW j \in Items, Write(j)
  PROVE  DataInv'
  <1>. USE PositionTypes, ReadableItems
  <1>1. /\ UNCHANGED <<saved, mark, who, screen, cursor, intact, phase, next, loader, todo,
                       fetched, got, failed, orphan>>
        /\ who \in Identities
        /\ fetched \subseteq Items
    BY DEF Write, device, tab, pass, load, TypeOK, TabTypeOK, LoadTypeOK
  <1>2. LogTypeInv
    BY DEF LogTypeInv, TypeOK
  <1>3. \A i \in Items : \A v : \A c \in Int : c <= Len(log) /\ Current(log, table, v, i, c)
                              => Current(log', table', v, i, c)
    BY <1>2, WrittenCurrent
  <1>4. cursor <= Len(log) /\ mark.cursor <= Len(log) /\ next <= Len(log)
    BY DEF PositionInv
  <1>5. ScreenInv' /\ OpeningInv'
    BY <1>1, <1>3, <1>4 DEF DataInv, ScreenInv, OpeningInv
  <1>6. MarkInv' /\ CopyInv'
    BY <1>1, <1>3, <1>4 DEF DataInv, MarkInv, CopyInv
  <1>7. FallbackInv' /\ LoadingInv'
    BY <1>1, <1>3, <1>4 DEF DataInv, FallbackInv, LoadingInv
  <1>8. AppliedInv'
    BY <1>1, <1>3, <1>4 DEF DataInv, AppliedInv
  <1>. QED  BY <1>5, <1>6, <1>7, <1>8 DEF DataInv

-----------------------------------------------------------------------------
(* The inductive invariant, and its steps one action at a time.            *)

Ind == TypeOK /\ NewestRowKept /\ Positioned /\ IInv

LEMMA RunData == ASSUME NoGaps, Ind, Run PROVE DataInv'
  <1>. USE PositionTypes DEF Ind, IInv
  <1>1. UNCHANGED <<log, table, who, screen, saved, mark, intact, loader, orphan, fetched, got>>
    BY DEF Run, server, device, load
  <1>2. /\ cursor' # Unread
        /\ \/ cursor' = cursor
           \/ cursor = Unread /\ cursor' = NoCursor
           \/ cursor = Unread /\ cursor' = mark.cursor /\ mark.who = who
    BY DEF Run, StartCursor, NoCursor, Unread, TypeOK, DeviceTypeOK
  <1>3. ScreenInv' /\ OpeningInv'
    BY <1>1, <1>2 DEF DataInv, ScreenInv, OpeningInv, NoCursor
  <1>4. MarkInv' /\ CopyInv'
    BY <1>1, <1>2 DEF DataInv, MarkInv, CopyInv, NoCursor, TypeOK, TabTypeOK
  <1>5. phase' \in {"boundary", "ask"}
    BY DEF Run
  <1>6. FallbackInv' /\ LoadingInv'
    <2>1. loader = "fallback" => cursor' = NoCursor
      BY DEF Run, NoGaps
    <2>. QED  BY <1>1, <1>5, <2>1 DEF DataInv, FallbackInv, LoadingInv, NoCursor
  <1>. QED  BY <1>3, <1>4, <1>5, <1>6, NotApplied DEF DataInv

LEMMA BoundaryData == ASSUME Ind, Boundary PROVE DataInv'
  <1>. USE DEF Ind, IInv
  <1>1. /\ UNCHANGED <<log, table, who, screen, saved, cursor, mark, loader, orphan, fetched, got>>
        /\ phase' = "copy" /\ cursor = NoCursor
    BY DEF Boundary, server, device, load, PhaseInv
  <1>2. MarkInv' /\ CopyInv'
    BY <1>1 DEF DataInv, MarkInv, CopyInv, NoCursor
  <1>3. FallbackInv' /\ LoadingInv'
    BY <1>1 DEF DataInv, FallbackInv, LoadingInv
  <1>. QED  BY <1>1, <1>2, <1>3, SameScreen, NotApplied DEF DataInv

LEMMA FullLoadData == ASSUME Ind, FullLoad PROVE DataInv'
  <1>. USE DEF Ind, IInv
  <1>1. /\ UNCHANGED <<log, table, who, saved, cursor, mark, intact>>
        /\ phase' = "loading" /\ cursor = NoCursor
        /\ loader' = "pass" /\ fetched' = {} /\ todo' = Readable[who]
    BY DEF FullLoad, StartLoad, server, device, PhaseInv
  <1>2. ScreenInv' /\ OpeningInv'
    BY <1>1 DEF ScreenInv, OpeningInv, NoCursor, Unread
  <1>3. FallbackInv' /\ LoadingInv'
    BY <1>1 DEF FallbackInv, LoadingInv
  <1>. QED  BY <1>1, <1>2, <1>3, SameCopy, NotApplied DEF DataInv

LEMMA ReloadData == ASSUME NoGaps, Ind, Reload PROVE DataInv'
  <1>. USE DEF Ind, IInv
  <1>1. phase' = "idle" /\ phase = "idle"
    BY DEF Reload, StartLoad, PhaseInv, NoGaps
  <1>2. AppliedInv'
    BY <1>1, NotApplied
  <1>3. CASE loader = "none"
    <2>1. /\ UNCHANGED <<log, table, who, saved, cursor, mark, intact>>
          /\ fetched' = {}
          /\ \A i \in Items : i \in Readable[who] => screen'[i] = screen[i]
      BY <1>3 DEF Reload, StartLoad, server, device
    <2>2. ScreenInv' /\ OpeningInv'
      BY <2>1, ReadableItems DEF DataInv, ScreenInv, OpeningInv, TypeOK, TabTypeOK
    <2>3. FallbackInv' /\ LoadingInv'
      BY <1>1, <2>1 DEF FallbackInv, LoadingInv
    <2>. QED  BY <1>2, <2>1, <2>2, <2>3, SameCopy DEF DataInv
  <1>4. CASE loader # "none"
    <2>1. UNCHANGED <<server, device, tab, load, next>>
      BY <1>4 DEF Reload
    <2>. QED
      BY <1>1, <1>2, <2>1, SameScreen, SameCopy, SameLoads DEF DataInv, server, device, tab, load
  <1>. QED  BY <1>3, <1>4

LEMMA LoadFetchData == ASSUME Ind, NEW i \in Items, LoadFetch(i) PROVE DataInv'
  <1>. USE DEF Ind, IInv
  <1>1. /\ UNCHANGED <<log, table, kept, who, screen, saved, cursor, mark, intact, phase, next,
                       rows, answer, loader, orphan, todo, failed>>
        /\ fetched' = fetched \cup {i}
    BY DEF LoadFetch, server, device, tab, pass
  <1>2. got'[i] = table[i] /\ \A k \in fetched : k # i => got'[k] = got[k]
    BY DEF LoadFetch, TypeOK, LoadTypeOK
  <1>3. \A c : Current(log, table, got'[i], i, c)
    BY <1>2, JustRead
  <1>4. FallbackInv'
    BY <1>1, <1>2, <1>3 DEF DataInv, FallbackInv
  <1>5. LoadingInv'
    BY <1>1, <1>2, <1>3 DEF DataInv, LoadingInv
  <1>. QED  BY <1>1, <1>4, <1>5, SameScreen, SameCopy, SameApplied DEF DataInv

LEMMA LoadApplyData == ASSUME NoGaps, Ind, NEW i \in Items, LoadApply(i) PROVE DataInv'
  <1>. USE PositionTypes DEF Ind, IInv
  <1>1. /\ UNCHANGED <<log, table, kept, who, cursor, mark, phase, next, rows, answer,
                       loader, orphan, failed>>
        /\ i \in fetched /\ i \in todo
        /\ todo' = todo \ {i} /\ fetched' = fetched \ {i}
        /\ \A k \in fetched' : got'[k] = got[k]
    BY DEF LoadApply, server, pass, TypeOK, LoadTypeOK
  <1>2. CASE orphan
    <2>1. UNCHANGED <<screen, saved, intact>> /\ orphan'
      BY <1>1, <1>2 DEF LoadApply
    <2>2. phase' # "loading"
      BY <1>1, <1>2 DEF PhaseInv
    <2>. QED  BY <1>1, <2>1, <2>2, SameScreen, SameCopy, NoLoad, SameApplied DEF DataInv
  <1>3. CASE ~orphan
    <2>0. Show(i, got[i])
      BY <1>3 DEF LoadApply
    <2>1. /\ screen'[i] = got[i] /\ \A k \in Items : k # i => screen'[k] = screen[k]
          /\ \A k \in Items : k # i => saved'[k] = saved[k]
          /\ intact' => intact
      <3>1. screen'[i] = got[i] /\ \A k \in Items : k # i => screen'[k] = screen[k]
        BY <2>0 DEF Show, NoGaps, TypeOK, TabTypeOK
      <3>. QED  BY <1>3, <3>1 DEF LoadApply, TypeOK, TabTypeOK, DeviceTypeOK
    <2>2. saved'[i] = got[i] \/ (saved'[i] = saved[i] /\ ~intact')
      BY <1>3 DEF LoadApply, NoGaps, TypeOK, DeviceTypeOK
    <2>3. loader \in {"pass", "fallback"}
      BY <1>1 DEF PhaseInv, TypeOK, LoadTypeOK
    <2>4. phase # "applied"
      BY <1>3, <2>3 DEF PhaseInv
    <2>5. Readable[who] \subseteq Items /\ \A w \in Identities : Readable[w] \subseteq Items
      BY ReadableItems DEF TypeOK, TabTypeOK
    <2>6. CASE loader = "pass"
      <3>1. phase = "loading" /\ cursor = NoCursor /\ mark.cursor <= next
        BY <1>3, <2>6 DEF PhaseInv, PositionInv
      <3>2. Current(log, table, got[i], i, next) /\ Current(log, table, got[i], i, mark.cursor)
        BY <1>1, <3>1, Earlier DEF DataInv, LoadingInv
      <3>3. ScreenInv' /\ OpeningInv' /\ CopyInv'
        BY <1>1, <3>1 DEF ScreenInv, OpeningInv, CopyInv, NoCursor, Unread
      <3>4. MarkInv'
        BY <1>1, <2>1, <2>2, <2>5, <3>2 DEF DataInv, MarkInv
      <3>5. LoadingInv'
        BY <1>1, <2>1, <2>2, <2>5, <3>1, <3>2 DEF DataInv, LoadingInv
      <3>6. FallbackInv'
        BY <1>1, <2>6 DEF FallbackInv
      <3>. QED  BY <1>1, <2>4, <3>3, <3>4, <3>5, <3>6, NotApplied DEF DataInv
    <2>7. CASE loader = "fallback"
      <3>1. phase # "loading"
        BY <1>3, <2>7 DEF PhaseInv
      <3>2. /\ Current(log, table, got[i], i, mark.cursor)
            /\ cursor >= 0 => Current(log, table, got[i], i, cursor)
        BY <1>1, <1>3, <2>7 DEF DataInv, FallbackInv
      <3>3. ScreenInv' /\ OpeningInv'
        BY <1>1, <2>1, <2>5, <3>2 DEF DataInv, ScreenInv, OpeningInv
      <3>4. MarkInv'
        BY <1>1, <2>1, <2>2, <2>5, <3>2 DEF DataInv, MarkInv
      <3>5. CopyInv'
        BY <1>1, <2>1, <2>2, <2>5, <3>2 DEF DataInv, CopyInv
      <3>6. FallbackInv' /\ LoadingInv'
        BY <1>1, <3>1 DEF DataInv, FallbackInv, LoadingInv
      <3>. QED  BY <1>1, <2>4, <3>3, <3>4, <3>5, <3>6, NotApplied DEF DataInv
    <2>. QED  BY <2>3, <2>6, <2>7
  <1>. QED  BY <1>2, <1>3

LEMMA LoadFailData == ASSUME NoGaps, Ind, NEW i \in Items, LoadFail(i) PROVE DataInv'
  <1>. USE DEF Ind, IInv
  <1>1. /\ UNCHANGED <<log, table, kept, who, screen, saved, cursor, mark, intact, phase, next,
                       rows, answer, loader, orphan>>
        /\ fetched' = fetched \ {i}
        /\ \A k \in fetched' : got'[k] = got[k]
    BY DEF LoadFail, NoGaps, server, device, pass, TypeOK, LoadTypeOK
  <1>2. phase = "loading" => failed'
    BY DEF LoadFail, PhaseInv
  <1>3. FallbackInv'
    BY <1>1 DEF DataInv, FallbackInv
  <1>4. LoadingInv'
    BY <1>1, <1>2 DEF DataInv, LoadingInv
  <1>. QED  BY <1>1, <1>3, <1>4, SameScreen, SameCopy, SameApplied DEF DataInv

LEMMA LoadDoneData == ASSUME Ind, LoadDone PROVE DataInv'
  <1>. USE PositionTypes DEF Ind, IInv
  <1>1. /\ UNCHANGED <<log, table, kept, who, screen, saved, intact, next, rows, answer>>
        /\ loader' = "none" /\ todo = {}
    BY DEF LoadDone, server
  <1>2. CASE UNCHANGED <<mark, cursor, phase>> /\ phase # "loading"
    BY <1>1, <1>2, SameScreen, SameCopy, NoLoad, SameApplied DEF DataInv
  <1>3. CASE UNCHANGED <<mark, cursor>> /\ phase' = "idle"
    BY <1>1, <1>3, SameScreen, SameCopy, NoLoad, NotApplied DEF DataInv
  <1>4. CASE phase = "loading" /\ ~failed /\ SaveCursor(next, TRUE) /\ phase' \in {"ask", "idle"}
    <2>1. \A k \in Readable[who] : /\ Current(log, table, screen[k], k, next)
                                   /\ intact => Current(log, table, saved[k], k, next)
      BY <1>1, <1>4 DEF DataInv, LoadingInv
    <2>2. mark.cursor <= next
      BY <1>4 DEF PositionInv
    <2>3. /\ cursor' = next
          /\ \/ mark' = NoMark
             \/ mark' = mark
             \/ intact /\ mark'.who = who /\ mark'.cursor = next
      BY <1>4, <2>2, Saved, Types
    <2>4. ScreenInv' /\ OpeningInv' /\ CopyInv'
      BY <1>1, <2>1, <2>3 DEF ScreenInv, OpeningInv, CopyInv, Unread
    <2>5. MarkInv'
      BY <1>1, <2>1, <2>3, DeltaSyncAssumption DEF DataInv, MarkInv, NoMark
    <2>. QED  BY <1>1, <1>4, <2>4, <2>5, NoLoad, NotApplied DEF DataInv
  <1>. QED
    BY <1>1, <1>2, <1>3, <1>4 DEF LoadDone, Throws, NextPage, Synced, PhaseInv

LEMMA ReadBoundsData == ASSUME Ind, ReadBounds \/ ReadPage PROVE DataInv'
  <1>. USE DEF Ind, IInv
  <1>1. /\ UNCHANGED <<log, table, who, screen, saved, cursor, mark, intact, next, loader, orphan,
                       todo, fetched, got, failed>>
        /\ phase' \in {"rejected", "page", "attach"}
    BY DEF ReadBounds, ReadPage, server, device, tab, load
  <1>. QED  BY <1>1, SameScreen, SameCopy, SameLoads, NotApplied DEF DataInv

LEMMA ReadRecordsData == ASSUME Ind, ReadRecords PROVE DataInv'
  <1>. USE DEF Ind, IInv
  <1>1. /\ UNCHANGED <<log, table, who, screen, saved, cursor, mark, intact, loader, orphan,
                       fetched, got>>
        /\ phase' = "answer"
    BY DEF ReadRecords, server, device, tab, load
  <1>2. FallbackInv' /\ LoadingInv'
    BY <1>1 DEF DataInv, FallbackInv, LoadingInv
  <1>. QED  BY <1>1, <1>2, SameScreen, SameCopy, NotApplied DEF DataInv

LEMMA RejectedData == ASSUME Ind, Rejected PROVE DataInv'
  <1>. USE DEF Ind, IInv
  <1>1. /\ cursor' = NoCursor /\ mark' = NoMark /\ phase' \in {"boundary", "idle"}
        /\ UNCHANGED <<loader, orphan>>
    BY DEF Rejected, Throws, load
  <1>2. ScreenInv' /\ OpeningInv' /\ MarkInv' /\ CopyInv'
    BY <1>1, DeltaSyncAssumption
    DEF ScreenInv, OpeningInv, MarkInv, CopyInv, NoMark, NoCursor, Unread
  <1>3. loader # "fallback" \/ orphan
    BY DEF Rejected, PhaseInv
  <1>. QED  BY <1>1, <1>2, <1>3, NoLoad, NotApplied DEF DataInv

LEMMA ApplyData == ASSUME Ind, Apply PROVE DataInv'
  <1>. USE PositionTypes DEF Ind, IInv
  <1>1. /\ UNCHANGED <<log, table, who, cursor, mark, next, loader, orphan>>
        /\ phase = "answer"
        /\ \A i \in Items : screen'[i] = IF i \in DOMAIN answer THEN answer[i] ELSE screen[i]
    BY DEF Apply, server, load
  <1>2. PICK stored \in SUBSET DOMAIN answer :
          /\ saved' = [i \in Items |-> IF i \in stored THEN answer[i] ELSE saved[i]]
          /\ intact' = (intact /\ (DOMAIN answer \ stored) \subseteq Invoices)
          /\ IF (DOMAIN answer \ stored) \cap Invoices = {}
             THEN phase' = "applied" /\ UNCHANGED <<again, opener>> ELSE Throws
    BY DEF Apply
  <1>3. /\ \A w \in Identities : Readable[w] \subseteq Items
        /\ who \in Identities /\ Readable[who] \subseteq Items
        /\ cursor >= 0 /\ mark.cursor <= cursor /\ cursor <= next
    BY <1>1, ReadableItems DEF TypeOK, TabTypeOK, Positioned, Positions, PositionInv
  <1>4. /\ DOMAIN answer \subseteq Readable[who]
        /\ \A i \in DOMAIN answer : Current(log, table, answer[i], i, next)
        /\ \A i \in Readable[who] \ DOMAIN answer : Settled(log, i, next) => Settled(log, i, cursor)
    BY <1>1 DEF PageInv, AnswerInv
  <1>5. \A i \in DOMAIN answer : /\ Current(log, table, answer[i], i, cursor)
                                 /\ Current(log, table, answer[i], i, mark.cursor)
    BY <1>3, <1>4, Earlier
  <1>6. ScreenInv'
    BY <1>1, <1>3, <1>5 DEF DataInv, ScreenInv
  <1>7. OpeningInv'
    BY <1>1, <1>3 DEF OpeningInv, Unread
  <1>8. MarkInv'
    BY <1>1, <1>2, <1>3, <1>5 DEF DataInv, MarkInv
  <1>9. CopyInv'
    BY <1>1, <1>2, <1>3, <1>5 DEF DataInv, CopyInv
  <1>10. phase' \in {"applied", "idle"} /\ (loader # "fallback" \/ orphan)
    BY <1>1, <1>2 DEF Throws, PhaseInv
  <1>11. AppliedInv'
    <2>1. SUFFICES ASSUME phase' = "applied", NEW i \in Readable[who]
                   PROVE  /\ Current(log, table, screen'[i], i, next)
                          /\ intact' => Current(log, table, saved'[i], i, next)
      BY <1>1 DEF AppliedInv
    <2>2. (DOMAIN answer \ stored) \cap Invoices = {}
      BY <1>2, <2>1 DEF Throws
    <2>3. intact' => intact /\ stored = DOMAIN answer
      BY <1>2, <2>2
    <2>4. CASE i \in DOMAIN answer
      BY <1>1, <1>2, <1>3, <1>4, <2>1, <2>3, <2>4
    <2>5. CASE i \notin DOMAIN answer
      <3>1. Current(log, table, screen[i], i, cursor)
        BY <1>3, <2>1 DEF DataInv, ScreenInv
      <3>2. intact => Current(log, table, saved[i], i, cursor)
        BY <1>3, <2>1 DEF DataInv, CopyInv
      <3>3. Settled(log, i, next) => Settled(log, i, cursor)
        BY <1>4, <2>1, <2>5
      <3>4. screen'[i] = screen[i] /\ (intact' => saved'[i] = saved[i])
        BY <1>1, <1>2, <1>3, <2>1, <2>5
      <3>. QED  BY <2>3, <3>1, <3>2, <3>3, <3>4 DEF Current
    <2>. QED  BY <2>4, <2>5
  <1>. QED  BY <1>1, <1>6, <1>7, <1>8, <1>9, <1>10, <1>11, NoLoad DEF DataInv

LEMMA SavePageData == ASSUME Ind, SavePage PROVE DataInv'
  <1>. USE PositionTypes DEF Ind, IInv
  <1>1. /\ UNCHANGED <<log, table, who, screen, saved, intact, loader, orphan>>
        /\ phase = "applied" /\ phase' \in {"ask", "idle"}
    BY DEF SavePage, NextPage, Synced, server, load
  <1>2. \A i \in Readable[who] : /\ Current(log, table, screen[i], i, next)
                                 /\ intact => Current(log, table, saved[i], i, next)
    BY <1>1 DEF DataInv, AppliedInv
  <1>3. mark.cursor <= next
    BY <1>1 DEF PositionInv, Positioned, Positions
  <1>4. /\ cursor' = next
        /\ \/ mark' = NoMark
           \/ mark' = mark
           \/ intact /\ mark'.who = who /\ mark'.cursor = next
    BY <1>3, Saved, Types DEF SavePage
  <1>5. ScreenInv' /\ OpeningInv' /\ CopyInv'
    BY <1>1, <1>2, <1>4 DEF ScreenInv, OpeningInv, CopyInv, Unread
  <1>6. MarkInv'
    BY <1>1, <1>2, <1>4, DeltaSyncAssumption DEF DataInv, MarkInv, NoMark
  <1>7. loader # "fallback" \/ orphan
    BY <1>1 DEF PhaseInv
  <1>. QED  BY <1>1, <1>5, <1>6, <1>7, NoLoad, NotApplied DEF DataInv

LEMMA FetchFailsData == ASSUME Ind, FetchFails PROVE DataInv'
  <1>1. /\ UNCHANGED <<log, table, who, screen, saved, cursor, mark, intact, next, loader, orphan,
                       todo, fetched, got, failed>>
        /\ phase' = "idle"
    BY DEF FetchFails, Throws, server, device, tab, load
  <1>. QED
    BY <1>1, SameScreen, SameCopy, SameLoads, NotApplied DEF Ind, IInv, DataInv

LEMMA RestartData == ASSUME Ind, Restart PROVE DataInv'
  <1>. USE DEF Ind, IInv
  <1>1. /\ UNCHANGED <<log, table, who, saved, mark>>
        /\ screen' = saved /\ cursor' = Unread /\ phase' = "idle" /\ loader' = "none"
    BY DEF Restart, NoPass, server, device
  <1>2. ScreenInv' /\ CopyInv'
    BY <1>1 DEF ScreenInv, CopyInv, Unread
  <1>3. OpeningInv' /\ MarkInv'
    BY <1>1 DEF DataInv, OpeningInv, MarkInv, TypeOK, TabTypeOK
  <1>. QED  BY <1>1, <1>2, <1>3, NoLoad, NotApplied DEF DataInv

LEMMA ChangeAccessData ==
  ASSUME NoGaps, Ind, NEW w \in Identities, ChangeAccess(w)
  PROVE  DataInv'
  <1>. USE DEF Ind, IInv
  <1>1. /\ UNCHANGED <<log, table, saved, mark, loader>>
        /\ who' = w /\ mark.who # w /\ cursor' = Unread /\ phase' = "idle"
        /\ orphan' = (loader # "none")
    BY DEF ChangeAccess, NoPass, NoGaps, server, device
  <1>2. ScreenInv' /\ OpeningInv' /\ MarkInv' /\ CopyInv'
    BY <1>1 DEF DataInv, ScreenInv, OpeningInv, MarkInv, CopyInv, Unread
  <1>. QED  BY <1>1, <1>2, NoLoad, NotApplied DEF DataInv

LEMMA SignInData == ASSUME NoGaps, Ind, NEW w \in Identities, SignInAgain(w) PROVE DataInv'
  <1>. USE DEF Ind, IInv
  <1>1. /\ who' = w /\ w # who /\ mark' = NoMark /\ cursor' = Unread /\ phase' = "idle"
        /\ orphan' = (loader # "none") /\ loader' = loader
    BY DEF SignInAgain, NoPass, NoGaps
  <1>2. ScreenInv' /\ OpeningInv' /\ MarkInv' /\ CopyInv'
    BY <1>1, DeltaSyncAssumption DEF ScreenInv, OpeningInv, MarkInv, CopyInv, Unread, NoMark
  <1>. QED  BY <1>1, <1>2, NoLoad, NotApplied DEF DataInv

LEMMA RenewData == ASSUME NoGaps, Ind, RenewUser PROVE DataInv'
  <1>. USE DEF Ind, IInv
  <1>1. /\ UNCHANGED <<log, table, kept, who, screen, saved, cursor, mark, intact, phase, next,
                       rows, answer>>
        /\ loader = "fallback" /\ orphan' /\ ~orphan
    BY DEF RenewUser, NoGaps, server, device, tab, pass
  <1>2. phase' # "loading"
    BY <1>1 DEF PhaseInv
  <1>. QED  BY <1>1, <1>2, SameScreen, SameCopy, SameApplied, NoLoad DEF DataInv

LEMMA MarkAgesData == ASSUME Ind, MarkAges PROVE DataInv'
  <1>. USE DEF Ind, IInv
  <1>1. mark'.cursor = mark.cursor /\ mark'.who = mark.who
    BY DEF MarkAges, TypeOK, DeviceTypeOK
  <1>2. UNCHANGED <<log, table, kept, who, screen, saved, cursor, intact, phase, next, rows,
                    answer, loader, orphan, todo, fetched, got, failed>>
    BY DEF MarkAges, server, tab, pass, load
  <1>3. ScreenInv' /\ OpeningInv' /\ MarkInv' /\ CopyInv'
    BY <1>1, <1>2 DEF DataInv, ScreenInv, OpeningInv, MarkInv, CopyInv
  <1>4. FallbackInv' /\ LoadingInv'
    BY <1>1, <1>2 DEF DataInv, FallbackInv, LoadingInv
  <1>. QED  BY <1>2, <1>3, <1>4, SameApplied DEF DataInv

LEMMA StutterData ==
  ASSUME Ind, UNCHANGED <<log, table, device, tab, load, phase, next>>
  PROVE  DataInv'
  BY SameScreen, SameCopy, SameLoads, SameApplied DEF Ind, IInv, DataInv, device, tab, load

LEMMA DataStep == ASSUME NoGaps, Ind, [Next]_vars PROVE DataInv'
  <1>1. ASSUME NEW i \in Items, Write(i) PROVE DataInv'
    BY <1>1, DataWrite DEF Ind, IInv
  <1>2. CASE RunAgain \/ \E cutoff \in 1 .. MaxChanges : PruneLog(cutoff)
    BY <1>2, StutterData DEF RunAgain, PruneLog, Prune, server, pass
  <1>3. CASE UNCHANGED vars
    BY <1>3, StutterData DEF vars, server, pass
  <1>. QED
    BY <1>1, <1>2, <1>3, RunData, BoundaryData, FullLoadData, ReloadData,
       LoadFetchData, LoadApplyData, LoadFailData, LoadDoneData, ReadBoundsData, ReadRecordsData,
       RejectedData, ApplyData, SavePageData, FetchFailsData, RestartData, ChangeAccessData,
       SignInData, RenewData, MarkAgesData
    DEF Next, ServerNext, EngineNext, Disturbance

-----------------------------------------------------------------------------
LEMMA Initially == Init => Ind
  <1>. SUFFICES ASSUME Init PROVE Ind
    OBVIOUS
  <1>1. TypeOK /\ NewestRowKept /\ Positioned
    BY InitTypes
  <1>2. log = <<>> /\ kept = {} /\ Seqs = {}
    BY DEF Init, ServerInit, Seqs
  <1>3. LogInv
    BY <1>2 DEF LogInv, SuffixKept, StampsInOrder, DeletedGone
  <1>4. PhaseInv
    BY DEF Init, PhaseInv
  <1>5. PositionInv
    BY <1>2, DeltaSyncAssumption DEF Init, PositionInv, NoMark, NoCursor, Unread
  <1>6. DataInv
    BY <1>2, DeltaSyncAssumption
    DEF Init, DataInv, ScreenInv, OpeningInv, MarkInv, CopyInv, FallbackInv, LoadingInv, AppliedInv,
        NoMark, Unread
  <1>7. PageInv
    BY DEF Init, PageInv, AskedInv, RowsInv, AnswerInv
  <1>. QED  BY <1>1, <1>3, <1>4, <1>5, <1>6, <1>7 DEF Ind, IInv

LEMMA Inductive == ASSUME NoGaps PROVE Ind /\ [Next]_vars => Ind'
  <1>. SUFFICES ASSUME Ind, [Next]_vars PROVE Ind'
    OBVIOUS
  <1>1. TypeOK' /\ NewestRowKept' /\ Positioned'
    BY NextTypes DEF Ind
  <1>2. LogInv'
    BY LogStep DEF Ind, IInv, LogTypeInv, TypeOK
  <1>3. PhaseInv' /\ PositionInv'
    BY Types, PhaseStep, PositionStep DEF Ind, IInv, PageInv
  <1>4. PageInv'
    BY Types, PageStep DEF Ind, IInv, PositionInv
  <1>. QED  BY <1>1, <1>2, <1>3, <1>4, DataStep DEF Ind, IInv

(* While the named gaps stay closed, a tab whose engine has a position has *)
(* on its screen every committed change up to it.                          *)
THEOREM NothingSkipped == NoGaps => (Spec => []CursorNeverSkips)
  <1>. SUFFICES ASSUME NoGaps PROVE Spec => []CursorNeverSkips
    OBVIOUS
  <1>1. Ind /\ [Next]_vars => Ind'
    BY Inductive
  <1>2. Ind => CursorNeverSkips
    BY DEF Ind, IInv, DataInv, ScreenInv, CursorNeverSkips, Covers, Current
  <1>. QED  BY Initially, <1>1, <1>2, PTL DEF Spec

(* And the position saved on the device is never ahead of the lists saved  *)
(* beside it, so a restart that starts from it misses nothing.             *)
THEOREM MarkBehindCopy == NoGaps => (Spec => []MarkNeverAhead)
  <1>. SUFFICES ASSUME NoGaps PROVE Spec => []MarkNeverAhead
    OBVIOUS
  <1>1. Ind /\ [Next]_vars => Ind'
    BY Inductive
  <1>2. Ind => MarkNeverAhead
    BY DEF Ind, IInv, DataInv, MarkInv, MarkNeverAhead, Covers, Current
  <1>. QED  BY Initially, <1>1, <1>2, PTL DEF Spec

=============================================================================
