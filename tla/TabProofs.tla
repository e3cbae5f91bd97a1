------------------------------ MODULE TabProofs ------------------------------
(***************************************************************************)
(* Proofs about the two models that build on the tab of DeltaSync. The     *)
(* first half is about SecondTab: without the named gaps, and with a page  *)
(* put into the shared lists always followed by its cursor, a mark that a  *)
(* start-up would use is never ahead of the lists two tabs share. The      *)
(* second half is about OptimisticEdits: without the named gaps, an edit   *)
(* that is over leaves no trace the sync does not mend, on the screen or   *)
(* in the saved copy.                                                      *)
(***************************************************************************)
EXTENDS SecondTab, OptimisticEdits, DeltaSyncProofs

-----------------------------------------------------------------------------
(* The second tab.                                                         *)

(* Both tabs' positions are within the log. A last page that is being read  *)
(* reaches as far as the other tab has read.                               *)
TabsPositionInv ==
    /\ other \in Nat \cup {Unread}
    /\ cursor <= Len(log) /\ mark.cursor <= Len(log) /\ next <= Len(log) /\ other <= Len(log)
    /\ phase \in {"copy", "loading"} => mark.cursor <= next /\ other <= next
    /\ phase = "attach" /\ Cardinality(rows) # PageSize =>
          other <= cursor \/ \E r \in rows : other <= r
    /\ phase \in {"answer", "applied"} => cursor <= next /\ (~more => other <= next)
    /\ mark.who \in Identities => mark.cursor >= 0

(* A mark that a start-up would use, and what it would show.               *)
TabsOpeningInv == cursor = Unread /\ mark.fresh /\ mark.who = who =>
    \A i \in Readable[who] : Current(log, table, screen[i], i, mark.cursor)
TabsMarkInv == phase # "applied" /\ mark.fresh /\ mark.who \in Identities =>
    \A i \in Readable[mark.who] : Current(log, table, saved[i], i, mark.cursor)

(* The shared lists are as new as the other tab's position too, except     *)
(* while this tab is on its way from the mark through pages the other one  *)
(* has read already.                                                       *)
Behind == cursor \in {Unread, mark.cursor} /\ (more \/ mark.cursor # next)
OtherInv == phase # "applied" /\ mark.fresh /\ mark.who = who /\ ~Behind /\ other >= 0 =>
    \A i \in Readable[who] : Current(log, table, saved[i], i, other)

TabsFallbackInv == loader = "fallback" /\ ~orphan => \A i \in fetched :
    /\ Current(log, table, got[i], i, mark.cursor)
    /\ Current(log, table, got[i], i, other)
    /\ cursor >= 0 => Current(log, table, got[i], i, cursor)

TabsDataInv ==
    /\ ScreenInv /\ TabsOpeningInv
    /\ CopyInv /\ TabsMarkInv /\ OtherInv
    /\ TabsFallbackInv /\ LoadingInv /\ AppliedInv

TabsInd ==
    /\ TypeOK /\ NewestRowKept /\ Positioned
    /\ LogInv /\ PhaseInv /\ PageInv
    /\ TabsPositionInv /\ TabsDataInv

(* A step of this tab or of the server.                                    *)
ThisTab == Next /\ UNCHANGED other /\ ~Interrupted

-----------------------------------------------------------------------------
(* The positions.                                                          *)

LEMMA TabsNumbers ==
  ASSUME TypeOK, TabsPositionInv
  PROVE  /\ cursor \in Int /\ mark.cursor \in Int /\ next \in Nat /\ Len(log) \in Nat
         /\ other \in Int /\ cursor >= -2
  BY PositionTypes DEF TabsPositionInv, Unread, TypeOK, TabTypeOK, NoCursor

(* A page that is not full holds the newest row.                           *)
LEMMA LastPage ==
  ASSUME TypeOK, NewestRowKept, AskedInv, phase = "page", cursor \in Nat, cursor < Len(log),
         Cardinality(PageRows(cursor)) # PageSize
  PROVE  Len(log) \in PageRows(cursor)
  <1>. DEFINE Before(q) == {p \in kept : cursor < p /\ p <= q}
              last == cursor + PageSize
  <1>1. PageSize \in Nat \ {0} /\ Len(log) \in Nat /\ kept \subseteq 1 .. Len(log)
    BY ChangeLogAssumption DEF TypeOK, ServerTypeOK, Seqs
  <1>2. \A s \in Int : cursor < s /\ s <= Len(log) => s \in kept
    BY <1>1 DEF AskedInv, Seqs
  <1>3. ASSUME NEW s \in Int, cursor < s, s <= Len(log)
        PROVE  Cardinality(Before(s)) = s - cursor
    <2>1. \A p \in (cursor + 1) .. s : p \in kept /\ cursor < p /\ p <= s
      BY <1>1, <1>2, <1>3
    <2>2. \A p \in kept : p \in Int
      BY <1>1
    <2>3. Before(s) = (cursor + 1) .. s
      BY <1>3, <2>1, <2>2
    <2>4. Cardinality((cursor + 1) .. s) = s - (cursor + 1) + 1
      BY <1>3, FS_Interval
    <2>5. s - (cursor + 1) + 1 = s - cursor
      BY <1>3
    <2>. HIDE DEF Before
    <2>. QED  BY <2>3, <2>4, <2>5
  <1>4. ASSUME last < Len(log) PROVE FALSE
    <2>1. PageRows(cursor) = (cursor + 1) .. last
      <3>1. ASSUME NEW s \in PageRows(cursor) PROVE s \in (cursor + 1) .. last
        <4>1. s \in Int /\ cursor < s /\ s <= Len(log) /\ Cardinality(Before(s)) <= PageSize
          BY <1>1 DEF PageRows
        <4>2. Cardinality(Before(s)) = s - cursor
          BY <1>3, <4>1
        <4>. HIDE DEF Before
        <4>. QED  BY <1>1, <4>1, <4>2
      <3>2. ASSUME NEW s \in (cursor + 1) .. last PROVE s \in PageRows(cursor)
        <4>1. s \in Int /\ cursor < s /\ s <= Len(log) /\ s - cursor <= PageSize
          BY <1>1, <1>4
        <4>2. s \in kept /\ Cardinality(Before(s)) = s - cursor
          BY <1>2, <1>3, <4>1
        <4>. QED  BY <4>1, <4>2 DEF PageRows
      <3>. QED  BY <3>1, <3>2
    <2>2. Cardinality((cursor + 1) .. last) = last - (cursor + 1) + 1
      BY <1>1, FS_Interval
    <2>. QED  BY <1>1, <2>1, <2>2
  <1>5. Len(log) - cursor <= PageSize
    BY <1>1, <1>4
  <1>6. Cardinality(Before(Len(log))) = Len(log) - cursor /\ Len(log) \in kept
    BY <1>1, <1>2, <1>3
  <1>. QED  BY <1>5, <1>6 DEF PageRows

LEMMA TabsPositionStep ==
  ASSUME TabsInd, ThisTab
  PROVE  TabsPositionInv'
  <1>. USE TabsNumbers DEF TabsInd
  <1>0. other' = other
    BY DEF ThisTab
  <1>1. ASSUME UNCHANGED <<cursor, mark, next, more, rows, log>>,
               phase' \in {"copy", "loading"} => phase \in {"copy", "loading"},
               phase' = "attach" => phase = "attach",
               phase' \in {"answer", "applied"} => phase \in {"answer", "applied"}
        PROVE  TabsPositionInv'
    BY <1>0, <1>1 DEF TabsPositionInv
  <1>2. ASSUME phase' \in {"idle", "boundary", "ask", "rejected", "page"}, UNCHANGED <<next, log>>,
               cursor' \in Int, mark'.cursor \in Int,
               cursor' <= Len(log), mark'.cursor <= Len(log),
               mark'.who \in Identities => mark'.cursor >= 0
        PROVE  TabsPositionInv'
    BY <1>0, <1>2 DEF TabsPositionInv
  <1>3. CASE Run
    BY <1>2, <1>3 DEF Run, StartCursor, TabsPositionInv, NoCursor, server, device
  <1>4. CASE Boundary
    <2>1. next' = Len(log)
      BY <1>4, Boundaries DEF Boundary, LogTypeInv, TypeOK
    <2>. QED  BY <1>0, <1>4, <2>1 DEF Boundary, TabsPositionInv, server, device
  <1>5. CASE FullLoad \/ Reload
    BY <1>1, <1>5 DEF FullLoad, Reload, StartLoad, server, device, tab
  <1>6. ASSUME SaveCursor(next, TRUE) \/ SaveCursor(next, FALSE), UNCHANGED <<next, log>>,
               phase' \in {"ask", "idle"}
        PROVE  TabsPositionInv'
    <2>1. NoMark.who = "nobody" /\ NoMark.cursor = -1
      BY DEF NoMark, NoCursor
    <2>2. cursor' = next /\ mark'.cursor \in {-1, mark.cursor, next}
      BY <1>6, <2>1 DEF SaveCursor
    <2>3. mark'.who \in Identities => mark'.cursor >= 0
      BY <1>6, <2>1, DeltaSyncAssumption DEF SaveCursor, TabsPositionInv
    <2>. QED  BY <1>2, <1>6, <2>2, <2>3 DEF TabsPositionInv
  <1>7. CASE LoadDone
    BY <1>1, <1>6, <1>7 DEF LoadDone, Throws, NextPage, Synced, server, PhaseInv
  <1>8. CASE ReadBounds
    BY <1>2, <1>8 DEF ReadBounds, TabsPositionInv, server, device, tab
  <1>9. CASE ReadPage
    <2>1. /\ UNCHANGED <<cursor, mark, next, more, log>> /\ phase' = "attach"
          /\ phase = "page" /\ rows' = PageRows(cursor) /\ cursor \in Nat
      BY <1>9 DEF ReadPage, server, device, tab, Positioned, Positions
    <2>2. ASSUME cursor < other, Cardinality(rows') # PageSize PROVE \E r \in rows' : other <= r
      <3>1. cursor < Len(log)
        BY <2>2 DEF TabsPositionInv
      <3>2. Len(log) \in rows'
        BY <2>1, <2>2, <3>1, LastPage DEF PageInv
      <3>. QED  BY <3>2 DEF TabsPositionInv
    <2>. QED  BY <1>0, <2>1, <2>2 DEF TabsPositionInv
  <1>10. CASE ReadRecords
    <2>1. /\ UNCHANGED <<cursor, mark, log>> /\ phase = "attach" /\ phase' = "answer"
          /\ ~more' => Cardinality(rows) # PageSize
      BY <1>10 DEF ReadRecords, server, device, tab
    <2>2. rows \subseteq 1 .. Len(log) /\ \A r \in rows : r > cursor
      BY <2>1 DEF PageInv, RowsInv, Seqs
    <2>3. CASE rows = {}
      BY <1>0, <1>10, <2>1, <2>3 DEF ReadRecords, TabsPositionInv
    <2>4. CASE rows # {}
      <3>1. next' \in rows /\ \A r \in rows : r <= next'
        BY <1>10, <2>4 DEF ReadRecords, IsLast
      <3>2. next' \in Int /\ next' <= Len(log) /\ cursor <= next'
        BY <2>2, <3>1
      <3>3. ~more' => other <= next'
        BY <2>1, <2>2, <3>1, <3>2 DEF TabsPositionInv
      <3>. QED  BY <1>0, <2>1, <3>2, <3>3 DEF TabsPositionInv
    <2>. QED  BY <2>3, <2>4
  <1>11. CASE Rejected
    BY <1>2, <1>11, DeltaSyncAssumption DEF Rejected, Throws, NoMark, NoCursor, TabsPositionInv, server
  <1>12. CASE Apply
    BY <1>1, <1>12 DEF Apply, Throws, server
  <1>13. CASE SavePage
    BY <1>6, <1>13 DEF SavePage, NextPage, Synced, server
  <1>14. CASE FetchFails
    BY <1>2, <1>14 DEF FetchFails, Throws, TabsPositionInv, server, device, tab
  <1>15. CASE Restart \/ \E w \in Identities : ChangeAccess(w)
    BY <1>2, <1>15 DEF Restart, ChangeAccess, NoPass, TabsPositionInv, Unread, server, device
  <1>16. ASSUME NEW w \in Identities, SignInAgain(w) PROVE TabsPositionInv'
    <2>1. mark'.who = "nobody" /\ mark'.cursor = -1 /\ UNCHANGED <<next, more, log>>
      BY <1>16 DEF SignInAgain, NoMark, NoCursor, server
    <2>2. CASE w = who
      BY <1>0, <1>16, <2>1, <2>2, DeltaSyncAssumption DEF SignInAgain, TabsPositionInv
    <2>3. CASE w # who
      BY <1>2, <1>16, <2>1, <2>3, DeltaSyncAssumption DEF SignInAgain, NoPass, Unread
    <2>. QED  BY <2>2, <2>3
  <1>17. CASE MarkAges
    <2>1. mark'.cursor = mark.cursor /\ mark'.who = mark.who
      BY <1>17 DEF MarkAges, TypeOK, DeviceTypeOK
    <2>. QED  BY <1>0, <1>17, <2>1 DEF MarkAges, TabsPositionInv, server, tab, pass
  <1>18. CASE RenewUser \/ RunAgain \/ \E i \in Items : LoadFail(i) \/ LoadFetch(i) \/ LoadApply(i)
    BY <1>1, <1>18 DEF RenewUser, RunAgain, LoadFail, LoadFetch, LoadApply, server, device, tab, pass
  <1>19. ASSUME NEW i \in Items, Write(i) PROVE TabsPositionInv'
    <2>1. Len(log') = Len(log) + 1
      BY <1>19, WriteLog, CommitLog DEF LogTypeInv, TypeOK
    <2>2. UNCHANGED <<cursor, mark, next, more, rows, phase>>
      BY <1>19 DEF Write, device, tab, pass
    <2>. QED  BY <1>0, <2>1, <2>2 DEF TabsPositionInv
  <1>20. ASSUME NEW cutoff, PruneLog(cutoff) PROVE TabsPositionInv'
    BY <1>1, <1>20 DEF PruneLog, Prune, device, tab, pass
  <1>. QED
    BY <1>3, <1>4, <1>5, <1>7, <1>8, <1>9, <1>10, <1>11, <1>12, <1>13, <1>14, <1>15, <1>16,
       <1>17, <1>18, <1>19, <1>20
    DEF ThisTab, Next, ServerNext, EngineNext, Disturbance

-----------------------------------------------------------------------------
(* The lists, while this tab or the server takes a step.                   *)

LEMMA TabsSameScreen ==
  ASSUME ScreenInv, TabsOpeningInv, UNCHANGED <<log, table, who, screen, cursor, mark>>
  PROVE  ScreenInv' /\ TabsOpeningInv'
  BY DEF ScreenInv, TabsOpeningInv

LEMMA TabsSameCopy ==
  ASSUME CopyInv, TabsMarkInv, OtherInv,
         UNCHANGED <<log, table, who, saved, cursor, mark, next, more, other>>,
         intact' => intact, phase = "applied" => phase' = "applied"
  PROVE  CopyInv' /\ TabsMarkInv' /\ OtherInv'
  <1>1. CopyInv' /\ TabsMarkInv'
    BY DEF CopyInv, TabsMarkInv
  <1>2. Behind' <=> Behind
    BY DEF Behind
  <1>. QED  BY <1>1, <1>2 DEF OtherInv

LEMMA TabsSameLoads ==
  ASSUME TabsFallbackInv, LoadingInv, phase' = "loading" => phase = "loading",
         UNCHANGED <<log, table, who, screen, saved, intact, cursor, mark, next, loader, orphan,
                     todo, fetched, got, failed, other>>
  PROVE  TabsFallbackInv' /\ LoadingInv'
  BY DEF TabsFallbackInv, LoadingInv

LEMMA TabsNoLoad ==
  ASSUME loader' # "fallback" \/ orphan', phase' # "loading"
  PROVE  TabsFallbackInv' /\ LoadingInv'
  BY DEF TabsFallbackInv, LoadingInv

LEMMA TabsRun == ASSUME NoGaps, TabsInd, Run, UNCHANGED other PROVE TabsDataInv'
  <1>. USE TabsNumbers DEF TabsInd, TabsDataInv
  <1>1. /\ UNCHANGED <<log, table, who, screen, saved, mark, intact, next, more, loader, orphan,
                       fetched, got>>
        /\ phase = "idle" /\ phase' \in {"boundary", "ask"}
    BY DEF Run, server, device, load
  <1>2. /\ cursor' # Unread
        /\ \/ cursor' = cursor
           \/ cursor = Unread /\ cursor' = NoCursor
           \/ cursor = Unread /\ cursor' = mark.cursor /\ mark.who = who /\ mark.fresh
    BY DEF Run, StartCursor, NoCursor, Unread, TypeOK, DeviceTypeOK
  <1>3. ScreenInv' /\ TabsOpeningInv'
    BY <1>1, <1>2 DEF ScreenInv, TabsOpeningInv, NoCursor
  <1>4. TabsMarkInv'
    BY <1>1 DEF TabsMarkInv
  <1>5. CopyInv'
    BY <1>1, <1>2 DEF TabsMarkInv, CopyInv, NoCursor, TypeOK, TabTypeOK
  <1>6. OtherInv'
    <2>1. mark.fresh /\ mark.who = who /\ cursor = Unread => cursor' = mark.cursor
      BY DEF Run, StartCursor
    <2>2. mark.fresh /\ mark.who = who /\ ~Behind' => ~Behind
      BY <1>1, <1>2, <2>1 DEF Behind
    <2>. QED  BY <1>1, <2>2 DEF OtherInv
  <1>7. TabsFallbackInv' /\ LoadingInv'
    <2>1. loader = "fallback" => cursor' = NoCursor
      BY DEF Run, NoGaps
    <2>. QED  BY <1>1, <2>1 DEF TabsFallbackInv, LoadingInv, NoCursor
  <1>. QED  BY <1>1, <1>3, <1>4, <1>5, <1>6, <1>7, NotApplied

LEMMA TabsBoundary == ASSUME TabsInd, Boundary, UNCHANGED other PROVE TabsDataInv'
  <1>. USE TabsNumbers DEF TabsInd, TabsDataInv
  <1>1. /\ UNCHANGED <<log, table, who, screen, saved, cursor, mark, loader, orphan, fetched, got>>
        /\ phase = "boundary" /\ phase' = "copy" /\ cursor = NoCursor
    BY DEF Boundary, server, device, load, PhaseInv
  <1>2. CopyInv' /\ TabsMarkInv'
    BY <1>1 DEF CopyInv, TabsMarkInv, NoCursor
  <1>3. OtherInv'
    <2>1. mark.who = who => ~Behind
      BY <1>1 DEF Behind, TabsPositionInv, TypeOK, TabTypeOK, NoCursor, Unread
    <2>. QED  BY <1>1, <2>1 DEF OtherInv
  <1>4. TabsFallbackInv' /\ LoadingInv'
    BY <1>1 DEF TabsFallbackInv, LoadingInv
  <1>. QED  BY <1>1, <1>2, <1>3, <1>4, TabsSameScreen, NotApplied

LEMMA TabsFullLoad == ASSUME TabsInd, FullLoad, UNCHANGED other PROVE TabsDataInv'
  <1>. USE DEF TabsInd, TabsDataInv
  <1>1. /\ UNCHANGED <<log, table, who, saved, cursor, mark, intact, next, more>>
        /\ phase = "copy" /\ phase' = "loading" /\ cursor = NoCursor
        /\ loader' = "pass" /\ fetched' = {} /\ todo' = Readable[who]
    BY DEF FullLoad, StartLoad, server, device, PhaseInv
  <1>2. ScreenInv' /\ TabsOpeningInv'
    BY <1>1 DEF ScreenInv, TabsOpeningInv, NoCursor, Unread
  <1>3. TabsFallbackInv' /\ LoadingInv'
    BY <1>1 DEF TabsFallbackInv, LoadingInv
  <1>. QED  BY <1>1, <1>2, <1>3, TabsSameCopy, NotApplied

LEMMA TabsReload == ASSUME NoGaps, TabsInd, Reload, UNCHANGED other PROVE TabsDataInv'
  <1>. USE DEF TabsInd, TabsDataInv
  <1>1. phase' = "idle" /\ phase = "idle" /\ UNCHANGED <<next, more>>
    BY DEF Reload, StartLoad, PhaseInv, NoGaps
  <1>2. CASE loader = "none"
    <2>1. /\ UNCHANGED <<log, table, who, saved, cursor, mark, intact>>
          /\ fetched' = {}
          /\ \A i \in Items : i \in Readable[who] => screen'[i] = screen[i]
      BY <1>2 DEF Reload, StartLoad, server, device
    <2>2. ScreenInv' /\ TabsOpeningInv'
      BY <2>1, ReadableItems DEF ScreenInv, TabsOpeningInv, TypeOK, TabTypeOK
    <2>3. TabsFallbackInv' /\ LoadingInv'
      BY <1>1, <2>1 DEF TabsFallbackInv, LoadingInv
    <2>. QED  BY <1>1, <2>1, <2>2, <2>3, TabsSameCopy, NotApplied
  <1>3. CASE loader # "none"
    <2>1. UNCHANGED <<server, device, tab, load>>
      BY <1>3 DEF Reload
    <2>. QED
      BY <1>1, <2>1, TabsSameScreen, TabsSameCopy, TabsSameLoads, NotApplied
      DEF server, device, tab, load
  <1>. QED  BY <1>2, <1>3

LEMMA TabsLoadFetch ==
  ASSUME TabsInd, NEW i \in Items, LoadFetch(i), UNCHANGED other
  PROVE  TabsDataInv'
  <1>. USE DEF TabsInd, TabsDataInv
  <1>1. /\ UNCHANGED <<log, table, who, screen, saved, cursor, mark, intact, phase, next, more,
                       loader, orphan, todo, failed>>
        /\ fetched' = fetched \cup {i}
    BY DEF LoadFetch, server, device, tab, pass
  <1>2. got'[i] = table[i] /\ \A k \in fetched : k # i => got'[k] = got[k]
    BY DEF LoadFetch, TypeOK, LoadTypeOK
  <1>3. \A c : Current(log, table, got'[i], i, c)
    BY <1>2, JustRead
  <1>4. TabsFallbackInv'
    BY <1>1, <1>2, <1>3 DEF TabsFallbackInv
  <1>5. LoadingInv'
    BY <1>1, <1>2, <1>3 DEF LoadingInv
  <1>. QED  BY <1>1, <1>4, <1>5, TabsSameScreen, TabsSameCopy, SameApplied

LEMMA TabsLoadApply ==
  ASSUME NoGaps, TabsInd, NEW i \in Items, LoadApply(i), UNCHANGED other
  PROVE  TabsDataInv'
  <1>. USE TabsNumbers DEF TabsInd, TabsDataInv
  <1>1. /\ UNCHANGED <<log, table, who, cursor, mark, phase, next, more, loader, orphan, failed>>
        /\ i \in fetched /\ i \in todo
        /\ todo' = todo \ {i} /\ fetched' = fetched \ {i}
        /\ \A k \in fetched' : got'[k] = got[k]
    BY DEF LoadApply, server, pass, TypeOK, LoadTypeOK
  <1>2. CASE orphan
    <2>1. UNCHANGED <<screen, saved, intact>> /\ orphan'
      BY <1>1, <1>2 DEF LoadApply
    <2>2. phase' # "loading"
      BY <1>1, <1>2 DEF PhaseInv
    <2>. QED  BY <1>1, <2>1, <2>2, TabsSameScreen, TabsSameCopy, TabsNoLoad, SameApplied
  <1>3. CASE ~orphan
    <2>1. /\ screen'[i] = got[i] /\ \A k \in Items : k # i => screen'[k] = screen[k]
          /\ \A k \in Items : k # i => saved'[k] = saved[k]
          /\ intact' => intact
      <3>1. Show(i, got[i])
        BY <1>3 DEF LoadApply
      <3>2. screen'[i] = got[i] /\ \A k \in Items : k # i => screen'[k] = screen[k]
        BY <3>1 DEF Show, NoGaps, TypeOK, TabTypeOK
      <3>. QED  BY <1>3, <3>2 DEF LoadApply, TypeOK, TabTypeOK, DeviceTypeOK
    <2>2. saved'[i] = got[i] \/ (saved'[i] = saved[i] /\ ~intact')
      BY <1>3 DEF LoadApply, NoGaps, TypeOK, DeviceTypeOK
    <2>3. loader \in {"pass", "fallback"}
      BY <1>1 DEF PhaseInv, TypeOK, LoadTypeOK
    <2>4. phase # "applied" /\ (Behind' <=> Behind)
      BY <1>1, <1>3, <2>3 DEF PhaseInv, Behind
    <2>5. Readable[who] \subseteq Items /\ \A w \in Identities : Readable[w] \subseteq Items
      BY ReadableItems DEF TypeOK, TabTypeOK
    <2>6. ASSUME Current(log, table, got[i], i, mark.cursor), Current(log, table, got[i], i, other)
          PROVE  TabsMarkInv' /\ OtherInv'
      <3>1. TabsMarkInv'
        BY <1>1, <2>1, <2>2, <2>5, <2>6 DEF TabsMarkInv
      <3>2. OtherInv'
        BY <1>1, <2>1, <2>2, <2>4, <2>5, <2>6 DEF OtherInv
      <3>. QED  BY <3>1, <3>2
    <2>7. CASE loader = "pass"
      <3>1. phase = "loading" /\ cursor = NoCursor /\ mark.cursor <= next /\ other <= next
        BY <1>3, <2>7 DEF PhaseInv, TabsPositionInv
      <3>2. Current(log, table, got[i], i, next)
        BY <1>1, <3>1 DEF LoadingInv
      <3>3. Current(log, table, got[i], i, mark.cursor) /\ Current(log, table, got[i], i, other)
        BY <3>1, <3>2, Earlier
      <3>4. ScreenInv' /\ TabsOpeningInv' /\ CopyInv'
        BY <1>1, <3>1 DEF ScreenInv, TabsOpeningInv, CopyInv, NoCursor, Unread
      <3>5. LoadingInv'
        BY <1>1, <2>1, <2>2, <2>5, <3>1, <3>2 DEF LoadingInv
      <3>6. TabsFallbackInv'
        BY <1>1, <2>7 DEF TabsFallbackInv
      <3>. QED  BY <1>1, <2>4, <2>6, <3>3, <3>4, <3>5, <3>6, NotApplied
    <2>8. CASE loader = "fallback"
      <3>1. phase # "loading"
        BY <1>3, <2>8 DEF PhaseInv
      <3>2. /\ Current(log, table, got[i], i, mark.cursor)
            /\ Current(log, table, got[i], i, other)
            /\ cursor >= 0 => Current(log, table, got[i], i, cursor)
        BY <1>1, <1>3, <2>8 DEF TabsFallbackInv
      <3>3. ScreenInv' /\ TabsOpeningInv'
        BY <1>1, <2>1, <2>5, <3>2 DEF ScreenInv, TabsOpeningInv
      <3>4. CopyInv'
        BY <1>1, <2>1, <2>2, <2>5, <3>2 DEF CopyInv
      <3>5. TabsFallbackInv' /\ LoadingInv'
        BY <1>1, <3>1 DEF TabsFallbackInv, LoadingInv
      <3>. QED  BY <1>1, <2>4, <2>6, <3>2, <3>3, <3>4, <3>5, NotApplied
    <2>. QED  BY <2>3, <2>7, <2>8
  <1>. QED  BY <1>2, <1>3

LEMMA TabsLoadFail ==
  ASSUME NoGaps, TabsInd, NEW i \in Items, LoadFail(i), UNCHANGED other
  PROVE  TabsDataInv'
  <1>. USE DEF TabsInd, TabsDataInv
  <1>1. /\ UNCHANGED <<log, table, who, screen, saved, cursor, mark, intact, phase, next, more,
                       loader, orphan>>
        /\ fetched' = fetched \ {i}
        /\ \A k \in fetched' : got'[k] = got[k]
    BY DEF LoadFail, NoGaps, server, device, pass, TypeOK, LoadTypeOK
  <1>2. phase = "loading" => failed'
    BY DEF LoadFail, PhaseInv
  <1>3. TabsFallbackInv'
    BY <1>1 DEF TabsFallbackInv
  <1>4. LoadingInv'
    BY <1>1, <1>2 DEF LoadingInv
  <1>. QED  BY <1>1, <1>3, <1>4, TabsSameScreen, TabsSameCopy, SameApplied

(* A full copy, or a page, is in the lists and its cursor is saved: unless  *)
(* the mark is gone or left as it was, it stands at that cursor.           *)
LEMMA TabsSaved ==
  ASSUME TabsInd, UNCHANGED <<log, table, who, saved, intact, next, more, other>>,
         NEW whole \in BOOLEAN, SaveCursor(next, whole),
         \A i \in Readable[who] : intact => Current(log, table, saved[i], i, next),
         faults' # faults => phase = "loading",
         ~more \/ phase = "loading" => other <= next
  PROVE  CopyInv' /\ TabsMarkInv' /\ OtherInv'
  <1>. USE TabsNumbers DEF TabsInd, TabsDataInv
  <1>1. cursor' = next /\ next >= 0
    BY DEF SaveCursor
  <1>2. CopyInv'
    BY <1>1 DEF CopyInv
  <1>3. CASE mark' = NoMark
    BY <1>2, <1>3, DeltaSyncAssumption DEF TabsMarkInv, OtherInv, NoMark, TypeOK, TabTypeOK
  <1>4. CASE mark' = mark /\ Fault
    <2>0. phase = "loading" /\ cursor = NoCursor
      BY <1>4 DEF Fault, TypeOK, EnvTypeOK, PhaseInv
    <2>1. TabsMarkInv'
      BY <1>4, <2>0 DEF TabsMarkInv
    <2>2. mark.who = who => ~Behind
      BY <2>0 DEF Behind, TabsPositionInv, TypeOK, TabTypeOK, NoCursor, Unread
    <2>. QED  BY <1>2, <1>4, <2>0, <2>1, <2>2 DEF OtherInv
  <1>5. CASE intact /\ mark'.who = who /\ mark'.cursor = next
    <2>1. TabsMarkInv'
      BY <1>5 DEF TabsMarkInv
    <2>2. ~Behind' => ~more
      BY <1>1, <1>5 DEF Behind
    <2>3. ASSUME ~more, NEW i \in Readable[who] PROVE Current(log, table, saved[i], i, other)
      BY <1>5, <2>3, Earlier
    <2>. QED  BY <1>2, <1>5, <2>1, <2>2, <2>3 DEF OtherInv
  <1>6. mark' = NoMark \/ (mark' = mark /\ Fault) \/ (intact /\ mark'.who = who /\ mark'.cursor = next)
    BY DEF SaveCursor
  <1>. QED  BY <1>3, <1>4, <1>5, <1>6

LEMMA TabsLoadDone == ASSUME TabsInd, LoadDone, UNCHANGED other PROVE TabsDataInv'
  <1>. USE TabsNumbers DEF TabsInd, TabsDataInv
  <1>1. /\ UNCHANGED <<log, table, who, screen, saved, intact, next, more>>
        /\ loader' = "none" /\ todo = {}
    BY DEF LoadDone, server
  <1>2. CASE UNCHANGED <<mark, cursor, phase>> /\ phase # "loading"
    BY <1>1, <1>2, TabsSameScreen, TabsSameCopy, TabsNoLoad, SameApplied
  <1>3. CASE UNCHANGED <<mark, cursor>> /\ phase = "loading" /\ phase' = "idle"
    BY <1>1, <1>3, TabsSameScreen, TabsSameCopy, TabsNoLoad, NotApplied
  <1>4. CASE phase = "loading" /\ ~failed /\ SaveCursor(next, TRUE) /\ phase' \in {"ask", "idle"}
    <2>1. \A k \in Readable[who] : /\ Current(log, table, screen[k], k, next)
                                   /\ intact => Current(log, table, saved[k], k, next)
      BY <1>1, <1>4 DEF LoadingInv
    <2>2. other <= next
      BY <1>4 DEF TabsPositionInv
    <2>3. CopyInv' /\ TabsMarkInv' /\ OtherInv'
      BY <1>1, <1>4, <2>1, <2>2, TabsSaved
    <2>4. ScreenInv' /\ TabsOpeningInv'
      BY <1>1, <1>4, <2>1 DEF SaveCursor, ScreenInv, TabsOpeningInv, Unread
    <2>. QED  BY <1>1, <1>4, <2>3, <2>4, TabsNoLoad, NotApplied
  <1>. QED
    BY <1>1, <1>2, <1>3, <1>4 DEF LoadDone, Throws, NextPage, Synced, PhaseInv

LEMMA TabsReadBounds ==
  ASSUME TabsInd, ReadBounds \/ ReadPage, UNCHANGED other
  PROVE  TabsDataInv'
  <1>. USE DEF TabsInd, TabsDataInv
  <1>1. /\ UNCHANGED <<log, table, who, screen, saved, cursor, mark, intact, next, more, loader,
                       orphan, todo, fetched, got, failed>>
        /\ phase # "applied" /\ phase' \in {"rejected", "page", "attach"}
    BY DEF ReadBounds, ReadPage, server, device, tab, load
  <1>. QED  BY <1>1, TabsSameScreen, TabsSameCopy, TabsSameLoads, NotApplied

(* A page that ends the catching up at the mark is empty: the other tab is  *)
(* not ahead of the mark.                                                  *)
LEMMA TabsReadRecords == ASSUME TabsInd, ReadRecords, UNCHANGED other PROVE TabsDataInv'
  <1>. USE TabsNumbers DEF TabsInd, TabsDataInv
  <1>1. /\ UNCHANGED <<log, table, who, screen, saved, cursor, mark, intact, loader, orphan,
                       fetched, got>>
        /\ phase = "attach" /\ phase' = "answer" /\ cursor \in Nat
    BY DEF ReadRecords, server, device, tab, load, Positioned, Positions
  <1>2. TabsFallbackInv' /\ LoadingInv'
    BY <1>1 DEF TabsFallbackInv, LoadingInv
  <1>3. CopyInv' /\ TabsMarkInv'
    BY <1>1 DEF CopyInv, TabsMarkInv
  <1>4. ASSUME mark.fresh, mark.who = who, Behind, ~Behind', other >= 0, NEW i \in Readable[who]
        PROVE  Current(log, table, saved[i], i, other)
    <2>1. cursor = mark.cursor /\ ~more' /\ next' = cursor
      BY <1>1, <1>4 DEF Behind, Unread
    <2>2. \A r \in rows : r > cursor /\ r \in Int
      BY <1>1 DEF PageInv, RowsInv, Seqs
    <2>3. rows = {}
      BY <2>1, <2>2 DEF ReadRecords, IsLast
    <2>4. Cardinality(rows) # PageSize
      BY <2>1 DEF ReadRecords
    <2>5. other <= cursor
      BY <1>1, <2>3, <2>4 DEF TabsPositionInv
    <2>6. Current(log, table, saved[i], i, mark.cursor)
      BY <1>1, <1>4 DEF TabsMarkInv, TypeOK, TabTypeOK
    <2>. QED  BY <2>1, <2>5, <2>6, Earlier
  <1>5. OtherInv'
    BY <1>1, <1>4 DEF OtherInv
  <1>. QED  BY <1>1, <1>2, <1>3, <1>5, TabsSameScreen, NotApplied

LEMMA TabsRejected == ASSUME TabsInd, Rejected, UNCHANGED other PROVE TabsDataInv'
  <1>. USE DEF TabsInd, TabsDataInv
  <1>1. /\ cursor' = NoCursor /\ mark' = NoMark /\ phase' \in {"boundary", "idle"}
        /\ UNCHANGED <<who, loader, orphan>>
    BY DEF Rejected, Throws, load
  <1>2. ScreenInv' /\ TabsOpeningInv' /\ TabsMarkInv' /\ CopyInv' /\ OtherInv'
    BY <1>1, DeltaSyncAssumption
    DEF ScreenInv, TabsOpeningInv, TabsMarkInv, CopyInv, OtherInv, NoMark, NoCursor, Unread,
        TypeOK, TabTypeOK
  <1>3. loader # "fallback" \/ orphan
    BY DEF Rejected, PhaseInv
  <1>. QED  BY <1>1, <1>2, <1>3, TabsNoLoad, NotApplied

LEMMA TabsApply == ASSUME TabsInd, Apply, UNCHANGED other, ~Interrupted PROVE TabsDataInv'
  <1>. USE TabsNumbers DEF TabsInd, TabsDataInv
  <1>1. /\ UNCHANGED <<log, table, who, cursor, mark, next, more, loader, orphan>>
        /\ phase = "answer"
        /\ \A i \in Items : screen'[i] = IF i \in DOMAIN answer THEN answer[i] ELSE screen[i]
    BY DEF Apply, server, load
  <1>2. PICK stored \in SUBSET DOMAIN answer :
          /\ saved' = [i \in Items |-> IF i \in stored THEN answer[i] ELSE saved[i]]
          /\ intact' = (intact /\ (DOMAIN answer \ stored) \subseteq Invoices)
          /\ IF (DOMAIN answer \ stored) \cap Invoices = {}
             THEN phase' = "applied" /\ UNCHANGED <<again, opener>> ELSE Throws
    BY DEF Apply
  <1>3. /\ who \in Identities /\ Readable[who] \subseteq Items
        /\ cursor >= 0 /\ cursor <= next
    BY <1>1, ReadableItems DEF TypeOK, TabTypeOK, Positioned, Positions, TabsPositionInv
  <1>4. /\ DOMAIN answer \subseteq Readable[who]
        /\ \A i \in DOMAIN answer : Current(log, table, answer[i], i, next)
        /\ \A i \in Readable[who] \ DOMAIN answer : Settled(log, i, next) => Settled(log, i, cursor)
    BY <1>1 DEF PageInv, AnswerInv
  <1>5. \A i \in DOMAIN answer : Current(log, table, answer[i], i, cursor)
    BY <1>3, <1>4, Earlier
  <1>6. ScreenInv' /\ TabsOpeningInv'
    BY <1>1, <1>3, <1>5 DEF ScreenInv, TabsOpeningInv, Unread
  <1>7. CopyInv'
    BY <1>1, <1>2, <1>3, <1>5 DEF CopyInv
  <1>8. phase' \in {"applied", "idle"} /\ (loader # "fallback" \/ orphan)
    BY <1>1, <1>2 DEF Throws, PhaseInv
  <1>9. TabsMarkInv' /\ OtherInv'
    <2>1. phase' = "idle" => saved' = saved
      BY <1>1 DEF Interrupted
    <2>2. Behind' <=> Behind
      BY <1>1 DEF Behind
    <2>. QED  BY <1>1, <1>8, <2>1, <2>2 DEF TabsMarkInv, OtherInv
  <1>10. AppliedInv'
    <2>1. SUFFICES ASSUME phase' = "applied", NEW i \in Readable[who]
                   PROVE  /\ Current(log, table, screen'[i], i, next)
                          /\ intact' => Current(log, table, saved'[i], i, next)
      BY <1>1 DEF AppliedInv
    <2>2. (DOMAIN answer \ stored) \cap Invoices = {}
      BY <1>2, <2>1 DEF Throws
    <2>3. intact' => intact /\ stored = DOMAIN answer
      BY <1>2, <2>2
    <2>4. CASE i \in DOMAIN answer
      BY <1>1, <1>2, <1>3, <1>4, <2>1, <2>3, <2>4
    <2>5. CASE i \notin DOMAIN answer
      <3>1. Current(log, table, screen[i], i, cursor)
        BY <1>3, <2>1 DEF ScreenInv
      <3>2. intact => Current(log, table, saved[i], i, cursor)
        BY <1>3, <2>1 DEF CopyInv
      <3>3. Settled(log, i, next) => Settled(log, i, cursor)
        BY <1>4, <2>1, <2>5
      <3>4. screen'[i] = screen[i] /\ (intact' => saved'[i] = saved[i])
        BY <1>1, <1>2, <1>3, <2>1, <2>5
      <3>. QED  BY <2>3, <3>1, <3>2, <3>3, <3>4 DEF Current
    <2>. QED  BY <2>4, <2>5
  <1>. QED  BY <1>6, <1>7, <1>8, <1>9, <1>10, <1>1, TabsNoLoad

LEMMA TabsSavePage == ASSUME TabsInd, SavePage, UNCHANGED other, ~Interrupted PROVE TabsDataInv'
  <1>. USE TabsNumbers DEF TabsInd, TabsDataInv
  <1>1. /\ UNCHANGED <<log, table, who, screen, saved, intact, next, more, loader, orphan>>
        /\ phase = "applied" /\ phase' \in {"ask", "idle"}
        /\ faults' = faults /\ SaveCursor(next, FALSE)
    BY DEF SavePage, NextPage, Synced, Interrupted, server, load
  <1>2. \A i \in Readable[who] : /\ Current(log, table, screen[i], i, next)
                                 /\ intact => Current(log, table, saved[i], i, next)
    BY <1>1 DEF AppliedInv
  <1>3. ~more => other <= next
    BY <1>1 DEF TabsPositionInv
  <1>4. CopyInv' /\ TabsMarkInv' /\ OtherInv'
    BY <1>1, <1>2, <1>3, TabsSaved
  <1>5. ScreenInv' /\ TabsOpeningInv'
    BY <1>1, <1>2 DEF SaveCursor, ScreenInv, TabsOpeningInv, Unread
  <1>6. loader # "fallback" \/ orphan
    BY <1>1 DEF PhaseInv
  <1>. QED  BY <1>1, <1>4, <1>5, <1>6, TabsNoLoad, NotApplied

LEMMA TabsFetchFails == ASSUME TabsInd, FetchFails, UNCHANGED other PROVE TabsDataInv'
  <1>1. /\ UNCHANGED <<log, table, who, screen, saved, cursor, mark, intact, next, more, loader,
                       orphan, todo, fetched, got, failed>>
        /\ phase # "applied" /\ phase' = "idle"
    BY DEF FetchFails, Throws, Waiting, server, device, tab, load
  <1>. QED
    BY <1>1, TabsSameScreen, TabsSameCopy, TabsSameLoads, NotApplied DEF TabsInd, TabsDataInv

LEMMA TabsRestart == ASSUME TabsInd, Restart, UNCHANGED other, ~Interrupted PROVE TabsDataInv'
  <1>. USE DEF TabsInd, TabsDataInv
  <1>1. /\ UNCHANGED <<log, table, who, saved, mark, next, more>>
        /\ screen' = saved /\ cursor' = Unread /\ phase' = "idle" /\ loader' = "none"
    BY DEF Restart, NoPass, server, device
  <1>2. phase # "applied"
    <2>1. restarts' # restarts
      BY DEF Restart, Restarts, TypeOK, EnvTypeOK
    <2>. QED  BY <2>1 DEF Interrupted
  <1>3. ScreenInv' /\ CopyInv'
    BY <1>1 DEF ScreenInv, CopyInv, Unread
  <1>4. TabsOpeningInv' /\ TabsMarkInv'
    BY <1>1, <1>2 DEF TabsOpeningInv, TabsMarkInv, TypeOK, TabTypeOK
  <1>5. OtherInv'
    <2>1. ~Behind' => ~Behind
      BY <1>1 DEF Behind
    <2>. QED  BY <1>1, <1>2, <2>1 DEF OtherInv
  <1>. QED  BY <1>1, <1>3, <1>4, <1>5, TabsNoLoad, NotApplied

LEMMA TabsChangeAccess ==
  ASSUME NoGaps, TabsInd, NEW w \in Identities, ChangeAccess(w), UNCHANGED other, ~Interrupted
  PROVE  TabsDataInv'
  <1>. USE DEF TabsInd, TabsDataInv
  <1>1. /\ UNCHANGED <<log, table, saved, mark, loader>>
        /\ who' = w /\ mark.who # w /\ cursor' = Unread /\ phase' = "idle"
        /\ orphan' = (loader # "none")
    BY DEF ChangeAccess, NoPass, NoGaps, server, device
  <1>2. phase # "applied"
    <2>1. restarts' # restarts
      BY DEF ChangeAccess, Restarts, TypeOK, EnvTypeOK
    <2>. QED  BY <2>1 DEF Interrupted
  <1>3. ScreenInv' /\ TabsOpeningInv' /\ TabsMarkInv' /\ CopyInv' /\ OtherInv'
    BY <1>1, <1>2 DEF ScreenInv, TabsOpeningInv, TabsMarkInv, CopyInv, OtherInv, Unread
  <1>. QED  BY <1>1, <1>3, TabsNoLoad, NotApplied

LEMMA TabsSignIn ==
  ASSUME NoGaps, TabsInd, NEW w \in Identities, SignInAgain(w), UNCHANGED other
  PROVE  TabsDataInv'
  <1>. USE DEF TabsInd, TabsDataInv
  <1>1. /\ who' = w /\ w # who /\ mark' = NoMark /\ cursor' = Unread /\ phase' = "idle"
        /\ orphan' = (loader # "none") /\ loader' = loader
    BY DEF SignInAgain, NoPass, NoGaps
  <1>2. ScreenInv' /\ TabsOpeningInv' /\ TabsMarkInv' /\ CopyInv' /\ OtherInv'
    BY <1>1, DeltaSyncAssumption
    DEF ScreenInv, TabsOpeningInv, TabsMarkInv, CopyInv, OtherInv, Unread, NoMark
  <1>. QED  BY <1>1, <1>2, TabsNoLoad, NotApplied

LEMMA TabsRenewUser == ASSUME NoGaps, TabsInd, RenewUser, UNCHANGED other PROVE TabsDataInv'
  <1>. USE DEF TabsInd, TabsDataInv
  <1>1. /\ UNCHANGED <<log, table, who, screen, saved, cursor, mark, intact, phase, next, more>>
        /\ loader = "fallback" /\ orphan' /\ ~orphan
    BY DEF RenewUser, NoGaps, server, device, tab, pass
  <1>2. phase' # "loading"
    BY <1>1 DEF PhaseInv
  <1>. QED  BY <1>1, <1>2, TabsSameScreen, TabsSameCopy, SameApplied, TabsNoLoad

LEMMA TabsMarkAges == ASSUME TabsInd, MarkAges, UNCHANGED other PROVE TabsDataInv'
  <1>. USE DEF TabsInd, TabsDataInv
  <1>1. mark'.cursor = mark.cursor /\ mark'.who = mark.who /\ ~mark'.fresh
    BY DEF MarkAges, TypeOK, DeviceTypeOK
  <1>2. UNCHANGED <<log, table, who, screen, saved, cursor, intact, phase, next, loader, orphan,
                    todo, fetched, got, failed>>
    BY DEF MarkAges, server, tab, pass, load
  <1>3. ScreenInv' /\ TabsOpeningInv' /\ TabsMarkInv' /\ CopyInv' /\ OtherInv'
    BY <1>1, <1>2 DEF ScreenInv, TabsOpeningInv, TabsMarkInv, CopyInv, OtherInv
  <1>4. TabsFallbackInv' /\ LoadingInv'
    BY <1>1, <1>2 DEF TabsFallbackInv, LoadingInv
  <1>. QED  BY <1>2, <1>3, <1>4, SameApplied

LEMMA TabsWrite ==
  ASSUME TabsInd, NEW j \in Items, Write(j), UNCHANGED other
  PROVE  TabsDataInv'
  <1>. USE TabsNumbers, ReadableItems DEF TabsInd, TabsDataInv
  <1>1. /\ UNCHANGED <<saved, mark, who, screen, cursor, intact, phase, next, more, loader, todo,
                       fetched, got, failed, orphan>>
        /\ who \in Identities
        /\ fetched \subseteq Items
    BY DEF Write, device, tab, pass, load, TypeOK, TabTypeOK, LoadTypeOK
  <1>2. LogTypeInv
    BY DEF LogTypeInv, TypeOK
  <1>3. \A i \in Items : \A v : \A c \in Int : c <= Len(log) /\ Current(log, table, v, i, c)
                              => Current(log', table', v, i, c)
    BY <1>2, WrittenCurrent
  <1>4. cursor <= Len(log) /\ mark.cursor <= Len(log) /\ next <= Len(log) /\ other <= Len(log)
    BY DEF TabsPositionInv
  <1>5. ScreenInv' /\ TabsOpeningInv'
    BY <1>1, <1>3, <1>4 DEF ScreenInv, TabsOpeningInv
  <1>6. TabsMarkInv' /\ CopyInv'
    BY <1>1, <1>3, <1>4 DEF TabsMarkInv, CopyInv
  <1>7. OtherInv'
    <2>1. Behind' <=> Behind
      BY <1>1 DEF Behind
    <2>. QED  BY <1>1, <1>3, <1>4, <2>1 DEF OtherInv
  <1>8. TabsFallbackInv' /\ LoadingInv'
    BY <1>1, <1>3, <1>4 DEF TabsFallbackInv, LoadingInv
  <1>9. AppliedInv'
    BY <1>1, <1>3, <1>4 DEF AppliedInv
  <1>. QED  BY <1>5, <1>6, <1>7, <1>8, <1>9

LEMMA TabsStutter ==
  ASSUME TabsInd, UNCHANGED <<log, table, device, tab, load, phase, next, more, other>>
  PROVE  TabsDataInv'
  BY TabsSameScreen, TabsSameCopy, TabsSameLoads, SameApplied
  DEF TabsInd, TabsDataInv, device, tab, load

LEMMA TabsDataStep == ASSUME NoGaps, TabsInd, ThisTab PROVE TabsDataInv'
  <1>. USE DEF ThisTab
  <1>1. ASSUME NEW i \in Items, Write(i) PROVE TabsDataInv'
    BY <1>1, TabsWrite
  <1>2. CASE RunAgain \/ \E cutoff \in 1 .. MaxChanges : PruneLog(cutoff)
    BY <1>2, TabsStutter DEF RunAgain, PruneLog, Prune, server, pass
  <1>. QED
    BY <1>1, <1>2, TabsRun, TabsBoundary, TabsFullLoad, TabsReload, TabsLoadFetch, TabsLoadApply,
       TabsLoadFail, TabsLoadDone, TabsReadBounds, TabsReadRecords, TabsRejected, TabsApply,
       TabsSavePage, TabsFetchFails, TabsRestart, TabsChangeAccess, TabsSignIn, TabsRenewUser,
       TabsMarkAges
    DEF Next, ServerNext, EngineNext, Disturbance

-----------------------------------------------------------------------------
(* The other tab's pass, while this one rests.                             *)

(* The rows after a position that is not expired are all there.            *)
LEMMA RowsAfter ==
  ASSUME TypeOK, NewestRowKept, LogInv, NEW c \in Int, ~CursorExpired(c), NEW s \in Seqs, s > c
  PROVE  s \in kept
  <1>1. kept # {}
    BY DEF NewestRowKept, Seqs
  <1>2. PICK k \in kept : ~(c + 1 < k)
    BY <1>1 DEF CursorExpired
  <1>3. k \in Int /\ s \in Int
    BY DEF TypeOK, ServerTypeOK, Seqs
  <1>. QED  BY <1>2, <1>3 DEF LogInv, SuffixKept

(* A page that reaches the end of the log holds the rows of the server, and *)
(* what it leaves out has not changed since where it began.                *)
LEMMA WholePage ==
  ASSUME TypeOK, NewestRowKept, LogInv, NEW c \in Int, ~CursorExpired(c),
         NEW readable \in SUBSET Items, NEW i \in readable
  PROVE  LET page == Attached({s \in kept : s > c}, readable) IN
           /\ i \in DOMAIN page => page[i] = table[i]
           /\ i \notin DOMAIN page => Settled(log, i, c)
  <1>. DEFINE after == {s \in kept : s > c}
              page == Attached(after, readable)
  <1>1. DOMAIN page = {log[s].item : s \in after} \cap readable
    BY DEF Attached, Touched
  <1>2. \A s \in Seqs : s > c => s \in after
    BY RowsAfter
  <1>3. (\A s \in after : s \in Seqs) /\ \A s \in Seqs : s \in Int
    <2>1. kept \subseteq Seqs
      BY DEF TypeOK, ServerTypeOK
    <2>. QED  BY <2>1 DEF Seqs
  <1>4. ASSUME i \in DOMAIN page PROVE page[i] = table[i]
    <2>1. CASE \E s \in after : IsLast(s, About(after, i)) /\ log[s].op = "delete"
      <3>1. PICK s \in after : IsLast(s, About(after, i)) /\ log[s].op = "delete"
        BY <2>1
      <3>2. s \in Seqs /\ log[s].item = i /\ s > c
        BY <1>3, <3>1 DEF IsLast, About
      <3>3. Settled(log, i, s)
        <4>1. SUFFICES ASSUME NEW r \in Seqs, log[r].item = i PROVE r <= s
          BY DEF Settled, Seqs
        <4>2. r \in Int /\ s \in Int
          BY <1>3, <3>2
        <4>3. CASE r > c
          BY <1>2, <3>1, <4>1, <4>3 DEF IsLast, About
        <4>4. CASE r <= c
          BY <3>2, <4>2, <4>4
        <4>. QED  BY <4>2, <4>3, <4>4
      <3>4. table[i] = Absent
        BY <3>1, <3>2, <3>3 DEF LogInv, DeletedGone
      <3>. QED  BY <1>4, <2>1, <3>4 DEF Attached
    <2>2. CASE ~\E s \in after : IsLast(s, About(after, i)) /\ log[s].op = "delete"
      BY <1>4, <2>2 DEF Attached
    <2>. QED  BY <2>1, <2>2
  <1>5. ASSUME i \notin DOMAIN page PROVE Settled(log, i, c)
    <2>1. SUFFICES ASSUME NEW s \in Seqs, log[s].item = i PROVE s <= c
      BY DEF Settled, Seqs
    <2>2. s \notin after
      BY <1>1, <1>5, <2>1
    <2>. QED  BY <1>2, <1>3, <2>1, <2>2
  <1>. QED  BY <1>4, <1>5

LEMMA OtherTabPasses ==
  ASSUME NoGaps, TabsInd, OtherPass
  PROVE  TabsInd'
  <1>. USE TabsNumbers DEF TabsInd, TabsDataInv
  <1>1. /\ phase = "idle" /\ ~more /\ cursor \in {NoCursor, next} /\ loader = "none"
        /\ UNCHANGED <<log, table, kept, who, screen, cursor, intact, shown, faults, restarts>>
        /\ UNCHANGED <<phase, next, more, rows, answer, resynced, pages, again, opener>>
        /\ UNCHANGED <<loader, todo, fetched, got, failed, orphan>>
    BY DEF OtherPass, AtRest, NoGaps, server, tab, pass, load, env
  <1>2. who \in Identities /\ Readable[who] \subseteq Items /\ cursor # Unread
    BY <1>1, ReadableItems DEF TypeOK, TabTypeOK, NoCursor, Unread
  <1>3. MaxSeq = Len(log) /\ Len(log) \in Nat
    BY Boundaries DEF LogTypeInv, TypeOK
  <1>4. /\ other' = Len(log) /\ mark'.cursor = Len(log) /\ mark'.who = who
        /\ mark'.fresh \in BOOLEAN
        /\ mark' \in [who : Identities \cup {"nobody"}, cursor : Nat \cup {NoCursor}, fresh : BOOLEAN]
        /\ saved' \in [Items -> Versions]
        /\ \A i \in Readable[who] :
              /\ saved'[i] = table[i] \/ saved'[i] = saved[i]
              /\ mark'.fresh => saved'[i] = table[i]
    <2>1. CASE OtherFullCopy(OtherStart)
      BY <1>2, <1>3, <2>1 DEF OtherFullCopy, TypeOK, ServerTypeOK, DeviceTypeOK
    <2>2. CASE OtherStart # NoCursor /\ OtherCatchesUp(OtherStart)
      <3>. DEFINE c == OtherStart
                  page == Attached({s \in kept : s > c}, Readable[who])
      <3>1. /\ c \in Int /\ ~CursorExpired(c)
            /\ other # Unread => c = other /\ other >= 0
            /\ other = Unread => c = mark.cursor /\ mark.who = who /\ mark.fresh
        BY <2>2 DEF OtherCatchesUp, OtherStart, TabsPositionInv, NoCursor
      <3>2. /\ other' = Len(log)
            /\ mark' = [who |-> who, cursor |-> Len(log), fresh |-> mark.who = who /\ mark.fresh]
            /\ saved' = [i \in Items |-> IF i \in DOMAIN page THEN page[i] ELSE saved[i]]
        BY <1>3, <2>2 DEF OtherCatchesUp
      <3>. HIDE DEF c
      <3>3. \A i \in Readable[who] :
              /\ i \in DOMAIN page => page[i] = table[i]
              /\ i \notin DOMAIN page => Settled(log, i, c)
        BY <1>2, <3>1, WholePage
      <3>4. DOMAIN page \subseteq Readable[who]
        BY DEF Attached, Touched
      <3>5. mark'.fresh <=> mark.who = who /\ mark.fresh
        BY <3>2
      <3>6. ASSUME mark.who = who, mark.fresh, NEW i \in Readable[who]
            PROVE  Current(log, table, saved[i], i, c)
        <4>1. CASE other = Unread
          BY <1>1, <1>2, <3>1, <3>6, <4>1 DEF TabsMarkInv
        <4>2. CASE other # Unread
          <5>1. mark.cursor >= 0
            BY <1>2, <3>6 DEF TabsPositionInv
          <5>2. ~Behind
            BY <1>1, <5>1 DEF Behind, NoCursor, Unread
          <5>. QED  BY <1>1, <3>1, <3>6, <4>2, <5>2 DEF OtherInv
        <4>. QED  BY <4>1, <4>2
      <3>7. ASSUME NEW i \in Readable[who]
            PROVE  /\ saved'[i] = table[i] \/ saved'[i] = saved[i]
                   /\ mark'.fresh => saved'[i] = table[i]
        <4>1. i \in Items
          BY <1>2
        <4>2. saved'[i] = IF i \in DOMAIN page THEN page[i] ELSE saved[i]
          BY <3>2, <4>1
        <4>. QED  BY <3>3, <3>5, <3>6, <4>2 DEF Current
      <3>8. saved' \in [Items -> Versions]
        <4>1. ASSUME NEW i \in Items
              PROVE  (IF i \in DOMAIN page THEN page[i] ELSE saved[i]) \in Versions
          <5>1. saved[i] \in Versions /\ table[i] \in Versions
            BY DEF TypeOK, ServerTypeOK, DeviceTypeOK
          <5>. QED  BY <3>3, <3>4, <5>1
        <4>. QED  BY <3>2, <4>1
      <3>9. mark' \in [who : Identities \cup {"nobody"}, cursor : Nat \cup {NoCursor}, fresh : BOOLEAN]
        <4>1. (mark.who = who /\ mark.fresh) \in BOOLEAN
          OBVIOUS
        <4>. QED  BY <1>2, <1>3, <3>2, <4>1
      <3>. QED  BY <3>2, <3>7, <3>8, <3>9
    <2>. QED  BY <2>1, <2>2 DEF OtherPass
  <1>5. TypeOK' /\ NewestRowKept' /\ Positioned' /\ LogInv' /\ PhaseInv' /\ PageInv'
    <2>1. TypeOK'
      BY <1>1, <1>4 DEF TypeOK, ServerTypeOK, DeviceTypeOK, TabTypeOK, PassTypeOK, LoadTypeOK,
         EnvTypeOK, Seqs
    <2>2. NewestRowKept' /\ Positioned' /\ PhaseInv'
      BY <1>1 DEF NewestRowKept, Positioned, Positions, PhaseInv
    <2>3. LogInv'
      BY <1>1, SameLog DEF server
    <2>4. PageInv'
      BY <1>1 DEF PageInv, AskedInv, RowsInv, AnswerInv
    <2>. QED  BY <2>1, <2>2, <2>3, <2>4
  <1>6. TabsPositionInv'
    BY <1>1, <1>3, <1>4 DEF TabsPositionInv
  <1>7. ScreenInv' /\ TabsOpeningInv'
    BY <1>1, <1>2 DEF ScreenInv, TabsOpeningInv
  <1>8. CopyInv'
    BY <1>1, <1>4 DEF CopyInv, Current
  <1>9. TabsMarkInv' /\ OtherInv'
    BY <1>1, <1>4 DEF TabsMarkInv, OtherInv, Current
  <1>10. TabsFallbackInv' /\ LoadingInv' /\ AppliedInv'
    BY <1>1 DEF TabsFallbackInv, LoadingInv, AppliedInv
  <1>. QED  BY <1>5, <1>6, <1>7, <1>8, <1>9, <1>10

LEMMA OtherTabRestarts ==
  ASSUME TabsInd, OtherRestarts \/ UNCHANGED <<vars, other>>
  PROVE  TabsInd'
  <1>. USE TabsNumbers DEF TabsInd, TabsDataInv
  <1>1. /\ UNCHANGED <<log, table, kept, saved, mark, who, screen, cursor, intact, shown, faults, restarts>>
        /\ UNCHANGED <<phase, next, more, rows, answer, resynced, pages, again, opener>>
        /\ UNCHANGED <<loader, todo, fetched, got, failed, orphan>>
        /\ other' = other \/ other' = Unread
    BY DEF OtherRestarts, vars, server, device, tab, pass, load, env
  <1>2. other' \in Int /\ other' <= other
    BY <1>1 DEF TabsPositionInv, Unread
  <1>3. TypeOK' /\ NewestRowKept' /\ Positioned' /\ PhaseInv'
    BY <1>1 DEF TypeOK, ServerTypeOK, DeviceTypeOK, TabTypeOK, PassTypeOK, LoadTypeOK, EnvTypeOK,
       Seqs, NewestRowKept, Positioned, Positions, PhaseInv
  <1>4. LogInv' /\ PageInv'
    BY <1>1, SameLog DEF server, PageInv, AskedInv, RowsInv, AnswerInv, Seqs
  <1>5. TabsPositionInv'
    BY <1>1, <1>2 DEF TabsPositionInv, Unread
  <1>6. ScreenInv' /\ TabsOpeningInv' /\ CopyInv' /\ TabsMarkInv' /\ LoadingInv' /\ AppliedInv'
    BY <1>1 DEF ScreenInv, TabsOpeningInv, CopyInv, TabsMarkInv, LoadingInv, AppliedInv
  <1>7. OtherInv'
    <2>1. Behind' <=> Behind
      BY <1>1 DEF Behind
    <2>. QED  BY <1>1, <2>1 DEF OtherInv, Unread
  <1>8. TabsFallbackInv'
    BY <1>1, <1>2, Earlier DEF TabsFallbackInv
  <1>. QED  BY <1>3, <1>4, <1>5, <1>6, <1>7, <1>8

-----------------------------------------------------------------------------
LEMMA TabsInitially == TabsInit => TabsInd
  <1>. SUFFICES ASSUME TabsInit PROVE TabsInd
    OBVIOUS
  <1>1. Ind /\ other = Unread
    BY Initially DEF TabsInit
  <1>2. mark.who = "nobody" /\ cursor = Unread /\ phase = "idle" /\ loader = "none" /\ who \in Identities
    BY DEF TabsInit, Init, NoMark
  <1>3. TabsPositionInv
    BY <1>1, <1>2, PositionTypes DEF Ind, IInv, PositionInv, TabsPositionInv, Unread
  <1>4. TabsDataInv
    BY <1>1, <1>2, DeltaSyncAssumption
    DEF TabsDataInv, Ind, IInv, DataInv, TabsOpeningInv, TabsMarkInv, OtherInv, TabsFallbackInv
  <1>. QED  BY <1>1, <1>3, <1>4 DEF TabsInd, Ind, IInv

LEMMA TabsInductive == ASSUME NoGaps PROVE TabsInd /\ [TabsNext]_<<vars, other>> => TabsInd'
  <1>. SUFFICES ASSUME TabsInd, [TabsNext]_<<vars, other>> PROVE TabsInd'
    OBVIOUS
  <1>1. CASE ThisTab
    <2>1. [Next]_vars
      BY <1>1 DEF ThisTab
    <2>2. TypeOK' /\ NewestRowKept' /\ Positioned'
      BY <2>1, NextTypes DEF TabsInd
    <2>3. LogInv' /\ PhaseInv'
      BY <2>1, Types, LogStep, PhaseStep DEF TabsInd, LogTypeInv, ControlTypeOK
    <2>4. PageInv'
      BY <2>1, Types, PageStep DEF TabsInd, TabsPositionInv
    <2>5. TabsPositionInv' /\ TabsDataInv'
      BY <1>1, TabsPositionStep, TabsDataStep
    <2>. QED  BY <2>2, <2>3, <2>4, <2>5 DEF TabsInd
  <1>2. CASE OtherPass
    BY <1>2, OtherTabPasses
  <1>3. CASE OtherRestarts \/ UNCHANGED <<vars, other>>
    BY <1>3, OtherTabRestarts
  <1>. QED  BY <1>1, <1>2, <1>3 DEF TabsNext, ThisTab, NoGaps

LEMMA TabsMarks == TabsInd => MarkNeverAheadAtRest
  BY DEF TabsInd, TabsDataInv, TabsMarkInv, MarkNeverAheadAtRest, MarkNeverAhead, Covers, Current

(* A mark that a start-up would use is never ahead of the lists the two     *)
(* tabs share, whichever of them wrote which, for any rows, people, changes *)
(* and faults (useEntityData.ts applyChanges, deltaSyncClient.ts           *)
(* savedCursor).                                                           *)
THEOREM SharedMark == NoGaps => (TabsSpec => []MarkNeverAheadAtRest)
  <1>. SUFFICES ASSUME NoGaps PROVE TabsSpec => []MarkNeverAheadAtRest
    OBVIOUS
  <1>1. TabsInd /\ [TabsNext]_<<vars, other>> => TabsInd'
    BY TabsInductive
  <1>. QED  BY TabsInitially, <1>1, TabsMarks, PTL DEF TabsSpec

(* Nor does another tab, whatever it puts into the shared lists and their   *)
(* mark, make this one skip a committed change on its screen               *)
(* (deltaSyncClient.ts savedCursor, useEntityData.ts applyChanges).        *)
THEOREM ScreenBesideOther == NoGaps => (TabsSpec => []CursorNeverSkips)
  <1>. SUFFICES ASSUME NoGaps PROVE TabsSpec => []CursorNeverSkips
    OBVIOUS
  <1>1. TabsInd /\ [TabsNext]_<<vars, other>> => TabsInd'
    BY TabsInductive
  <1>2. TabsInd => CursorNeverSkips
    BY DEF TabsInd, TabsDataInv, ScreenInv, CursorNeverSkips, Covers, Current
  <1>. QED  BY TabsInitially, <1>1, <1>2, PTL DEF TabsSpec

-----------------------------------------------------------------------------
(* The person's own edits: what the lists hold beside the server's rows.   *)

Lists == Versions \cup {Edited, Dropped}

EditedListsOK ==
    /\ saved \in [Items -> Lists] /\ screen \in [Items -> Lists]
    /\ \A i \in Invoices : saved[i] \in Versions /\ screen[i] \in Versions

EditTypeOK ==
    /\ stage \in [Items -> {"none", "sent", "landed", "refused"}]
    /\ change \in [Items -> Ops]
    /\ before \in [Items -> Versions]
    /\ landed \in [Items -> Versions]

(* No list holds a row newer than the log, so a commit writes a row that    *)
(* no list has, and none that an undo would put back.                      *)
Young ==
    /\ \A i \in Items : /\ table[i] <= Len(log) /\ got[i] <= Len(log)
                        /\ saved[i] <= Len(log) /\ screen[i] <= Len(log)
                        /\ before[i] <= Len(log) /\ landed[i] <= Len(log)
    /\ \A i \in DOMAIN answer : answer[i] <= Len(log)
Overwritten == \A i \in Items :
    /\ stage[i] # "none" => before[i] \in Nat
    /\ stage[i] = "landed" => table[i] # before[i]

(* What a list may hold that is up to date: the server's row, or an edit    *)
(* whose undo would put back the server's row.                             *)
Showing == [i \in Items |->
    {table[i]} \cup {v \in {Mine(i)} : stage[i] \in {"sent", "refused"} /\ before[i] = table[i]}]
UpTo(l, s, v, i, c) == Settled(l, i, c) => v \in s[i]

(* The lists, as in the sync's own invariant, but for such edits.          *)
EditsScreenInv == cursor >= 0 =>
    \A i \in Readable[who] : UpTo(log, Showing, screen[i], i, cursor)
EditsOpeningInv == mark.who = who =>
    \A i \in Readable[who] : UpTo(log, Showing, screen[i], i, mark.cursor)
EditsCopyInv == intact /\ cursor >= 0 =>
    \A i \in Readable[who] : UpTo(log, Showing, saved[i], i, cursor)
EditsMarkInv == mark.who = who =>
    \A i \in Readable[who] : UpTo(log, Showing, saved[i], i, mark.cursor)
EditsLoadingInv == phase = "loading" =>
    /\ \A i \in fetched : Current(log, table, got[i], i, next)
    /\ ~failed => \A i \in Readable[who] \ todo :
         /\ UpTo(log, Showing, screen[i], i, next)
         /\ intact => UpTo(log, Showing, saved[i], i, next)
EditsAppliedInv == phase = "applied" => \A i \in Readable[who] :
    /\ UpTo(log, Showing, screen[i], i, next)
    /\ intact => UpTo(log, Showing, saved[i], i, next)

EditsDataInv ==
    /\ EditsScreenInv /\ EditsOpeningInv /\ EditsCopyInv /\ EditsMarkInv
    /\ FallbackInv /\ EditsLoadingInv /\ EditsAppliedInv

(* What the sync keeps whatever the lists hold.                            *)
SyncInd ==
    /\ ControlTypeOK /\ NewestRowKept /\ Positioned
    /\ LogInv /\ PhaseInv /\ PageInv /\ PositionInv

EditsInd ==
    /\ SyncInd /\ mark.who \in {who, "nobody"}
    /\ EditedListsOK /\ EditTypeOK /\ Young /\ Overwritten
    /\ EditsDataInv

(* The steps: the sync's, a restart with no edit under way, an edit's       *)
(* commit, and what an edit does to the lists.                             *)
SyncStep == (ServerNext \/ EngineNext \/ FetchFails \/ MarkAges \/ Restart \/ UNCHANGED vars) /\ UNCHANGED edit
ListStep(i) == (\E op \in Ops : Edit(i, op)) \/ Refuse(i) \/ Confirm(i) \/ Undo(i)

-----------------------------------------------------------------------------
LEMMA EditsSteps ==
  ASSUME NoGaps, EditTypeOK, [EditsNext]_<<vars, edit>>
  PROVE  SyncStep \/ \E i \in Items : Land(i) \/ ListStep(i)
  <1>1. CASE Close
    <2>1. stage' = stage
      BY <1>1 DEF Close, NoGaps, EditTypeOK
    <2>. QED  BY <1>1, <2>1 DEF Close, SyncStep, edit
  <1>2. CASE EditsNext /\ ~Close
    BY <1>2 DEF EditsNext, SyncStep, ListStep
  <1>3. CASE UNCHANGED <<vars, edit>>
    BY <1>3 DEF SyncStep
  <1>. QED  BY <1>1, <1>2, <1>3

LEMMA LandWrites == ASSUME NEW i \in Items, Land(i) PROVE Write(i)
  BY DEF Land, Write

LEMMA SyncSteps == ASSUME SyncStep PROVE [Next]_vars
  BY DEF SyncStep, Next, Disturbance

(* What an edit does to the lists, it does to nothing else of the sync.     *)
LEMMA ListSteps ==
  ASSUME NoGaps, NEW i \in Items, ListStep(i)
  PROVE  /\ UNCHANGED <<table, log, kept, mark, who, cursor, intact, phase, next, more, rows>>
         /\ UNCHANGED <<answer, resynced, pages, again, opener, loader, todo, fetched, got>>
         /\ UNCHANGED <<failed, orphan, faults, restarts, landed>>
  <1>. DEFINE Kept == UNCHANGED <<server, mark, who, cursor, intact, pass, load, env, landed>>
  <1>1. ASSUME NEW op \in Ops, Edit(i, op) PROVE Kept
    BY <1>1 DEF Edit, PutInLists, Untouched, device, tab
  <1>2. ASSUME Refuse(i) PROVE Kept
    BY <1>2 DEF Refuse, vars, device, tab
  <1>3. ASSUME Confirm(i) PROVE Kept
    BY <1>3 DEF Confirm, PutInLists, Accept
  <1>4. ASSUME Undo(i) PROVE Kept
    BY <1>4 DEF Undo, PutInLists, Untouched, NoGaps, device, tab, env
  <1>5. Kept
    BY <1>1, <1>2, <1>3, <1>4 DEF ListStep
  <1>. QED  BY <1>5 DEF server, pass, load, env

LEMMA SyncIndStep ==
  ASSUME NoGaps, SyncInd, [Next]_vars
  PROVE  SyncInd'
  <1>. USE DEF SyncInd
  <1>1. ControlTypeOK' /\ Positioned' /\ NewestRowKept'
    BY ControlStep, NextPositioned, ServerSteps DEF ControlTypeOK, LogTypeInv
  <1>2. LogInv' /\ PhaseInv'
    BY LogStep, PhaseStep DEF ControlTypeOK, LogTypeInv
  <1>3. PositionInv' /\ PageInv'
    BY PositionStep, PageStep DEF PositionInv, PageInv
  <1>. QED  BY <1>1, <1>2, <1>3

LEMMA SyncIndKept ==
  ASSUME SyncInd,
         UNCHANGED <<table, log, kept, mark, who, cursor, intact, phase, next, more, rows>>,
         UNCHANGED <<answer, resynced, pages, again, opener, loader, todo, fetched, got>>,
         UNCHANGED <<failed, orphan, faults, restarts>>
  PROVE  SyncInd'
  <1>. USE DEF SyncInd
  <1>1. ControlTypeOK' /\ NewestRowKept'
    BY DEF ControlTypeOK, ServerTypeOK, Seqs, PassTypeOK, LoadTypeOK, EnvTypeOK, NewestRowKept
  <1>2. Positioned' /\ PhaseInv' /\ PositionInv'
    BY DEF Positioned, Positions, PhaseInv, PositionInv
  <1>3. LogInv' /\ PageInv'
    BY SameLog DEF server, PageInv, AskedInv, RowsInv, AnswerInv, Seqs
  <1>. QED  BY <1>1, <1>2, <1>3

(* The mark stays the person's own.                                        *)
LEMMA OwnMark ==
  ASSUME mark.who \in {who, "nobody"}, ControlTypeOK, SyncStep
  PROVE  mark'.who \in {who', "nobody"}
  <1>1. ASSUME UNCHANGED <<mark, who>> PROVE mark'.who \in {who', "nobody"}
    BY <1>1
  <1>2. ASSUME mark' = NoMark PROVE mark'.who \in {who', "nobody"}
    BY <1>2 DEF NoMark
  <1>3. CASE LoadDone
    BY <1>1, <1>2, <1>3 DEF LoadDone, SaveCursor
  <1>4. CASE SavePage
    BY <1>1, <1>2, <1>4 DEF SavePage, SaveCursor
  <1>5. CASE MarkAges
    BY <1>5 DEF MarkAges, ControlTypeOK, tab
  <1>6. CASE EngineNext /\ ~LoadDone /\ ~SavePage
    BY <1>1, <1>2, <1>6 DEF EngineNext, Run, Boundary, FullLoad, ReadBounds, ReadPage, ReadRecords,
       Rejected, Apply, Reload, LoadFetch, LoadApply, StartLoad, device, tab
  <1>7. CASE ServerNext \/ FetchFails \/ Restart \/ UNCHANGED vars
    BY <1>1, <1>7 DEF ServerNext, Write, PruneLog, FetchFails, Restart, vars, device, tab
  <1>. QED  BY <1>3, <1>4, <1>5, <1>6, <1>7 DEF SyncStep

-----------------------------------------------------------------------------
(* Types and ages, when the sync takes a step ...                          *)

LEMMA ListsSync ==
  ASSUME NoGaps, ControlTypeOK, EditedListsOK, SyncStep
  PROVE  EditedListsOK'
  <1>. USE DEF EditedListsOK, Lists
  <1>1. ASSUME UNCHANGED <<saved, screen>> PROVE EditedListsOK'
    BY <1>1
  <1>2. ASSUME NEW by, StartLoad(by) PROVE EditedListsOK'
    BY <1>2, EditsAssumption DEF StartLoad, Versions, device
  <1>3. CASE Reload
    BY <1>1, <1>2, <1>3 DEF Reload, device, tab
  <1>4. ASSUME NEW i \in Items, LoadApply(i) PROVE EditedListsOK'
    <2>1. got[i] \in Versions
      BY DEF ControlTypeOK, LoadTypeOK
    <2>2. saved' = saved \/ saved' = [saved EXCEPT ![i] = got[i]]
      BY <1>4 DEF LoadApply
    <2>3. screen' = screen \/ screen' = [screen EXCEPT ![i] = got[i]]
      BY <1>4 DEF LoadApply, Show
    <2>. QED  BY <2>1, <2>2, <2>3, EditsAssumption
  <1>5. CASE Apply
    <2>1. PICK stored \in SUBSET DOMAIN answer :
            saved' = [i \in Items |-> IF i \in stored THEN answer[i] ELSE saved[i]]
      BY <1>5 DEF Apply
    <2>2. screen' = [i \in Items |-> IF i \in DOMAIN answer THEN answer[i] ELSE screen[i]]
      BY <1>5 DEF Apply
    <2>3. \A i \in DOMAIN answer : answer[i] \in Versions
      BY DEF ControlTypeOK, PassTypeOK
    <2>. QED  BY <2>1, <2>2, <2>3, EditsAssumption
  <1>6. CASE Restart
    BY <1>6 DEF Restart, device
  <1>7. CASE FullLoad
    BY <1>2, <1>7 DEF FullLoad
  <1>8. CASE EngineNext /\ ~FullLoad /\ ~Reload /\ ~Apply /\ ~(\E i \in Items : LoadApply(i))
    BY <1>1, <1>8 DEF EngineNext, Run, Boundary, ReadBounds, ReadPage, ReadRecords, Rejected,
       SavePage, LoadDone, LoadFetch, device, tab
  <1>9. CASE ServerNext \/ FetchFails \/ MarkAges \/ UNCHANGED vars
    BY <1>1, <1>9 DEF ServerNext, Write, PruneLog, FetchFails, MarkAges, vars, device, tab
  <1>. QED  BY <1>3, <1>4, <1>5, <1>6, <1>7, <1>8, <1>9 DEF SyncStep, EngineNext

(* A commit writes a row of its own age, or none.                          *)
LEMMA WrittenAge ==
  ASSUME LogTypeInv, NEW j \in Items, Write(j)
  PROVE  /\ Len(log) \in Nat /\ Len(log') = Len(log) + 1
         /\ table'[j] \in {Len(log) + 1, Absent}
         /\ \A i \in Items : i # j => table'[i] = table[i]
  <1>1. Len(log) \in Nat /\ Len(log') = Len(log) + 1
    BY WriteLog, CommitLog DEF LogTypeInv, ServerTypeOK
  <1>. QED  BY <1>1 DEF Write, Put, PutMissing, Delete, Commit, LogTypeInv, ServerTypeOK

LEMMA AgesWritten ==
  ASSUME SyncInd, EditedListsOK, EditTypeOK, Young, Overwritten, NEW j \in Items, Write(j),
         before' = before, landed' = landed \/ landed' = [landed EXCEPT ![j] = table'[j]],
         stage' = stage \/ (before[j] \in Nat /\ stage' = [stage EXCEPT ![j] = "landed"])
  PROVE  Young' /\ Overwritten'
  <1>. USE DEF SyncInd
  <1>1. /\ Len(log) \in Nat /\ Len(log') = Len(log) + 1
        /\ table'[j] \in {Len(log) + 1, Absent}
        /\ \A i \in Items : i # j => table'[i] = table[i]
    BY WrittenAge DEF LogTypeInv, ControlTypeOK
  <1>2. UNCHANGED <<saved, screen, got, answer>>
    BY DEF Write, device, tab, pass, load
  <1>3. ASSUME NEW x \in Lists, x <= Len(log) PROVE x <= Len(log')
    BY <1>1, <1>3 DEF Lists, Versions, Absent, Edited, Dropped
  <1>4. /\ \A i \in Items : /\ table[i] \in Lists /\ got[i] \in Lists /\ before[i] \in Lists
                             /\ saved[i] \in Lists /\ screen[i] \in Lists /\ landed[i] \in Lists
        /\ \A i \in DOMAIN answer : answer[i] \in Lists
    BY DEF ControlTypeOK, ServerTypeOK, PassTypeOK, LoadTypeOK, EditedListsOK, EditTypeOK, Lists
  <1>5. Young'
    <2>1. \A i \in Items : table'[i] <= Len(log')
      BY <1>1, <1>3, <1>4 DEF Young, Absent
    <2>2. \A i \in Items : landed'[i] \in {landed[i], table'[i]}
      BY DEF EditTypeOK
    <2>. QED  BY <1>2, <1>3, <1>4, <2>1, <2>2 DEF Young
  <1>6. Overwritten'
    <2>1. SUFFICES ASSUME NEW i \in Items
                   PROVE  /\ stage'[i] # "none" => before'[i] \in Nat
                          /\ stage'[i] = "landed" => table'[i] # before'[i]
      BY DEF Overwritten
    <2>2. CASE i = j
      <3>1. stage'[j] # "none" => before[j] \in Nat /\ before[j] <= Len(log)
        BY DEF Overwritten, Young, EditTypeOK
      <3>. QED  BY <1>1, <2>2, <3>1 DEF Absent
    <2>3. CASE i # j
      BY <1>1, <2>3 DEF Overwritten, EditTypeOK
    <2>. QED  BY <2>2, <2>3
  <1>. QED  BY <1>5, <1>6

LEMMA AgesSync ==
  ASSUME NoGaps, SyncInd, EditedListsOK, EditTypeOK, Young, Overwritten, SyncStep
  PROVE  Young' /\ Overwritten'
  <1>. USE DEF SyncInd
  <1>0. Len(log) \in Nat /\ UNCHANGED <<stage, before, landed>>
    BY NumberTypes DEF SyncStep, edit
  <1>1. ASSUME NEW i \in Items, Write(i) PROVE Young' /\ Overwritten'
    BY <1>0, <1>1, AgesWritten
  <1>2. SUFFICES ASSUME ~(\E i \in Items : Write(i)) PROVE Young'
    <2>1. CASE \E i \in Items : Write(i)
      BY <1>1, <2>1
    <2>2. CASE ~(\E i \in Items : Write(i))
      <3>1. table' = table
        BY <2>2 DEF SyncStep, ServerNext, EngineNext, PruneLog, Prune, Run, Boundary, FullLoad,
           ReadBounds, ReadPage, ReadRecords, Rejected, Apply, SavePage, Reload, LoadDone,
           LoadFetch, LoadApply, StartLoad, FetchFails, MarkAges, Restart, vars, server
      <3>. QED  BY <1>0, <1>2, <2>2, <3>1 DEF Overwritten
    <2>. QED  BY <2>1, <2>2
  <1>3. UNCHANGED <<table, log>>
    BY <1>2 DEF SyncStep, ServerNext, EngineNext, PruneLog, Prune, Run, Boundary, FullLoad,
       ReadBounds, ReadPage, ReadRecords, Rejected, Apply, SavePage, Reload, LoadDone,
       LoadFetch, LoadApply, StartLoad, FetchFails, MarkAges, Restart, vars, server
  <1>4. Absent <= Len(log)
    BY <1>0 DEF Absent
  <1>. USE <1>0, <1>3, <1>4 DEF Young
  <1>5. ASSUME UNCHANGED <<saved, screen, got>>, UNCHANGED answer \/ answer' = NoAnswer PROVE Young'
    BY <1>5 DEF NoAnswer
  <1>6. ASSUME NEW by, StartLoad(by) PROVE Young'
    BY <1>6 DEF StartLoad, Blank, device
  <1>7. CASE Reload
    BY <1>5, <1>6, <1>7 DEF Reload, device, tab, load
  <1>8. CASE FullLoad
    BY <1>6, <1>8 DEF FullLoad
  <1>9. ASSUME NEW i \in Items, LoadFetch(i) PROVE Young'
    BY <1>9 DEF LoadFetch, ControlTypeOK, LoadTypeOK, device, tab, pass
  <1>10. ASSUME NEW i \in Items, LoadApply(i) PROVE Young'
    <2>1. saved' = saved \/ saved' = [saved EXCEPT ![i] = got[i]]
      BY <1>10 DEF LoadApply
    <2>2. screen' = screen \/ screen' = [screen EXCEPT ![i] = got[i]]
      BY <1>10 DEF LoadApply, Show
    <2>3. got' = [got EXCEPT ![i] = Absent] /\ answer' = answer
      BY <1>10 DEF LoadApply, pass
    <2>. QED  BY <2>1, <2>2, <2>3 DEF ControlTypeOK, LoadTypeOK, EditedListsOK
  <1>11. CASE Apply
    <2>1. PICK stored \in SUBSET DOMAIN answer :
            saved' = [i \in Items |-> IF i \in stored THEN answer[i] ELSE saved[i]]
      BY <1>11 DEF Apply
    <2>2. /\ screen' = [i \in Items |-> IF i \in DOMAIN answer THEN answer[i] ELSE screen[i]]
          /\ answer' = NoAnswer /\ got' = got
      BY <1>11 DEF Apply, load
    <2>. QED  BY <2>1, <2>2 DEF NoAnswer
  <1>12. CASE ReadRecords
    <2>1. UNCHANGED <<saved, screen, got>> /\ answer' = Attached(rows, Readable[who])
      BY <1>12 DEF ReadRecords, device, tab, load
    <2>2. \A i \in DOMAIN answer' : i \in Items /\ answer'[i] \in {table[i], Absent}
      BY <2>1, ReadableItems DEF Attached, Touched, ControlTypeOK
    <2>. QED  BY <2>1, <2>2
  <1>13. CASE Restart
    BY <1>13 DEF Restart, NoPass, NoAnswer, Blank, device
  <1>14. CASE Run \/ Boundary \/ ReadBounds \/ ReadPage \/ Rejected \/ SavePage \/ LoadDone
    BY <1>5, <1>14 DEF Run, Boundary, ReadBounds, ReadPage, Rejected, SavePage, LoadDone, device,
       tab, load
  <1>15. CASE FetchFails \/ MarkAges \/ UNCHANGED vars \/ \E cutoff \in 1 .. MaxChanges : PruneLog(cutoff)
    BY <1>5, <1>15 DEF FetchFails, MarkAges, PruneLog, vars, device, tab, pass, load
  <1>. QED
    BY <1>2, <1>7, <1>8, <1>9, <1>10, <1>11, <1>12, <1>13, <1>14, <1>15
    DEF SyncStep, ServerNext, EngineNext

-----------------------------------------------------------------------------
(* ... and when an edit does.                                              *)

LEMMA MineEdits == \A i : Mine(i) \in {Edited, Dropped} /\ Mine(i) \notin Versions
  BY DEF Mine, Edited, Dropped, Versions, Absent

LEMMA PutAway ==
  ASSUME NEW i \in Items, NEW v, EditedListsOK, PutInLists(i, v)
  PROVE  /\ screen'[i] = v /\ saved'[i] = v
         /\ \A k \in Items : k # i => screen'[k] = screen[k] /\ saved'[k] = saved[k]
  BY DEF PutInLists, EditedListsOK

(* An edit remembers what the screen showed.                               *)
LEMMA Remembers ==
  ASSUME NoGaps, NEW i \in Items, NEW op, Edit(i, op)
  PROVE  before' = [before EXCEPT ![i] = screen[i]]
  BY DEF Edit, NoGaps

LEMMA ListsEdited ==
  ASSUME NoGaps, EditedListsOK, EditTypeOK, NEW i \in Items, ListStep(i)
  PROVE  EditedListsOK' /\ EditTypeOK'
  <1>. USE EditsAssumption DEF EditedListsOK, EditTypeOK, Lists
  <1>1. ASSUME NEW v \in Lists, i \in Invoices => v \in Versions, PutInLists(i, v)
        PROVE  EditedListsOK'
    BY <1>1 DEF PutInLists
  <1>2. ASSUME UNCHANGED <<saved, screen>> PROVE EditedListsOK'
    BY <1>2
  <1>3. ASSUME NEW op \in Ops, Edit(i, op) PROVE EditedListsOK' /\ EditTypeOK'
    <2>1. EditTypeOK'
      BY <1>3, Remembers DEF Edit, Versions
    <2>2. CASE Untouched
      BY <1>2, <2>1, <2>2 DEF Untouched, device, tab
    <2>3. CASE i \notin Invoices /\ PutInLists(i, IF op = "put" THEN Edited ELSE Dropped)
      <3>1. (IF op = "put" THEN Edited ELSE Dropped) \in Lists
        OBVIOUS
      <3>2. EditedListsOK'
        BY <1>1, <2>3, <3>1
      <3>. QED  BY <2>1, <3>2
    <2>. QED  BY <1>3, <2>2, <2>3 DEF Edit
  <1>4. CASE Refuse(i)
    BY <1>2, <1>4 DEF Refuse, vars, device, tab
  <1>5. CASE Confirm(i)
    <2>1. EditTypeOK'
      BY <1>5 DEF Confirm
    <2>2. CASE Accept(i)
      <3>. DEFINE row == IF change[i] = "put" /\ landed[i] = Absent THEN Edited ELSE landed[i]
      <3>1. row \in Lists
        OBVIOUS
      <3>2. i \in Invoices => screen[i] # Mine(i) /\ saved[i] # Mine(i)
        BY MineEdits
      <3>3. /\ screen' = [screen EXCEPT ![i] = IF screen[i] = Mine(i) THEN row ELSE screen[i]]
            /\ saved' = [saved EXCEPT ![i] = IF saved[i] = Mine(i) THEN row ELSE saved[i]]
        BY <2>2 DEF Accept
      <3>. HIDE DEF row
      <3>4. EditedListsOK'
        BY <3>1, <3>2, <3>3
      <3>. QED  BY <2>1, <3>4
    <2>. QED  BY <1>1, <1>5, <2>1, <2>2 DEF Confirm
  <1>6. CASE Undo(i)
    BY <1>1, <1>2, <1>6 DEF Undo, Untouched, NoGaps, device, tab
  <1>. QED  BY <1>3, <1>4, <1>5, <1>6 DEF ListStep

LEMMA AgesEdited ==
  ASSUME NoGaps, SyncInd, EditedListsOK, EditTypeOK, Young, Overwritten, NEW i \in Items, ListStep(i)
  PROVE  Young' /\ Overwritten'
  <1>. USE DEF EditedListsOK, EditTypeOK, Lists
  <1>1. UNCHANGED <<table, log, got, answer, landed>> /\ Len(log) \in Nat
    BY ListSteps, NumberTypes DEF SyncInd
  <1>2. Edited <= Len(log) /\ Dropped <= Len(log)
    BY <1>1 DEF Edited, Dropped
  <1>3. /\ \A k \in Items : screen'[k] \in {screen[k], Edited, Dropped, before[k], landed[k]}
        /\ \A k \in Items : saved'[k] \in {saved[k], Edited, Dropped, before[k], landed[k]}
    <2>1. ASSUME NEW op \in Ops, Edit(i, op)
          PROVE  UNCHANGED <<saved, screen>> \/ PutInLists(i, Edited) \/ PutInLists(i, Dropped)
      BY <2>1 DEF Edit, Untouched, device, tab
    <2>2. CASE Confirm(i)
      BY <2>2 DEF Confirm, PutInLists, Accept
    <2>3. CASE Refuse(i) \/ Undo(i)
      BY <2>3 DEF Refuse, Undo, PutInLists, Untouched, vars, device, tab
    <2>. QED  BY <2>1, <2>2, <2>3 DEF ListStep, PutInLists
  <1>4. ASSUME NEW k \in Items
        PROVE  /\ before'[k] \in {before[k], screen[k]}
               /\ stage'[k] # "none" => before'[k] \in Nat
               /\ stage'[k] = "landed" => stage[k] = "landed" /\ before'[k] = before[k]
    BY Remembers DEF ListStep, Edit, Refuse, Confirm, Undo, Overwritten
  <1>5. Young'
    BY <1>1, <1>2, <1>3, <1>4 DEF Young
  <1>6. Overwritten'
    BY <1>1, <1>4 DEF Overwritten
  <1>. QED  BY <1>5, <1>6

LEMMA LandTypes ==
  ASSUME SyncInd, SyncInd', EditedListsOK, EditTypeOK, Young, Overwritten, NEW i \in Items, Land(i)
  PROVE  EditedListsOK' /\ EditTypeOK' /\ Young' /\ Overwritten'
  <1>1. Write(i) /\ UNCHANGED <<saved, screen, before>>
    BY LandWrites DEF Land, device, tab
  <1>2. table'[i] \in Versions
    BY DEF SyncInd, ControlTypeOK, ServerTypeOK
  <1>3. EditedListsOK' /\ EditTypeOK'
    BY <1>1, <1>2 DEF Land, EditedListsOK, EditTypeOK
  <1>4. before[i] \in Nat
    BY DEF Land, Overwritten
  <1>. QED  BY <1>1, <1>3, <1>4, AgesWritten DEF Land

-----------------------------------------------------------------------------
(* What an up-to-date list may hold.                                       *)

LEMMA Shows ==
  ASSUME NEW i \in Items, NEW v
  PROVE  v \in Showing[i] <=> \/ v = table[i]
                             \/ /\ v = Mine(i) /\ before[i] = table[i]
                                /\ stage[i] \in {"sent", "refused"}
  BY DEF Showing

LEMMA ShowsNext ==
  ASSUME NEW i \in Items, NEW v
  PROVE  v \in Showing'[i] <=> \/ v = table'[i]
                              \/ /\ v = (IF change'[i] = "put" THEN Edited ELSE Dropped)
                                 /\ before'[i] = table'[i]
                                 /\ stage'[i] \in {"sent", "refused"}
  BY DEF Showing, Mine

LEMMA SameShowing == ASSUME UNCHANGED <<table, edit>> PROVE Showing' = Showing
  BY DEF Showing, Mine, edit

(* An edit keeps an up-to-date list up to date: on the screen, and in the   *)
(* saved copy where the screen is up to date too.                          *)
LEMMA EditKeeps ==
  ASSUME NoGaps, SyncInd, EditedListsOK, EditTypeOK, Overwritten,
         NEW i \in Items, ListStep(i), NEW k \in Items, screen[k] \in Showing[k]
  PROVE  /\ screen'[k] \in Showing'[k]
         /\ saved[k] \in Showing[k] => saved'[k] \in Showing'[k]
  <1>1. table' = table /\ table[k] \in Versions
    BY ListSteps DEF SyncInd, ControlTypeOK, ServerTypeOK
  <1>2. CASE k # i
    <2>1. stage'[k] = stage[k] /\ before'[k] = before[k] /\ change'[k] = change[k]
      BY <1>2 DEF ListStep, Edit, Refuse, Confirm, Undo, EditTypeOK
    <2>2. screen'[k] = screen[k] /\ saved'[k] = saved[k]
      BY <1>2 DEF ListStep, Edit, Refuse, Confirm, Undo, PutInLists, Accept, Untouched, NoGaps,
         vars, device, tab, EditedListsOK
    <2>. QED  BY <1>1, <2>1, <2>2, Shows, ShowsNext DEF Mine
  <1>3. ASSUME k = i, NEW op \in Ops, Edit(i, op)
        PROVE  /\ screen'[k] \in Showing'[k]
               /\ saved[k] \in Showing[k] => saved'[k] \in Showing'[k]
    <2>1. stage[i] = "none" /\ screen[i] = table[i] /\ (saved[i] \in Showing[i] => saved[i] = table[i])
      BY <1>3, Shows DEF Edit
    <2>2. stage'[i] = "sent" /\ change'[i] = op /\ before'[i] = screen[i]
      BY <1>3, Remembers DEF Edit, EditTypeOK
    <2>3. CASE UNCHANGED <<screen, saved>>
      BY <1>1, <1>3, <2>1, <2>3, ShowsNext
    <2>4. CASE PutInLists(i, IF op = "put" THEN Edited ELSE Dropped)
      <3>1. screen'[i] = (IF op = "put" THEN Edited ELSE Dropped) /\ saved'[i] = screen'[i]
        BY <2>4, PutAway
      <3>. QED  BY <1>1, <1>3, <2>1, <2>2, <3>1, ShowsNext
    <2>. QED  BY <1>3, <2>3, <2>4 DEF Edit, Untouched, device, tab
  <1>4. CASE k = i /\ Refuse(i)
    <2>1. /\ UNCHANGED <<screen, saved, change, before>>
          /\ stage[i] \in {"sent", "landed"} /\ stage'[i] = "refused"
      BY <1>4 DEF Refuse, vars, device, tab, EditTypeOK
    <2>. QED  BY <1>1, <1>4, <2>1, Shows, ShowsNext DEF Mine
  <1>5. CASE k = i /\ Confirm(i)
    <2>1. /\ stage[i] = "landed" /\ stage'[i] = "none" /\ table[i] # before[i]
          /\ screen[i] = table[i] /\ table[i] # Mine(i)
          /\ saved[i] \in Showing[i] => saved[i] = table[i]
      BY <1>1, <1>5, Shows, MineEdits DEF Confirm, EditTypeOK, Overwritten
    <2>2. CASE PutInLists(i, landed[i]) /\ ~Overtaken(i)
      <3>1. landed[i] = table[i]
        BY <2>1, <2>2 DEF Overtaken
      <3>2. screen'[i] = table[i] /\ saved'[i] = table[i]
        BY <2>2, <3>1, PutAway
      <3>. QED  BY <1>1, <1>5, <3>2, ShowsNext
    <2>3. CASE Accept(i)
      <3>1. screen'[i] = table[i] /\ (saved[i] \in Showing[i] => saved'[i] = table[i])
        BY <2>1, <2>3 DEF Accept, EditedListsOK
      <3>. QED  BY <1>1, <1>5, <3>1, ShowsNext
    <2>. QED  BY <1>5, <2>2, <2>3 DEF Confirm, NoGaps
  <1>6. CASE k = i /\ Undo(i)
    <2>1. CASE PutInLists(i, before[i]) /\ screen[i] \in {Mine(i), before[i]}
      <3>1. before[i] = table[i]
        BY <1>1, <1>6, <2>1, Shows, MineEdits
      <3>2. screen'[i] = table[i] /\ saved'[i] = table[i]
        BY <2>1, <3>1, PutAway
      <3>. QED  BY <1>1, <1>6, <3>2, ShowsNext
    <2>2. CASE Untouched /\ (i \in Invoices \/ screen[i] \notin {Mine(i), before[i]})
      <3>1. UNCHANGED <<screen, saved>>
        BY <2>2 DEF Untouched, device, tab
      <3>2. screen[i] = table[i]
        <4>1. screen[i] # Mine(i)
          BY <2>2, MineEdits DEF EditedListsOK
        <4>. QED  BY <1>6, <4>1, Shows
      <3>3. saved[i] \in Showing[i] => saved[i] = table[i]
        <4>1. CASE i \in Invoices
          <5>1. saved[i] # Mine(i)
            BY <4>1, MineEdits DEF EditedListsOK
          <5>. QED  BY <5>1, Shows
        <4>2. CASE screen[i] \notin {Mine(i), before[i]}
          BY <3>2, <4>2, Shows
        <4>. QED  BY <2>2, <4>1, <4>2
      <3>. QED  BY <1>1, <1>6, <3>1, <3>2, <3>3, ShowsNext
    <2>. QED  BY <1>6, <2>1, <2>2 DEF Undo, NoGaps, Overwritten, Absent
  <1>. QED  BY <1>2, <1>3, <1>4, <1>5, <1>6 DEF ListStep

LEMMA CurrentShows ==
  ASSUME NEW i \in Items, NEW v, NEW c, Current(log, table, v, i, c)
  PROVE  UpTo(log, Showing, v, i, c)
  BY Shows DEF Current, UpTo

LEMMA WrittenUpTo ==
  ASSUME LogTypeInv, NEW j \in Items, Write(j), UNCHANGED <<change, before>>,
         \A k \in Items : k # j => stage'[k] = stage[k],
         NEW i \in Items, NEW v, NEW c \in Int, c <= Len(log), UpTo(log, Showing, v, i, c)
  PROVE  UpTo(log', Showing', v, i, c)
  <1>1. SUFFICES ASSUME Settled(log', i, c) PROVE v \in Showing'[i]
    BY DEF UpTo
  <1>2. i # j /\ v \in Showing[i]
    BY <1>1, WrittenLog DEF UpTo
  <1>3. table'[i] = table[i]
    BY <1>2, WrittenAge
  <1>. QED  BY <1>2, <1>3, Shows, ShowsNext DEF Mine

-----------------------------------------------------------------------------
(* The lists when an edit takes a step, or the server.                     *)

LEMMA EditedData ==
  ASSUME NoGaps, EditsInd, NEW i \in Items, ListStep(i)
  PROVE  EditsDataInv'
  <1>. USE DEF EditsInd, EditsDataInv
  <1>1. /\ UNCHANGED <<table, log, mark, who, cursor, intact, phase, next>>
        /\ UNCHANGED <<loader, todo, fetched, got, failed, orphan>>
    BY ListSteps
  <1>2. Readable[who] \subseteq Items
    BY ReadableItems DEF SyncInd, ControlTypeOK
  <1>3. \A k \in Items : \A c :
          UpTo(log, Showing, screen[k], k, c) =>
             /\ UpTo(log, Showing', screen'[k], k, c)
             /\ UpTo(log, Showing, saved[k], k, c) => UpTo(log, Showing', saved'[k], k, c)
    BY EditKeeps DEF UpTo
  <1>4. EditsScreenInv' /\ EditsOpeningInv'
    BY <1>1, <1>2, <1>3 DEF EditsScreenInv, EditsOpeningInv
  <1>5. EditsCopyInv' /\ EditsMarkInv'
    BY <1>1, <1>2, <1>3 DEF EditsScreenInv, EditsOpeningInv, EditsCopyInv, EditsMarkInv
  <1>6. FallbackInv'
    BY <1>1 DEF FallbackInv
  <1>7. EditsLoadingInv' /\ EditsAppliedInv'
    BY <1>1, <1>2, <1>3 DEF EditsLoadingInv, EditsAppliedInv
  <1>. QED  BY <1>4, <1>5, <1>6, <1>7

LEMMA EditsWrittenData ==
  ASSUME EditsInd, NEW j \in Items, Write(j), UNCHANGED <<change, before>>,
         \A k \in Items : k # j => stage'[k] = stage[k]
  PROVE  EditsDataInv'
  <1>. USE ReadableItems DEF EditsInd, EditsDataInv, SyncInd
  <1>1. /\ UNCHANGED <<saved, mark, who, screen, cursor, intact, phase, next>>
        /\ UNCHANGED <<loader, todo, fetched, got, failed, orphan>>
        /\ who \in Identities /\ Readable[who] \subseteq Items /\ fetched \subseteq Items
        /\ cursor \in Int /\ mark.cursor \in Int /\ next \in Int
        /\ cursor <= Len(log) /\ mark.cursor <= Len(log) /\ next <= Len(log)
    BY NumberTypes DEF Write, device, tab, pass, load, ControlTypeOK, LoadTypeOK, PositionInv
  <1>2. LogTypeInv
    BY DEF LogTypeInv, ControlTypeOK
  <1>3. \A i \in Items : \A v : \A c \in Int : c <= Len(log) /\ Current(log, table, v, i, c)
                              => Current(log', table', v, i, c)
    BY <1>2, WrittenCurrent
  <1>4. \A i \in Items : \A v : \A c \in Int : c <= Len(log) /\ UpTo(log, Showing, v, i, c)
                              => UpTo(log', Showing', v, i, c)
    BY <1>2, WrittenUpTo
  <1>5. EditsScreenInv' /\ EditsOpeningInv'
    BY <1>1, <1>4 DEF EditsScreenInv, EditsOpeningInv
  <1>6. EditsMarkInv' /\ EditsCopyInv'
    BY <1>1, <1>4 DEF EditsMarkInv, EditsCopyInv
  <1>7. FallbackInv' /\ EditsLoadingInv'
    BY <1>1, <1>3, <1>4 DEF FallbackInv, EditsLoadingInv
  <1>8. EditsAppliedInv'
    BY <1>1, <1>4 DEF EditsAppliedInv
  <1>. QED  BY <1>5, <1>6, <1>7, <1>8

-----------------------------------------------------------------------------
(* The lists when the sync takes a step.                                   *)

LEMMA EditsSameScreen ==
  ASSUME EditsScreenInv, EditsOpeningInv, UNCHANGED <<log, Showing, who, screen, cursor, mark>>
  PROVE  EditsScreenInv' /\ EditsOpeningInv'
  BY DEF EditsScreenInv, EditsOpeningInv

LEMMA EditsSameCopy ==
  ASSUME EditsMarkInv, EditsCopyInv, UNCHANGED <<log, Showing, who, saved, cursor, mark>>,
         intact' => intact
  PROVE  EditsMarkInv' /\ EditsCopyInv'
  BY DEF EditsMarkInv, EditsCopyInv

LEMMA EditsSameLoads ==
  ASSUME FallbackInv, EditsLoadingInv, phase' = "loading" => phase = "loading",
         UNCHANGED <<log, table, Showing, who, screen, saved, intact, cursor, mark, next, loader,
                     orphan, todo, fetched, got, failed>>
  PROVE  FallbackInv' /\ EditsLoadingInv'
  BY DEF FallbackInv, EditsLoadingInv

LEMMA EditsNoLoad ==
  ASSUME loader' # "fallback" \/ orphan', phase' # "loading"
  PROVE  FallbackInv' /\ EditsLoadingInv'
  BY DEF FallbackInv, EditsLoadingInv

LEMMA EditsSameApplied ==
  ASSUME EditsAppliedInv, intact' => intact,
         UNCHANGED <<log, Showing, who, screen, saved, phase, next>>
  PROVE  EditsAppliedInv'
  BY DEF EditsAppliedInv

LEMMA EditsNotApplied == ASSUME phase' # "applied" PROVE EditsAppliedInv'
  BY DEF EditsAppliedInv

LEMMA EditsRun == ASSUME NoGaps, EditsInd, Run, UNCHANGED Showing PROVE EditsDataInv'
  <1>. USE NumberTypes DEF EditsInd, EditsDataInv, SyncInd
  <1>1. /\ UNCHANGED <<log, table, who, screen, saved, mark, intact, loader, orphan, fetched, got>>
        /\ phase' \in {"boundary", "ask"}
    BY DEF Run, server, device, load
  <1>2. \/ cursor' = cursor
        \/ cursor = Unread /\ cursor' = NoCursor
        \/ cursor = Unread /\ cursor' = mark.cursor /\ mark.who = who
    BY DEF Run, StartCursor
  <1>3. EditsScreenInv' /\ EditsOpeningInv'
    BY <1>1, <1>2 DEF EditsScreenInv, EditsOpeningInv, NoCursor
  <1>4. EditsMarkInv' /\ EditsCopyInv'
    BY <1>1, <1>2 DEF EditsMarkInv, EditsCopyInv, NoCursor
  <1>5. FallbackInv' /\ EditsLoadingInv'
    <2>1. loader = "fallback" => cursor' = NoCursor
      BY DEF Run, NoGaps
    <2>. QED  BY <1>1, <2>1 DEF FallbackInv, EditsLoadingInv, NoCursor
  <1>. QED  BY <1>1, <1>3, <1>4, <1>5, EditsNotApplied

LEMMA EditsBoundary == ASSUME EditsInd, Boundary, UNCHANGED Showing PROVE EditsDataInv'
  <1>. USE DEF EditsInd, EditsDataInv, SyncInd
  <1>1. /\ UNCHANGED <<log, table, who, screen, saved, cursor, mark, loader, orphan, fetched, got>>
        /\ phase' = "copy" /\ cursor = NoCursor
    BY DEF Boundary, server, device, load, PhaseInv
  <1>2. EditsMarkInv' /\ EditsCopyInv'
    BY <1>1 DEF EditsMarkInv, EditsCopyInv, NoCursor
  <1>3. FallbackInv' /\ EditsLoadingInv'
    BY <1>1 DEF FallbackInv, EditsLoadingInv
  <1>. QED  BY <1>1, <1>2, <1>3, EditsSameScreen, EditsNotApplied

LEMMA EditsStartLoad ==
  ASSUME EditsInd, NEW by, StartLoad(by), UNCHANGED Showing
  PROVE  EditsScreenInv' /\ EditsOpeningInv' /\ EditsMarkInv' /\ EditsCopyInv'
  <1>. USE DEF EditsInd, EditsDataInv, SyncInd
  <1>1. /\ UNCHANGED <<log, who, saved, cursor, mark, intact>>
        /\ \A i \in Items : i \in Readable[who] => screen'[i] = screen[i]
    BY DEF StartLoad, server, device
  <1>2. EditsScreenInv' /\ EditsOpeningInv'
    BY <1>1, ReadableItems DEF EditsScreenInv, EditsOpeningInv, ControlTypeOK
  <1>. QED  BY <1>1, <1>2, EditsSameCopy

LEMMA EditsFullLoad == ASSUME EditsInd, FullLoad, UNCHANGED Showing PROVE EditsDataInv'
  <1>. USE DEF EditsDataInv
  <1>1. EditsScreenInv' /\ EditsOpeningInv' /\ EditsMarkInv' /\ EditsCopyInv'
    BY EditsStartLoad DEF FullLoad
  <1>2. phase' = "loading" /\ loader' = "pass" /\ fetched' = {} /\ todo' = Readable[who] /\ who' = who
    BY DEF FullLoad, StartLoad
  <1>3. FallbackInv' /\ EditsLoadingInv'
    BY <1>2 DEF FallbackInv, EditsLoadingInv
  <1>. QED  BY <1>1, <1>2, <1>3, EditsNotApplied

LEMMA EditsReload == ASSUME NoGaps, EditsInd, Reload, UNCHANGED Showing PROVE EditsDataInv'
  <1>. USE DEF EditsInd, EditsDataInv, SyncInd
  <1>1. phase' = "idle" /\ phase = "idle"
    BY DEF Reload, StartLoad, PhaseInv, NoGaps
  <1>2. CASE loader = "none"
    <2>1. EditsScreenInv' /\ EditsOpeningInv' /\ EditsMarkInv' /\ EditsCopyInv'
      BY <1>2, EditsStartLoad DEF Reload
    <2>2. fetched' = {}
      BY <1>2 DEF Reload, StartLoad
    <2>3. FallbackInv' /\ EditsLoadingInv'
      BY <1>1, <2>2 DEF FallbackInv, EditsLoadingInv
    <2>. QED  BY <1>1, <2>1, <2>3, EditsNotApplied
  <1>3. CASE loader # "none"
    <2>1. UNCHANGED <<server, device, tab, load, next>>
      BY <1>3 DEF Reload
    <2>. QED
      BY <1>1, <2>1, EditsSameScreen, EditsSameCopy, EditsSameLoads, EditsNotApplied
      DEF server, device, tab, load
  <1>. QED  BY <1>2, <1>3

LEMMA EditsLoadFetch ==
  ASSUME EditsInd, NEW i \in Items, LoadFetch(i), UNCHANGED Showing
  PROVE  EditsDataInv'
  <1>. USE DEF EditsInd, EditsDataInv, SyncInd
  <1>1. /\ UNCHANGED <<log, table, who, screen, saved, cursor, mark, intact, phase, next,
                       loader, orphan, todo, failed>>
        /\ fetched' = fetched \cup {i}
    BY DEF LoadFetch, server, device, tab, pass
  <1>2. got'[i] = table[i] /\ \A k \in fetched : k # i => got'[k] = got[k]
    BY DEF LoadFetch, ControlTypeOK, LoadTypeOK
  <1>3. \A c : Current(log, table, got'[i], i, c)
    BY <1>2, JustRead
  <1>4. FallbackInv'
    BY <1>1, <1>2, <1>3 DEF FallbackInv
  <1>5. EditsLoadingInv'
    BY <1>1, <1>2, <1>3 DEF EditsLoadingInv
  <1>. QED  BY <1>1, <1>4, <1>5, EditsSameScreen, EditsSameCopy, EditsSameApplied

LEMMA EditsLoadApply ==
  ASSUME NoGaps, EditsInd, NEW i \in Items, LoadApply(i), UNCHANGED Showing
  PROVE  EditsDataInv'
  <1>. USE NumberTypes DEF EditsInd, EditsDataInv, SyncInd
  <1>1. /\ UNCHANGED <<log, table, who, cursor, mark, phase, next, loader, orphan, failed>>
        /\ i \in fetched /\ i \in todo
        /\ todo' = todo \ {i} /\ fetched' = fetched \ {i}
        /\ \A k \in fetched' : got'[k] = got[k]
    BY DEF LoadApply, server, pass, ControlTypeOK, LoadTypeOK
  <1>2. CASE orphan
    <2>1. UNCHANGED <<screen, saved, intact>> /\ orphan'
      BY <1>1, <1>2 DEF LoadApply
    <2>2. phase' # "loading"
      BY <1>1, <1>2 DEF PhaseInv
    <2>. QED  BY <1>1, <2>1, <2>2, EditsSameScreen, EditsSameCopy, EditsNoLoad, EditsSameApplied
  <1>3. CASE ~orphan
    <2>1. /\ screen'[i] = got[i] /\ \A k \in Items : k # i => screen'[k] = screen[k]
          /\ \A k \in Items : k # i => saved'[k] = saved[k]
          /\ intact' => intact
      <3>1. Show(i, got[i])
        BY <1>3 DEF LoadApply
      <3>2. screen'[i] = got[i] /\ \A k \in Items : k # i => screen'[k] = screen[k]
        BY <3>1 DEF Show, NoGaps, EditedListsOK
      <3>. QED  BY <1>3, <3>2 DEF LoadApply, EditedListsOK, ControlTypeOK
    <2>2. saved'[i] = got[i] \/ (saved'[i] = saved[i] /\ ~intact')
      BY <1>3 DEF LoadApply, NoGaps, EditedListsOK
    <2>3. loader \in {"pass", "fallback"}
      BY <1>1 DEF PhaseInv, ControlTypeOK, LoadTypeOK
    <2>4. phase # "applied"
      BY <1>3, <2>3 DEF PhaseInv
    <2>5. Readable[who] \subseteq Items
      BY ReadableItems DEF ControlTypeOK
    <2>6. ASSUME NEW c, Current(log, table, got[i], i, c)
          PROVE  UpTo(log, Showing, got[i], i, c)
      BY <2>6, CurrentShows
    <2>7. ASSUME Current(log, table, got[i], i, mark.cursor)
          PROVE  EditsOpeningInv' /\ EditsMarkInv'
      <3>1. UpTo(log, Showing, got[i], i, mark.cursor)
        BY <2>6, <2>7
      <3>. QED  BY <1>1, <2>1, <2>2, <2>5, <3>1 DEF EditsOpeningInv, EditsMarkInv
    <2>8. CASE loader = "pass"
      <3>1. phase = "loading" /\ cursor = NoCursor /\ mark.cursor <= next
        BY <1>3, <2>8 DEF PhaseInv, PositionInv
      <3>2. Current(log, table, got[i], i, next)
        BY <1>1, <3>1 DEF EditsLoadingInv
      <3>3. Current(log, table, got[i], i, mark.cursor) /\ UpTo(log, Showing, got[i], i, next)
        BY <2>6, <3>1, <3>2, Earlier
      <3>4. EditsScreenInv' /\ EditsCopyInv'
        BY <1>1, <3>1 DEF EditsScreenInv, EditsCopyInv, NoCursor
      <3>5. EditsLoadingInv'
        BY <1>1, <2>1, <2>2, <2>5, <3>1, <3>3 DEF EditsLoadingInv
      <3>6. FallbackInv'
        BY <1>1, <2>8 DEF FallbackInv
      <3>. QED  BY <1>1, <2>4, <2>7, <3>3, <3>4, <3>5, <3>6, EditsNotApplied
    <2>9. CASE loader = "fallback"
      <3>1. phase # "loading"
        BY <1>3, <2>9 DEF PhaseInv
      <3>2. /\ Current(log, table, got[i], i, mark.cursor)
            /\ cursor >= 0 => Current(log, table, got[i], i, cursor)
        BY <1>1, <1>3, <2>9 DEF FallbackInv
      <3>3. cursor >= 0 => UpTo(log, Showing, got[i], i, cursor)
        BY <2>6, <3>2
      <3>4. EditsScreenInv'
        BY <1>1, <2>1, <2>5, <3>3 DEF EditsScreenInv
      <3>5. EditsCopyInv'
        BY <1>1, <2>1, <2>2, <2>5, <3>3 DEF EditsCopyInv
      <3>6. FallbackInv' /\ EditsLoadingInv'
        BY <1>1, <3>1 DEF FallbackInv, EditsLoadingInv
      <3>. QED  BY <1>1, <2>4, <2>7, <3>2, <3>4, <3>5, <3>6, EditsNotApplied
    <2>. QED  BY <2>3, <2>8, <2>9
  <1>. QED  BY <1>2, <1>3

(* The cursor saved, where both lists have what it stands for.             *)
LEMMA EditsSaved ==
  ASSUME EditsInd, NEW whole \in BOOLEAN, SaveCursor(next, whole), mark.cursor <= next,
         UNCHANGED <<log, Showing, who, screen, saved, intact>>,
         \A i \in Readable[who] : /\ UpTo(log, Showing, screen[i], i, next)
                                  /\ intact => UpTo(log, Showing, saved[i], i, next)
  PROVE  EditsScreenInv' /\ EditsOpeningInv' /\ EditsMarkInv' /\ EditsCopyInv'
  <1>. USE DEF EditsInd, EditsDataInv, SyncInd
  <1>1. /\ cursor' = next
        /\ \/ mark' = NoMark
           \/ mark' = mark
           \/ intact /\ mark'.who = who /\ mark'.cursor = next
    BY Saved
  <1>2. who \in Identities /\ NoMark.who # who
    BY DeltaSyncAssumption DEF ControlTypeOK, NoMark
  <1>3. EditsScreenInv' /\ EditsCopyInv'
    BY <1>1 DEF EditsScreenInv, EditsCopyInv
  <1>4. EditsOpeningInv' /\ EditsMarkInv'
    BY <1>1, <1>2 DEF EditsOpeningInv, EditsMarkInv
  <1>. QED  BY <1>3, <1>4

LEMMA EditsLoadDone == ASSUME EditsInd, LoadDone, UNCHANGED Showing PROVE EditsDataInv'
  <1>. USE DEF EditsInd, EditsDataInv, SyncInd
  <1>1. /\ UNCHANGED <<log, table, who, screen, saved, intact, next>>
        /\ loader' = "none" /\ todo = {}
    BY DEF LoadDone, server
  <1>2. CASE UNCHANGED <<mark, cursor, phase>> /\ phase # "loading"
    BY <1>1, <1>2, EditsSameScreen, EditsSameCopy, EditsNoLoad, EditsSameApplied
  <1>3. CASE UNCHANGED <<mark, cursor>> /\ phase' = "idle"
    BY <1>1, <1>3, EditsSameScreen, EditsSameCopy, EditsNoLoad, EditsNotApplied
  <1>4. CASE phase = "loading" /\ ~failed /\ SaveCursor(next, TRUE) /\ phase' \in {"ask", "idle"}
    <2>1. \A i \in Readable[who] : /\ UpTo(log, Showing, screen[i], i, next)
                                   /\ intact => UpTo(log, Showing, saved[i], i, next)
      BY <1>1, <1>4 DEF EditsLoadingInv
    <2>2. mark.cursor <= next
      BY <1>4 DEF PositionInv
    <2>. QED  BY <1>1, <1>4, <2>1, <2>2, EditsSaved, EditsNoLoad, EditsNotApplied
  <1>. QED
    BY <1>1, <1>2, <1>3, <1>4 DEF LoadDone, Throws, NextPage, Synced, PhaseInv

LEMMA EditsReadBounds ==
  ASSUME EditsInd, ReadBounds \/ ReadPage, UNCHANGED Showing
  PROVE  EditsDataInv'
  <1>1. /\ UNCHANGED <<log, table, who, screen, saved, cursor, mark, intact, next, loader, orphan,
                       todo, fetched, got, failed>>
        /\ phase' \in {"rejected", "page", "attach"}
    BY DEF ReadBounds, ReadPage, server, device, tab, load
  <1>. QED
    BY <1>1, EditsSameScreen, EditsSameCopy, EditsSameLoads, EditsNotApplied
    DEF EditsInd, EditsDataInv

LEMMA EditsReadRecords == ASSUME EditsInd, ReadRecords, UNCHANGED Showing PROVE EditsDataInv'
  <1>. USE DEF EditsInd, EditsDataInv
  <1>1. /\ UNCHANGED <<log, table, who, screen, saved, cursor, mark, intact, loader, orphan,
                       fetched, got>>
        /\ phase' = "answer"
    BY DEF ReadRecords, server, device, tab, load
  <1>2. FallbackInv' /\ EditsLoadingInv'
    BY <1>1 DEF FallbackInv, EditsLoadingInv
  <1>. QED  BY <1>1, <1>2, EditsSameScreen, EditsSameCopy, EditsNotApplied

LEMMA EditsRejected == ASSUME EditsInd, Rejected, UNCHANGED Showing PROVE EditsDataInv'
  <1>. USE DEF EditsInd, EditsDataInv, SyncInd
  <1>1. /\ cursor' = NoCursor /\ mark' = NoMark /\ phase' \in {"boundary", "idle"}
        /\ UNCHANGED <<who, loader, orphan>> /\ who \in Identities
    BY DEF Rejected, Throws, load, ControlTypeOK
  <1>2. EditsScreenInv' /\ EditsOpeningInv' /\ EditsMarkInv' /\ EditsCopyInv'
    BY <1>1, DeltaSyncAssumption
    DEF EditsScreenInv, EditsOpeningInv, EditsMarkInv, EditsCopyInv, NoMark, NoCursor
  <1>3. loader # "fallback" \/ orphan
    BY DEF Rejected, PhaseInv
  <1>. QED  BY <1>1, <1>2, <1>3, EditsNoLoad, EditsNotApplied

LEMMA EditsApply == ASSUME EditsInd, Apply, UNCHANGED Showing PROVE EditsDataInv'
  <1>. USE NumberTypes DEF EditsInd, EditsDataInv, SyncInd
  <1>1. /\ UNCHANGED <<log, table, who, cursor, mark, next, loader, orphan>>
        /\ phase = "answer"
        /\ \A i \in Items : screen'[i] = IF i \in DOMAIN answer THEN answer[i] ELSE screen[i]
    BY DEF Apply, server, load
  <1>2. PICK stored \in SUBSET DOMAIN answer :
          /\ saved' = [i \in Items |-> IF i \in stored THEN answer[i] ELSE saved[i]]
          /\ intact' = (intact /\ (DOMAIN answer \ stored) \subseteq Invoices)
          /\ IF (DOMAIN answer \ stored) \cap Invoices = {}
             THEN phase' = "applied" /\ UNCHANGED <<again, opener>> ELSE Throws
    BY DEF Apply
  <1>3. /\ Readable[who] \subseteq Items
        /\ cursor >= 0 /\ mark.cursor <= cursor /\ cursor <= next
    BY <1>1, ReadableItems DEF ControlTypeOK, Positioned, Positions, PositionInv
  <1>4. /\ DOMAIN answer \subseteq Readable[who]
        /\ \A i \in DOMAIN answer : Current(log, table, answer[i], i, next)
        /\ \A i \in Readable[who] \ DOMAIN answer : Settled(log, i, next) => Settled(log, i, cursor)
    BY <1>1 DEF PageInv, AnswerInv
  <1>5. \A i \in DOMAIN answer : /\ Current(log, table, answer[i], i, cursor)
                                 /\ Current(log, table, answer[i], i, mark.cursor)
    BY <1>3, <1>4, Earlier
  <1>6. \A i \in DOMAIN answer : /\ UpTo(log, Showing, answer[i], i, next)
                                 /\ UpTo(log, Showing, answer[i], i, cursor)
                                 /\ UpTo(log, Showing, answer[i], i, mark.cursor)
    BY <1>3, <1>4, <1>5, CurrentShows
  <1>7. EditsScreenInv' /\ EditsOpeningInv'
    BY <1>1, <1>3, <1>6 DEF EditsScreenInv, EditsOpeningInv
  <1>8. EditsMarkInv' /\ EditsCopyInv'
    BY <1>1, <1>2, <1>3, <1>6 DEF EditsMarkInv, EditsCopyInv
  <1>9. phase' \in {"applied", "idle"} /\ (loader # "fallback" \/ orphan)
    BY <1>1, <1>2 DEF Throws, PhaseInv
  <1>10. EditsAppliedInv'
    <2>1. SUFFICES ASSUME phase' = "applied", NEW i \in Readable[who]
                   PROVE  /\ UpTo(log, Showing, screen'[i], i, next)
                          /\ intact' => UpTo(log, Showing, saved'[i], i, next)
      BY <1>1 DEF EditsAppliedInv
    <2>2. (DOMAIN answer \ stored) \cap Invoices = {}
      BY <1>2, <2>1 DEF Throws
    <2>3. intact' => intact /\ stored = DOMAIN answer
      BY <1>2, <2>2
    <2>4. CASE i \in DOMAIN answer
      BY <1>1, <1>2, <1>3, <1>6, <2>1, <2>3, <2>4
    <2>5. CASE i \notin DOMAIN answer
      <3>1. UpTo(log, Showing, screen[i], i, cursor)
        BY <1>3, <2>1 DEF EditsScreenInv
      <3>2. intact => UpTo(log, Showing, saved[i], i, cursor)
        BY <1>3, <2>1 DEF EditsCopyInv
      <3>3. Settled(log, i, next) => Settled(log, i, cursor)
        BY <1>4, <2>1, <2>5
      <3>4. screen'[i] = screen[i] /\ (intact' => saved'[i] = saved[i])
        BY <1>1, <1>2, <1>3, <2>1, <2>5
      <3>. QED  BY <2>3, <3>1, <3>2, <3>3, <3>4 DEF UpTo
    <2>. QED  BY <2>4, <2>5
  <1>. QED  BY <1>1, <1>7, <1>8, <1>9, <1>10, EditsNoLoad

LEMMA EditsSavePage == ASSUME EditsInd, SavePage, UNCHANGED Showing PROVE EditsDataInv'
  <1>. USE NumberTypes DEF EditsInd, EditsDataInv, SyncInd
  <1>1. /\ UNCHANGED <<log, table, who, screen, saved, intact, loader, orphan>>
        /\ phase = "applied" /\ phase' \in {"ask", "idle"} /\ SaveCursor(next, FALSE)
    BY DEF SavePage, NextPage, Synced, server, load
  <1>2. mark.cursor <= next
    BY <1>1 DEF PositionInv, Positioned, Positions
  <1>3. EditsScreenInv' /\ EditsOpeningInv' /\ EditsMarkInv' /\ EditsCopyInv'
    BY <1>1, <1>2, EditsSaved DEF EditsAppliedInv
  <1>4. loader # "fallback" \/ orphan
    BY <1>1 DEF PhaseInv
  <1>. QED  BY <1>1, <1>3, <1>4, EditsNoLoad, EditsNotApplied

LEMMA EditsFetchFails == ASSUME EditsInd, FetchFails, UNCHANGED Showing PROVE EditsDataInv'
  <1>1. /\ UNCHANGED <<log, table, who, screen, saved, cursor, mark, intact, next, loader, orphan,
                       todo, fetched, got, failed>>
        /\ phase' = "idle"
    BY DEF FetchFails, Throws, server, device, tab, load
  <1>. QED
    BY <1>1, EditsSameScreen, EditsSameCopy, EditsSameLoads, EditsNotApplied
    DEF EditsInd, EditsDataInv

LEMMA EditsRestart == ASSUME EditsInd, Restart, UNCHANGED Showing PROVE EditsDataInv'
  <1>. USE DEF EditsInd, EditsDataInv
  <1>1. /\ UNCHANGED <<log, table, who, saved, mark>>
        /\ screen' = saved /\ cursor' = Unread /\ phase' = "idle" /\ loader' = "none"
    BY DEF Restart, NoPass, server, device
  <1>2. EditsScreenInv' /\ EditsCopyInv'
    BY <1>1 DEF EditsScreenInv, EditsCopyInv, Unread
  <1>3. EditsOpeningInv' /\ EditsMarkInv'
    BY <1>1 DEF EditsOpeningInv, EditsMarkInv
  <1>. QED  BY <1>1, <1>2, <1>3, EditsNoLoad, EditsNotApplied

LEMMA EditsMarkAges == ASSUME EditsInd, MarkAges, UNCHANGED Showing PROVE EditsDataInv'
  <1>. USE DEF EditsInd, EditsDataInv, SyncInd
  <1>1. mark'.cursor = mark.cursor /\ mark'.who = mark.who
    BY DEF MarkAges, ControlTypeOK
  <1>2. UNCHANGED <<log, table, who, screen, saved, cursor, intact, phase, next, loader, orphan,
                    todo, fetched, got, failed>>
    BY DEF MarkAges, server, tab, pass, load
  <1>3. EditsScreenInv' /\ EditsOpeningInv' /\ EditsMarkInv' /\ EditsCopyInv'
    BY <1>1, <1>2 DEF EditsScreenInv, EditsOpeningInv, EditsMarkInv, EditsCopyInv
  <1>4. FallbackInv' /\ EditsLoadingInv'
    BY <1>1, <1>2 DEF FallbackInv, EditsLoadingInv
  <1>. QED  BY <1>2, <1>3, <1>4, EditsSameApplied

LEMMA EditsStutter ==
  ASSUME EditsInd, UNCHANGED <<log, table, device, tab, load, phase, next, Showing>>
  PROVE  EditsDataInv'
  BY EditsSameScreen, EditsSameCopy, EditsSameLoads, EditsSameApplied
  DEF EditsInd, EditsDataInv, device, tab, load

LEMMA EditsDataSync == ASSUME NoGaps, EditsInd, SyncStep PROVE EditsDataInv'
  <1>1. UNCHANGED edit
    BY DEF SyncStep
  <1>2. ASSUME NEW i \in Items, Write(i) PROVE EditsDataInv'
    BY <1>1, <1>2, EditsWrittenData DEF edit
  <1>3. SUFFICES ASSUME ~(\E i \in Items : Write(i)) PROVE EditsDataInv'
    BY <1>2
  <1>4. table' = table
    BY <1>3 DEF SyncStep, ServerNext, EngineNext, PruneLog, Prune, Run, Boundary, FullLoad,
       ReadBounds, ReadPage, ReadRecords, Rejected, Apply, SavePage, Reload, LoadDone,
       LoadFetch, LoadApply, StartLoad, FetchFails, MarkAges, Restart, vars, server
  <1>5. Showing' = Showing
    BY <1>1, <1>4, SameShowing
  <1>6. CASE UNCHANGED vars \/ \E cutoff \in 1 .. MaxChanges : PruneLog(cutoff)
    BY <1>5, <1>6, EditsStutter DEF PruneLog, Prune, vars, server, pass
  <1>7. CASE EngineNext
    BY <1>5, <1>7, EditsRun, EditsBoundary, EditsFullLoad, EditsReload, EditsLoadFetch,
       EditsLoadApply, EditsLoadDone, EditsReadBounds, EditsReadRecords, EditsRejected,
       EditsApply, EditsSavePage
    DEF EngineNext
  <1>. QED
    BY <1>3, <1>5, <1>6, <1>7, EditsFetchFails, EditsRestart, EditsMarkAges
    DEF SyncStep, ServerNext

-----------------------------------------------------------------------------
LEMMA EditsInitially == EditsInit => EditsInd
  <1>. SUFFICES ASSUME EditsInit PROVE EditsInd
    OBVIOUS
  <1>1. Ind
    BY Initially DEF EditsInit
  <1>2. SyncInd
    BY <1>1, Types DEF Ind, IInv, SyncInd
  <1>3. /\ log = <<>> /\ mark.who = "nobody" /\ cursor = Unread /\ phase = "idle"
        /\ loader = "none" /\ who \in Identities
    BY DEF EditsInit, Init, ServerInit, NoMark
  <1>4. EditedListsOK /\ EditTypeOK
    BY EditsAssumption
    DEF EditsInit, Init, EditedListsOK, EditTypeOK, Lists, Versions, Blank, Ops
  <1>5. Young /\ Overwritten
    <2>1. Len(log) = 0 /\ Absent <= 0
      BY <1>3 DEF Absent
    <2>2. \A i \in Items : table[i] \in {0, Absent}
      BY DEF EditsInit, Init, ServerInit
    <2>. QED  BY <2>1, <2>2 DEF EditsInit, Init, Young, Overwritten, Blank, NoAnswer
  <1>6. EditsDataInv
    BY <1>3, DeltaSyncAssumption
    DEF EditsDataInv, EditsScreenInv, EditsOpeningInv, EditsCopyInv, EditsMarkInv, FallbackInv,
        EditsLoadingInv, EditsAppliedInv, Unread
  <1>. QED  BY <1>2, <1>3, <1>4, <1>5, <1>6 DEF EditsInd

LEMMA EditsInductive == ASSUME NoGaps PROVE EditsInd /\ [EditsNext]_<<vars, edit>> => EditsInd'
  <1>. SUFFICES ASSUME EditsInd, [EditsNext]_<<vars, edit>> PROVE EditsInd'
    OBVIOUS
  <1>. USE DEF EditsInd
  <1>1. CASE SyncStep
    <2>1. SyncInd'
      BY <1>1, SyncSteps, SyncIndStep
    <2>2. mark'.who \in {who', "nobody"} /\ EditedListsOK'
      BY <1>1, OwnMark, ListsSync DEF SyncInd
    <2>3. EditTypeOK'
      BY <1>1 DEF SyncStep, edit, EditTypeOK
    <2>4. Young' /\ Overwritten' /\ EditsDataInv'
      BY <1>1, AgesSync, EditsDataSync
    <2>. QED  BY <2>1, <2>2, <2>3, <2>4
  <1>2. ASSUME NEW i \in Items, Land(i) PROVE EditsInd'
    <2>1. Write(i)
      BY <1>2, LandWrites
    <2>2. SyncInd'
      BY <2>1, SyncIndStep DEF Next, ServerNext
    <2>3. UNCHANGED <<mark, who, change, before>>
      BY <1>2 DEF Land, device, tab
    <2>4. EditedListsOK' /\ EditTypeOK' /\ Young' /\ Overwritten'
      BY <1>2, <2>2, LandTypes
    <2>5. \A k \in Items : k # i => stage'[k] = stage[k]
      BY <1>2 DEF Land, EditTypeOK
    <2>6. EditsDataInv'
      BY <2>1, <2>3, <2>5, EditsWrittenData
    <2>. QED  BY <2>2, <2>3, <2>4, <2>6
  <1>3. ASSUME NEW i \in Items, ListStep(i) PROVE EditsInd'
    <2>1. SyncInd' /\ UNCHANGED <<mark, who>>
      BY <1>3, ListSteps, SyncIndKept
    <2>2. EditedListsOK' /\ EditTypeOK'
      BY <1>3, ListsEdited DEF SyncInd
    <2>3. Young' /\ Overwritten'
      BY <1>3, AgesEdited
    <2>4. EditsDataInv'
      BY <1>3, EditedData
    <2>. QED  BY <2>1, <2>2, <2>3, <2>4
  <1>. QED  BY <1>1, <1>2, <1>3, EditsSteps

LEMMA EditsSettled == EditsInd => EditsSettle
  <1>. SUFFICES ASSUME EditsInd PROVE EditsSettle
    OBVIOUS
  <1>. USE DEF EditsInd, EditsDataInv
  <1>1. \A i \in Items : \A v : stage[i] = "none" /\ v \in Showing[i] => v = table[i]
    BY Shows
  <1>2. \A w \in Identities : Readable[w] \subseteq Items
    BY ReadableItems
  <1>3. who \in Identities /\ (mark.who \in Identities => mark.who = who)
    BY DeltaSyncAssumption DEF SyncInd, ControlTypeOK
  <1>4. cursor >= 0 => Settles(screen, who, cursor)
    BY <1>1, <1>2, <1>3 DEF EditsScreenInv, UpTo, Settles
  <1>5. mark.who \in Identities => Settles(saved, mark.who, mark.cursor)
    BY <1>1, <1>2, <1>3 DEF EditsMarkInv, UpTo, Settles
  <1>. QED  BY <1>4, <1>5 DEF EditsSettle

(* Once an edit is over, accepted or not, neither the screen nor the saved  *)
(* copy keeps a trace of it that the sync will not mend, for any items,    *)
(* edits, changes, faults and restarts (useHandlers.ts sendInBackground).  *)
THEOREM EditsLeaveNoTrace == NoGaps => (EditsSpec => []EditsSettle)
  <1>. SUFFICES ASSUME NoGaps PROVE EditsSpec => []EditsSettle
    OBVIOUS
  <1>1. EditsInd /\ [EditsNext]_<<vars, edit>> => EditsInd'
    BY EditsInductive
  <1>. QED  BY EditsInitially, <1>1, EditsSettled, PTL DEF EditsSpec

=============================================================================
