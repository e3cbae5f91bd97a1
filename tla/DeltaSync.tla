------------------------------ MODULE DeltaSync ------------------------------
(***************************************************************************)
(* One tab of the app kept up to date through /api/sync: the engine of     *)
(* services/deltaSyncClient.ts driven by hooks/useEntityData.ts, against   *)
(* the change log of ChangeLog.tla.                                        *)
(*                                                                         *)
(* A pass is a chain of awaits; each await is a value of "phase", so that  *)
(* commits, pruning, list loads, restarts and sign-ins interleave with it  *)
(* wherever the code yields.                                               *)
(*                                                                         *)
(* Gaps names the interleavings the code does not exclude and that break   *)
(* the sync position; the README says what each one is. Every other        *)
(* interleaving is always included.                                        *)
(***************************************************************************)
EXTENDS ChangeLog

CONSTANTS
    Identities,   \* person and access, as syncIdentity encodes them
    Readable,     \* identity -> the items its role may read
    Invoices,     \* items whose saved copy syncInvoices keeps
    MaxPages,     \* MAX_PAGES_PER_RUN
    MaxFaults,    \* bound: failed requests and failed writes to the device
    MaxRestarts   \* bound: restarts, sign-ins and changes of access

ASSUME DeltaSyncAssumption ==
    /\ Readable \in [Identities -> SUBSET Items]
    /\ Identities # {} /\ "nobody" \notin Identities
    /\ Invoices \subseteq Items
    /\ MaxPages \in Nat \ {0}
    /\ MaxFaults \in Nat
    /\ MaxRestarts \in Nat

VARIABLES
    saved,      \* the lists kept in localStorage
    mark,       \* the sync position kept beside them (db.ts SyncMark)
    who,        \* the signed-in identity
    screen,     \* the lists in React state
    cursor,     \* the engine's position: Unread, NoCursor or a seq
    intact,     \* ~savedCopyFailed
    shown,      \* lastPayloads: the list each section last showed (see Show)
    phase,      \* where the pass in flight waits
    next,       \* the cursor it will save
    more,       \* hasMore of its page
    rows,       \* the page's seqs, read but without their records yet
    answer,     \* the page as it arrives: item -> version
    resynced,   \* the pass has already retaken a rejected cursor's copy
    pages,      \* pages it has handled
    again,      \* a request arrived mid-run
    opener,     \* where syncAll, called as the app opens, has got to
    loader,     \* who runs loadAll, if anyone
    todo,       \* its sections not settled yet
    fetched,    \* those whose list the server has read
    got,        \* the lists it read
    failed,     \* a section of a complete load failed
    orphan,     \* the signed-in user's object changed under the load
    faults,
    restarts

device == <<saved, mark>>
tab    == <<who, screen, cursor, intact, shown>>
pass   == <<phase, next, more, rows, answer, resynced, pages, again, opener>>
load   == <<loader, todo, fetched, got, failed, orphan>>
env    == <<faults, restarts>>
vars   == <<server, device, tab, pass, load, env>>

NoCursor == -1
Unread   == -2
Forgotten == -3
NoMark   == [who |-> "nobody", cursor |-> NoCursor, fresh |-> FALSE]
Blank    == [i \in Items |-> Absent]
NoAnswer == [i \in {} |-> Absent]

Phases == {"idle", "boundary", "copy", "loading", "ask", "rejected",
           "page", "attach", "answer", "applied"}
Waiting == {"boundary", "ask", "rejected", "page", "attach", "answer"}

DeviceTypeOK ==
    /\ saved \in [Items -> Versions]
    /\ mark \in [who : Identities \cup {"nobody"}, cursor : Nat \cup {NoCursor}, fresh : BOOLEAN]

TabTypeOK ==
    /\ who \in Identities
    /\ screen \in [Items -> Versions]
    /\ cursor \in Nat \cup {NoCursor, Unread}
    /\ intact \in BOOLEAN
    /\ shown \in [Items -> Versions \cup {Forgotten}]

PassTypeOK ==
    /\ phase \in Phases
    /\ next \in Nat
    /\ more \in BOOLEAN
    /\ rows \subseteq Nat
    /\ DOMAIN answer \subseteq Items
    /\ \A i \in DOMAIN answer : answer[i] \in Versions
    /\ resynced \in BOOLEAN
    /\ pages \in Nat
    /\ again \in BOOLEAN
    /\ opener \in {"opening", "reload", "leftover", "settled"}

LoadTypeOK ==
    /\ loader \in {"none", "pass", "fallback"}
    /\ todo \subseteq Items
    /\ fetched \subseteq todo
    /\ got \in [Items -> Versions]
    /\ failed \in BOOLEAN
    /\ orphan \in BOOLEAN

EnvTypeOK ==
    /\ faults \in 0 .. MaxFaults
    /\ restarts \in 0 .. MaxRestarts

TypeOK == ServerTypeOK /\ DeviceTypeOK /\ TabTypeOK /\ PassTypeOK /\ LoadTypeOK /\ EnvTypeOK

(* The app opens on an empty device: no saved copy, no mark.               *)
Init ==
    /\ ServerInit
    /\ saved = Blank /\ mark = NoMark
    /\ who \in Identities
    /\ screen = Blank
    /\ cursor = Unread
    /\ intact = TRUE
    /\ shown = [i \in Items |-> Forgotten]
    /\ phase = "idle" /\ next = 0 /\ more = FALSE /\ rows = {} /\ answer = NoAnswer
    /\ resynced = FALSE /\ pages = 0 /\ again = FALSE /\ opener = "opening"
    /\ loader = "none" /\ todo = {} /\ fetched = {} /\ got = Blank
    /\ failed = FALSE /\ orphan = FALSE
    /\ faults = 0 /\ restarts = 0

-----------------------------------------------------------------------------
Fault == faults < MaxFaults /\ faults' = faults + 1

(* The run rejects. syncAll, if it is the caller, goes on to reload.       *)
Throws ==
    /\ phase' = "idle" /\ again' = FALSE
    /\ opener' = IF opener = "opening" THEN "reload" ELSE opener

(* A pass that ends 'synced' is followed by another when one was asked for *)
(* meanwhile; it starts from the cursor just saved.                        *)
Synced ==
    /\ phase' = IF again THEN "ask" ELSE "idle"
    /\ again' = FALSE
    /\ resynced' = FALSE
    /\ pages' = 0
    /\ opener' = IF opener = "opening" /\ ~again THEN "settled" ELSE opener

(* The run's loop, after a page or a retaken copy: on to the next page.    *)
NextPage ==
    IF pages + 1 < MaxPages
    THEN phase' = "ask" /\ pages' = pages + 1 /\ UNCHANGED <<again, resynced, opener>>
    ELSE Synced

(* Mutant: a mark is kept although a write to the saved copy failed.       *)
SaveCursorAnyway(value, whole) ==
    /\ cursor' = value
    /\ \/ mark' = [who |-> who, cursor |-> value,
                    fresh |-> whole \/ (mark.who = who /\ mark.fresh)]
          /\ UNCHANGED faults
       \/ UNCHANGED mark /\ Fault

(* Mutant: every page applied makes the saved copy young again.            *)
SaveCursorRenewing(value, whole) ==
    /\ cursor' = value
    /\ IF ~intact THEN mark' = NoMark /\ UNCHANGED faults
       ELSE \/ mark' = [who |-> who, cursor |-> value, fresh |-> TRUE] /\ UNCHANGED faults
            \/ UNCHANGED mark /\ Fault

(* savedCursor.saveCursor. The age of the copy starts anew after a full    *)
(* copy and is kept otherwise. The device may not take the mark.           *)
SaveCursor(value, whole) ==
    /\ cursor' = value
    /\ IF ~intact THEN mark' = NoMark /\ UNCHANGED faults
       ELSE \/ mark' = [who |-> who, cursor |-> value,
                        fresh |-> whole \/ (mark.who = who /\ mark.fresh)]
               /\ UNCHANGED faults
            \/ UNCHANGED mark /\ Fault

-----------------------------------------------------------------------------
(* run() while idle: the first run of an engine reads the saved mark.      *)
StartCursor ==
    IF cursor # Unread THEN cursor
    ELSE IF mark.who = who /\ mark.fresh THEN mark.cursor ELSE NoCursor

Run ==
    /\ phase = "idle" /\ opener # "reload"
    /\ cursor' = StartCursor
    /\ loader # "fallback" \/ StartCursor = NoCursor \/ "reload" \in Gaps
    /\ phase' = IF StartCursor = NoCursor THEN "boundary" ELSE "ask"
    /\ resynced' = FALSE /\ pages' = 0 /\ again' = FALSE
    /\ UNCHANGED <<server, device, who, screen, intact, shown, next, more, rows, answer, opener, load, env>>

(* run() while a pass is in flight: one more pass afterwards.              *)
RunAgain ==
    /\ phase # "idle" /\ ~again
    /\ again' = TRUE
    /\ UNCHANGED <<server, device, tab, phase, next, more, rows, answer, resynced, pages, opener, load, env>>

(* takeFullCopy: the boundary first.                                       *)
Boundary ==
    /\ phase = "boundary"
    /\ next' = MaxSeq
    /\ phase' = "copy"
    /\ intact' = TRUE
    /\ UNCHANGED <<server, device, who, screen, cursor, shown, more, rows, answer, resynced, pages, again, opener, load, env>>

(* applyIfChanged: a list identical to the one its section last showed is   *)
(* not shown again. That changes nothing while every other way of setting  *)
(* the screen forgets the list (a page does); opening on the saved copy at *)
(* a sign-in does not. Lists are remembered only in the "unchanged" run.   *)
Remembered(v) == IF "unchanged" \in Gaps THEN v ELSE Forgotten

Show(i, v) ==
    /\ IF "unchanged" \in Gaps /\ shown[i] = v THEN UNCHANGED screen
       ELSE screen' = [screen EXCEPT ![i] = v]
    /\ shown' = [shown EXCEPT ![i] = Remembered(v)]

(* loadAll: sections the role may not read are emptied, the others loaded. *)
StartLoad(by) ==
    /\ loader = "none"
    /\ loader' = by
    /\ todo' = Readable[who] /\ fetched' = {} /\ got' = Blank
    /\ failed' = FALSE /\ orphan' = FALSE
    /\ screen' = [i \in Items |-> IF i \in Readable[who] THEN screen[i] ELSE Absent]
    /\ shown' = [i \in Items |-> IF i \in Readable[who] THEN shown[i] ELSE Remembered(Absent)]
    /\ UNCHANGED <<server, device, who, cursor, intact, next, more, rows, answer, resynced, pages, again, env>>

(* fullLoad waits out a load in flight, then takes its own.                *)
FullLoad ==
    /\ phase = "copy"
    /\ StartLoad("pass")
    /\ phase' = "loading" /\ UNCHANGED opener

(* syncAll after a pass that threw: the classic reload of everything, a    *)
(* no-op while a load is in flight. A stale engine's full load that was    *)
(* still waiting for one runs after it ("leftover").                       *)
Reload ==
    /\ \/ opener = "reload"
       \/ opener = "leftover" /\ loader = "none" /\ (phase = "idle" \/ "reload" \in Gaps)
    /\ IF loader = "none" THEN StartLoad("fallback")
       ELSE UNCHANGED <<server, device, tab, next, more, rows, answer, resynced, pages, again, load, env>>
    /\ opener' = "settled" /\ UNCHANGED phase

(* The server reads one section's list ...                                 *)
LoadFetch(i) ==
    /\ loader # "none" /\ i \in todo \ fetched
    /\ fetched' = fetched \cup {i}
    /\ got' = [got EXCEPT ![i] = table[i]]
    /\ UNCHANGED <<server, device, tab, pass, loader, todo, failed, orphan, env>>

(* ... and it reaches the screen and the saved copy, unless the user       *)
(* object has changed since the load began. A list the device cannot store *)
(* clears intact, except the invoices' own store (the "invoices" gap).     *)
LoadApply(i) ==
    /\ i \in fetched
    /\ todo' = todo \ {i} /\ fetched' = fetched \ {i}
    /\ got' = [got EXCEPT ![i] = Absent]
    /\ IF orphan THEN UNCHANGED <<screen, shown, saved, intact, faults>>
       ELSE /\ Show(i, got[i])
            /\ \/ /\ saved' = [saved EXCEPT ![i] = got[i]]
                  /\ UNCHANGED <<intact, faults>>
               \/ /\ Fault
                  /\ i \in Invoices => "invoices" \in Gaps
                  /\ intact' = (intact /\ i \in Invoices)
                  /\ UNCHANGED saved
    /\ UNCHANGED <<server, mark, who, cursor, pass, loader, failed, orphan, restarts>>

(* Mutant: a failed section's late answer is still applied.                *)
LoadFailLate(i) ==
    /\ loader # "none" /\ i \in todo
    /\ Fault
    /\ todo' = todo \ {i}
    /\ failed' = (failed \/ (loader = "pass" /\ ~orphan))
    /\ UNCHANGED <<server, device, tab, pass, loader, fetched, got, orphan, restarts>>

(* A section fails. A complete load fails with it once all have settled; a *)
(* reload shows the device's copy instead ("olderCopy": it may be older).  *)
LoadFail(i) ==
    /\ loader # "none" /\ i \in todo
    /\ Fault
    /\ todo' = todo \ {i} /\ fetched' = fetched \ {i}
    /\ got' = [got EXCEPT ![i] = Absent]
    /\ failed' = (failed \/ (loader = "pass" /\ ~orphan))
    /\ IF loader = "fallback" /\ ~orphan /\ "olderCopy" \in Gaps /\ saved[i] # Absent
       THEN Show(i, saved[i])
       ELSE UNCHANGED <<screen, shown>>
    /\ UNCHANGED <<server, device, who, cursor, intact, pass, loader, orphan, restarts>>

LoadDone ==
    /\ loader # "none" /\ todo = {}
    /\ loader' = "none" /\ failed' = FALSE /\ orphan' = FALSE
    /\ \/ /\ loader = "pass" /\ phase = "loading" /\ failed
          /\ Throws
          /\ UNCHANGED <<mark, cursor, resynced, pages, faults>>
       \/ /\ loader = "pass" /\ phase = "loading" /\ ~failed
          /\ SaveCursor(next, TRUE)
          /\ IF resynced THEN NextPage
             ELSE phase' = "ask" /\ UNCHANGED <<resynced, pages, again, opener>>
       \/ /\ loader = "fallback" \/ phase # "loading"
          /\ UNCHANGED <<mark, cursor, phase, resynced, pages, again, opener, faults>>
    /\ UNCHANGED <<server, saved, who, screen, intact, shown, next, more, rows, answer, todo, fetched, got, restarts>>

-----------------------------------------------------------------------------
(* handleSync, one D1 query at a time: the bounds, the page, the records.  *)
ReadBounds ==
    /\ phase = "ask"
    /\ phase' = IF CursorExpired(cursor) THEN "rejected" ELSE "page"
    /\ UNCHANGED <<server, device, tab, next, more, rows, answer, resynced, pages, again, opener, load, env>>

ReadPage ==
    /\ phase = "page"
    /\ rows' = PageRows(cursor)
    /\ phase' = "attach"
    /\ UNCHANGED <<server, device, tab, next, more, answer, resynced, pages, again, opener, load, env>>

ReadRecords ==
    /\ phase = "attach"
    /\ answer' = Attached(rows, Readable[who])
    /\ IF rows = {} THEN next' = cursor
       ELSE \E last \in rows : IsLast(last, rows) /\ next' = last
    /\ more' = (Cardinality(rows) = PageSize)
    /\ rows' = {}
    /\ phase' = "answer"
    /\ UNCHANGED <<server, device, tab, resynced, pages, again, opener, load, env>>

(* handlePage, resyncRequired: forget the cursor, take a full copy, once.  *)
Rejected ==
    /\ phase = "rejected"
    /\ cursor' = NoCursor /\ mark' = NoMark
    /\ resynced' = TRUE
    /\ IF resynced THEN Throws ELSE phase' = "boundary" /\ UNCHANGED <<again, opener>>
    /\ UNCHANGED <<server, saved, who, screen, intact, shown, next, more, rows, answer, pages, load, env>>

(* applyChanges: the screen, and every saved list the device can store.    *)
(* A list it cannot store clears intact; an invoice it cannot store throws.*)
Apply ==
    /\ phase = "answer"
    /\ screen' = [i \in Items |-> IF i \in DOMAIN answer THEN answer[i] ELSE screen[i]]
    /\ \E stored \in SUBSET DOMAIN answer :
         LET lost == DOMAIN answer \ stored IN
         /\ saved' = [i \in Items |-> IF i \in stored THEN answer[i] ELSE saved[i]]
         /\ intact' = (intact /\ lost \subseteq Invoices)
         /\ IF lost = {} THEN UNCHANGED faults ELSE Fault
         /\ IF lost \cap Invoices = {} THEN phase' = "applied" /\ UNCHANGED <<again, opener>> ELSE Throws
    /\ shown' = [i \in Items |-> IF i \in DOMAIN answer THEN Forgotten ELSE shown[i]]
    /\ answer' = NoAnswer
    /\ UNCHANGED <<server, mark, who, cursor, next, more, rows, resynced, pages, load, restarts>>

(* applyPage: only then is the page's cursor saved.                        *)
SavePage ==
    /\ phase = "applied"
    /\ SaveCursor(next, FALSE)
    /\ IF more THEN NextPage ELSE Synced
    /\ UNCHANGED <<server, saved, who, screen, intact, shown, next, more, rows, answer, load, restarts>>

(* A request is lost, times out, or its answer is.                         *)
FetchFails ==
    /\ phase \in Waiting
    /\ Fault
    /\ Throws
    /\ rows' = {} /\ answer' = NoAnswer
    /\ UNCHANGED <<server, device, tab, next, more, resynced, pages, load, restarts>>

-----------------------------------------------------------------------------
Restarts == restarts < MaxRestarts /\ restarts' = restarts + 1
NoPass == phase' = "idle" /\ rows' = {} /\ answer' = NoAnswer /\ again' = FALSE

(* The page is reloaded or the device restarts: memory is lost, and the    *)
(* app opens on the saved copy (loadData(false)).                          *)
Restart ==
    /\ Restarts
    /\ screen' = saved /\ shown' = [i \in Items |-> Forgotten]
    /\ cursor' = Unread /\ intact' = TRUE
    /\ NoPass /\ opener' = "opening"
    /\ loader' = "none" /\ todo' = {} /\ fetched' = {} /\ got' = Blank
    /\ failed' = FALSE /\ orphan' = FALSE
    /\ UNCHANGED <<server, device, who, next, more, resynced, pages, faults>>

(* applyAuthUser with another role or other permissions: a new engine. The *)
(* old pass is stale at its next check; a full load it was waiting to take *)
(* still starts. Access given back finds the mark it had left ("regain").  *)
ChangeAccess(w) ==
    /\ Restarts
    /\ w # who /\ who' = w
    /\ mark.who # w \/ "regain" \in Gaps
    /\ cursor' = Unread
    /\ NoPass /\ opener' = IF phase = "copy" THEN "leftover" ELSE "settled"
    /\ orphan' = (loader # "none")
    /\ UNCHANGED <<server, device, screen, intact, shown, next, more, resynced, pages, loader, todo, fetched, got, failed, faults>>

(* Signing out removes the saved copies; signing in opens on what is left  *)
(* (a no-op while a load is in flight), with the lists last shown still    *)
(* remembered. The same identity keeps its engine and the cursor in its    *)
(* memory (the "signin" gap).                                              *)
SignInAgain(w) ==
    /\ Restarts
    /\ w # who \/ "signin" \in Gaps
    /\ who' = w
    /\ saved' = Blank /\ mark' = NoMark
    /\ screen' = IF loader = "none" THEN Blank ELSE screen
    /\ orphan' = (loader # "none")
    /\ opener' = IF phase = "copy" /\ w # who THEN "leftover" ELSE "opening"
    /\ IF w = who THEN UNCHANGED <<cursor, phase, rows, answer, again>>
       ELSE cursor' = Unread /\ NoPass
    /\ UNCHANGED <<server, intact, shown, next, more, resynced, pages, loader, todo, fetched, got, failed, faults>>

(* The signed-in user's object is replaced (a name saved, a sign-in        *)
(* confirmed) with the same identity: the load in flight drops its lists.  *)
RenewUser ==
    /\ Restarts
    /\ loader = "fallback" \/ (loader = "pass" /\ "renew" \in Gaps)
    /\ ~orphan /\ orphan' = TRUE
    /\ UNCHANGED <<server, device, tab, pass, loader, todo, fetched, got, failed, faults>>

(* FULL_COPY_MAX_AGE_MS passes.                                            *)
MarkAges ==
    /\ mark.fresh
    /\ mark' = [mark EXCEPT !.fresh = FALSE]
    /\ UNCHANGED <<server, saved, tab, pass, load, env>>

-----------------------------------------------------------------------------
Write(i) ==
    /\ Put(i) \/ PutMissing(i) \/ Delete(i)
    /\ UNCHANGED <<device, tab, pass, load, env>>

PruneLog(cutoff) ==
    /\ phase # "page" \/ "prune" \in Gaps
    /\ Prune(cutoff)
    /\ UNCHANGED <<device, tab, pass, load, env>>

ServerNext ==
    \/ \E i \in Items : Write(i)
    \/ \E cutoff \in 1 .. MaxChanges : PruneLog(cutoff)

EngineNext ==
    \/ Run \/ Boundary \/ FullLoad
    \/ ReadBounds \/ ReadPage \/ ReadRecords
    \/ Rejected \/ Apply \/ SavePage
    \/ Reload \/ LoadDone
    \/ \E i \in Items : LoadFetch(i) \/ LoadApply(i)

Disturbance ==
    \/ RunAgain \/ FetchFails \/ Restart \/ RenewUser \/ MarkAges
    \/ \E i \in Items : LoadFail(i)
    \/ \E w \in Identities : ChangeAccess(w) \/ SignInAgain(w)

Next == ServerNext \/ EngineNext \/ Disturbance

Spec == Init /\ [][Next]_vars

(* A visible, online tab polls (refreshScheduler.ts), its requests are     *)
(* answered or time out, and its promise callbacks run. Nothing is assumed *)
(* of writers, faults or restarts.                                         *)
Fairness ==
    /\ WF_vars(Run) /\ WF_vars(Boundary) /\ WF_vars(FullLoad)
    /\ WF_vars(ReadBounds) /\ WF_vars(ReadPage) /\ WF_vars(ReadRecords)
    /\ WF_vars(Rejected) /\ WF_vars(Apply) /\ WF_vars(SavePage)
    /\ WF_vars(Reload) /\ WF_vars(LoadDone)
    /\ \A i \in Items : WF_vars(LoadFetch(i)) /\ WF_vars(LoadApply(i))

FairSpec == Spec /\ Fairness

-----------------------------------------------------------------------------
(* A tab whose engine is at cursor c shows every readable item whose       *)
(* changes are all at or before c as the server has it: no committed       *)
(* change is ever skipped. (deltaSyncClient.ts, takeFullCopy, applyPage,   *)
(* savedCursor; deltaSync.ts, handleSync.)                                 *)
CursorNeverSkips == cursor >= 0 => Covers(screen, cursor, Readable[who])

(* The saved mark is never ahead of the saved lists, whatever was stored   *)
(* or lost, so that a restart that starts from it misses nothing           *)
(* (deltaSyncClient.ts savedCursor; db.ts replaceSaved, mergeSaved).       *)
MarkNeverAhead ==
    mark.who \in Identities => Covers(saved, mark.cursor, Readable[mark.who])

(* The newest change row survives every pruning, so the boundary never     *)
(* drops back and no up-to-date cursor looks expired (pruneChangeLog).     *)
NewestRowKept == log # <<>> => Len(log) \in kept

(* A mark is young that was old, or another person's, only after a full copy. *)
RenewedByCopy == (mark'.fresh /\ ~(mark.fresh /\ mark.who = mark'.who)) => phase = "loading"

(* The age of a saved copy starts anew only with a full copy: catching up  *)
(* on changes never makes an old or unmarked copy usable (savedCursor).    *)
OnlyFullCopyRenewsMark == [][RenewedByCopy]_vars

(* Once changes, faults and restarts stop, the tab comes to show the       *)
(* server's rows and goes on showing them.                                 *)
Converges == <>[](\A i \in Readable[who] : screen[i] = table[i])
=============================================================================
