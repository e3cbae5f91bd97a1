------------------------------ MODULE Realtime ------------------------------
(***************************************************************************)
(* Change signals for one signed-in person: the workspace's hub            *)
(* (realtime.ts), the tabs of their browser that share one socket          *)
(* (realtimeService.ts), and each tab's choice of when to fetch            *)
(* (useEntityData.ts, refreshScheduler.ts, deltaSyncClient.ts run). What a *)
(* fetch brings is DeltaSync's; here it is the number of the last change.  *)
(*                                                                         *)
(* Two dials of one tab overlap only as a known gap ("redial"), see        *)
(* ComesOnline. Nothing evicts the hub while it waits for a socket it has  *)
(* closed, see Evict.                                                      *)
(***************************************************************************)
EXTENDS Naturals, Sequences

CONSTANTS
    Tabs, Sockets,
    None,
    MaxChanges,  \* bound: changes committed
    MaxFaults,   \* bound: breaks, lapses, sign-outs, evictions, lost signals, failed passes
    MaxMoves,    \* bound: tabs closed and hidden
    Gaps         \* known gaps of the code that may happen

ASSUME RealtimeAssumption ==
    /\ {MaxChanges, MaxFaults, MaxMoves} \subseteq Nat
    /\ None \notin Tabs \cup Sockets
    /\ Gaps \subseteq {"redial"}

VARIABLES
    version,    \* changes committed
    note,       \* a signal is on its way to the hub
    signalled,  \* the last change the hub was told of
    sock,       \* sockets, both ends and what is on the way to the browser
    held,       \* the sockets the hub has in memory
    hydrated,   \* the hub has built its memory
    announced,  \* history: what the hub last said of this person's presence
    online,     \* the browser has a network
    tab,        \* the tabs
    waiting,    \* tabs that wait for the lock, whichever gets it
    relay,      \* tab -> messages from the leader
    faults, moves

hub  == <<held, hydrated, announced>>
log  == <<version, note, signalled>>
vars == <<log, sock, hub, online, tab, waiting, relay, faults, moves>>

NoSocket == [tab |-> None, client |-> "none", hub |-> "none", lapsed |-> FALSE, mail |-> <<>>]
Closed   == [open |-> FALSE, visible |-> FALSE, leads |-> FALSE, dials |-> 0, timer |-> FALSE,
             socket |-> None, connected |-> FALSE, pending |-> FALSE,
             fetching |-> FALSE, seen |-> 0, missed |-> FALSE]
Opened   == [Closed EXCEPT !.open = TRUE, !.visible = TRUE, !.seen = version]

Mail     == {"ready", "news", "close"}
Messages == {"up", "down", "news"}
Socket   == [tab : Tabs \cup {None}, client : {"none", "opening", "open"},
             hub : {"none", "open", "closing"}, lapsed : BOOLEAN, mail : Seq(Mail)]
Tab      == [open : BOOLEAN, visible : BOOLEAN, leads : BOOLEAN, dials : Nat, timer : BOOLEAN,
             socket : Sockets \cup {None}, connected : BOOLEAN, pending : BOOLEAN,
             fetching : BOOLEAN, seen : 0..version, missed : BOOLEAN]

TypeOK ==
    /\ version \in 0..MaxChanges /\ signalled \in 0..version /\ note \in BOOLEAN
    /\ sock \in [Sockets -> Socket]
    /\ held \subseteq Sockets /\ hydrated \in BOOLEAN /\ announced \in BOOLEAN
    /\ online \in BOOLEAN
    /\ tab \in [Tabs -> Tab] /\ waiting \subseteq Tabs /\ relay \in [Tabs -> Seq(Messages)]
    /\ faults \in 0..MaxFaults /\ moves \in 0..MaxMoves

Init ==
    /\ version = 0 /\ note = FALSE /\ signalled = 0
    /\ sock = [s \in Sockets |-> NoSocket]
    /\ held = {} /\ hydrated = FALSE /\ announced = FALSE
    /\ online = TRUE
    /\ tab = [t \in Tabs |-> Opened] /\ waiting = Tabs /\ relay = [t \in Tabs |-> <<>>]
    /\ faults = 0 /\ moves = 0

Fault == faults < MaxFaults /\ faults' = faults + 1

(* A message that only repeats the one before it changes nothing.          *)
Put(q, m) == IF q # <<>> /\ q[Len(q)] = m THEN q ELSE Append(q, m)

-----------------------------------------------------------------------------
(* The hub. It forgets its memory when evicted and finds its sockets again *)
(* by what is attached to them.                                            *)
Hydrated == IF hydrated THEN held ELSE {s \in Sockets : sock[s].hub # "none"}

(* The first socket of a person is announced.                              *)
ConnectsIn(known) == announced \/ known = {}

(* connect, with a ticket of its own.                                      *)
HubConnect(s) ==
    /\ sock[s].client = "opening" /\ sock[s].hub = "none"
    /\ sock' = [sock EXCEPT ![s].hub = "open", ![s].client = "open", ![s].mail = <<"ready">>]
    /\ held' = Hydrated \cup {s} /\ hydrated' = TRUE
    /\ announced' = ConnectsIn(Hydrated)
    /\ UNCHANGED <<log, online, tab, waiting, relay, faults, moves>>

(* deliver: a socket whose lease lapsed is closed instead.                 *)
Delivered(s, m) ==
    IF sock[s].hub # "open" THEN sock[s]
    ELSE IF sock[s].lapsed
         THEN [sock[s] EXCEPT !.hub = "closing", !.mail = Append(@, "close")]
         ELSE [sock[s] EXCEPT !.mail = Put(@, m)]

Notify ==
    /\ note /\ note' = FALSE
    /\ signalled' = version
    /\ held' = Hydrated /\ hydrated' = TRUE
    /\ sock' = [s \in Sockets |-> IF s \in Hydrated THEN Delivered(s, "news") ELSE sock[s]]
    /\ UNCHANGED <<version, announced, online, tab, waiting, relay, faults, moves>>

(* The end of a socket, seen by the hub. Mutant: it announces every one.   *)
LeavesEach(left) == FALSE
Leaves(left)     == announced /\ left # {}

HubDrop(s) ==
    /\ sock[s].hub # "none" /\ sock[s].client = "none"
    /\ sock' = [sock EXCEPT ![s] = NoSocket]
    /\ held' = Hydrated \ {s} /\ hydrated' = TRUE
    /\ announced' = IF s \in Hydrated THEN Leaves(Hydrated \ {s}) ELSE announced
    /\ UNCHANGED <<log, online, tab, waiting, relay, faults, moves>>

(* The person signed out on another device: every socket is closed.        *)
Revoke ==
    /\ Fault
    /\ Hydrated # {}
    /\ sock' = [s \in Sockets |->
         IF s \in Hydrated /\ sock[s].hub = "open"
         THEN [sock[s] EXCEPT !.hub = "closing", !.mail = Append(@, "close")] ELSE sock[s]]
    /\ held' = {} /\ hydrated' = TRUE /\ announced' = FALSE
    /\ UNCHANGED <<log, online, tab, waiting, relay, moves>>

Evict ==
    /\ Fault
    /\ hydrated /\ \A s \in Sockets : sock[s].hub # "closing"
    /\ hydrated' = FALSE /\ held' = {}
    /\ UNCHANGED <<log, sock, announced, online, tab, waiting, relay, moves>>

(* The lease runs out as the browser slept through its time to renew it.   *)
Lapse(s) ==
    /\ Fault
    /\ sock[s].hub = "open" /\ ~sock[s].lapsed
    /\ sock' = [sock EXCEPT ![s].lapsed = TRUE]
    /\ UNCHANGED <<log, hub, online, tab, waiting, relay, moves>>

(* Whatever it sends then, it is closed (webSocketMessage).                *)
Late(s) ==
    /\ sock[s].client = "open" /\ sock[s].hub = "open" /\ sock[s].lapsed
    /\ sock' = [sock EXCEPT ![s] = Delivered(s, "ready")]
    /\ held' = Hydrated /\ hydrated' = TRUE
    /\ UNCHANGED <<log, announced, online, tab, waiting, relay, faults, moves>>

-----------------------------------------------------------------------------
(* The tabs.                                                               *)

(* A tab on screen fetches what it has to. A pass that is already under    *)
(* way is followed by another (deltaSyncClient.ts run).                    *)
CaughtUp(r) ==
    IF r.pending /\ r.visible THEN [r EXCEPT !.pending = FALSE, !.fetching = TRUE] ELSE r

(* A hidden tab remembers that it has something to fetch.                  *)
Heard(r) == CaughtUp([r EXCEPT !.pending = TRUE])

Others(t) == {u \in Tabs \ {t} : tab[u].open}
Relayed(t, m) == [u \in Tabs |-> IF u \in Others(t) THEN Put(relay[u], m) ELSE relay[u]]

(* start: a tab that opens loads everything, and asks the leader whether   *)
(* it is connected.                                                        *)
OpenTab(t) ==
    /\ ~tab[t].open
    /\ tab' = [tab EXCEPT ![t] = Opened]
    /\ relay' = [relay EXCEPT ![t] =
         IF \E u \in Tabs : tab[u].leads THEN IF \E u \in Tabs : tab[u].leads /\ tab[u].connected
                                              THEN <<"up">> ELSE <<"down">>
         ELSE <<>>]
    /\ waiting' = waiting \cup {t}
    /\ UNCHANGED <<log, sock, hub, online, faults, moves>>

(* Closed, or stopped on signing out, which tells the others. Mutant: the  *)
(* socket stays open.                                                      *)
SocketsKept(t) == sock
HungUp(t) ==
    [s \in Sockets |->
       IF sock[s].tab # t THEN sock[s]
       ELSE IF sock[s].hub = "none" THEN NoSocket
       ELSE [sock[s] EXCEPT !.client = "none", !.mail = <<>>]]

CloseTab(t, stops) ==
    /\ tab[t].open /\ moves < MaxMoves /\ moves' = moves + 1
    /\ tab' = [tab EXCEPT ![t] = Closed]
    /\ sock' = HungUp(t)
    /\ relay' = [IF stops /\ tab[t].leads /\ tab[t].connected THEN Relayed(t, "down") ELSE relay
                 EXCEPT ![t] = <<>>]
    /\ waiting' = waiting \ {t}
    /\ UNCHANGED <<log, hub, online, faults>>

(* The lock is free: what the last leader said no longer holds. Mutant: it *)
(* is kept.                                                                *)
TakeoverKeeps(r) == [r EXCEPT !.leads = TRUE, !.timer = TRUE]
Takeover(r)      == [r EXCEPT !.leads = TRUE, !.timer = TRUE, !.connected = FALSE]

Elect(t) ==
    /\ t \in waiting /\ \A u \in Tabs : ~tab[u].leads
    /\ tab' = [tab EXCEPT ![t] = Takeover(tab[t])]
    /\ waiting' = waiting \ {t}
    /\ UNCHANGED <<log, sock, hub, online, relay, faults, moves>>

(* connect, up to its wait for a ticket.                                   *)
Dial(t) ==
    /\ tab[t].timer
    /\ tab' = [tab EXCEPT ![t].timer = FALSE,
         ![t].dials = IF tab[t].socket = None /\ online THEN @ + 1 ELSE @]
    /\ UNCHANGED <<log, sock, hub, online, waiting, relay, faults, moves>>

Ticket(t, s) ==
    /\ tab[t].dials > 0 /\ sock[s] = NoSocket
    /\ sock' = [sock EXCEPT ![s].tab = t, ![s].client = "opening"]
    /\ tab' = [tab EXCEPT ![t].dials = @ - 1, ![t].socket = s]
    /\ UNCHANGED <<log, hub, online, waiting, relay, faults, moves>>

NoTicket(t) ==
    /\ Fault
    /\ tab[t].dials > 0
    /\ tab' = [tab EXCEPT ![t].dials = @ - 1, ![t].timer = TRUE]
    /\ UNCHANGED <<log, sock, hub, online, waiting, relay, moves>>

GoesOffline ==
    /\ Fault
    /\ online /\ online' = FALSE
    /\ UNCHANGED <<log, sock, hub, tab, waiting, relay, moves>>

(* onOnline. With the gap, while a dial waits for its ticket.              *)
ComesOnline ==
    /\ ~online /\ online' = TRUE
    /\ "redial" \notin Gaps => \A t \in Tabs : tab[t].dials = 0
    /\ tab' = [t \in Tabs |->
         IF tab[t].leads /\ tab[t].socket = None THEN [tab[t] EXCEPT !.timer = TRUE] ELSE tab[t]]
    /\ UNCHANGED <<log, sock, hub, waiting, relay, faults, moves>>

(* onSocketClose. Mutant: it does not dial again.                          *)
ShutForGood(r, s) == [r EXCEPT !.socket = IF @ = s THEN None ELSE @, !.connected = FALSE]
Shut(r, s) == [r EXCEPT !.socket = IF @ = s THEN None ELSE @, !.timer = TRUE, !.connected = FALSE]

Ends(s) ==
    LET t == sock[s].tab IN
    /\ sock' = [sock EXCEPT ![s] = IF sock[s].hub = "none" THEN NoSocket
                                   ELSE [sock[s] EXCEPT !.client = "none", !.mail = <<>>]]
    /\ tab' = [tab EXCEPT ![t] = Shut(tab[t], s)]
    /\ relay' = IF tab[t].connected THEN Relayed(t, "down") ELSE relay
    /\ UNCHANGED <<log, hub, online, waiting, moves>>

(* The connection breaks, or is refused; what was on the way is lost.      *)
Break(s) == Fault /\ sock[s].client # "none" /\ Ends(s)

(* onSocketMessage. The first "ready" after a gap catches up on whatever   *)
(* was missed.                                                             *)
Ready(t) ==
    LET first == ~tab[t].connected
        up    == Relayed(t, "up") IN
    /\ tab' = [tab EXCEPT ![t] = IF first THEN Heard([tab[t] EXCEPT !.connected = TRUE]) ELSE @]
    /\ relay' = IF first THEN [u \in Tabs |-> IF u \in Others(t) THEN Put(up[u], "news") ELSE up[u]]
                ELSE up

Receive(s) ==
    LET t == sock[s].tab IN
    /\ sock[s].client = "open" /\ sock[s].mail # <<>>
    /\ \/ Head(sock[s].mail) = "close" /\ Ends(s)
       \/ /\ Head(sock[s].mail) # "close"
          /\ sock' = [sock EXCEPT ![s].mail = Tail(@)]
          /\ \/ Head(sock[s].mail) = "ready" /\ Ready(t)
             \/ /\ Head(sock[s].mail) = "news"
                /\ tab' = [tab EXCEPT ![t] = Heard(tab[t])]
                /\ relay' = Relayed(t, "news")
          /\ UNCHANGED <<log, hub, online, waiting, moves>>
    /\ UNCHANGED faults

(* onTabMessage: the leader is the source, not a follower.                 *)
Told(r, m) ==
    IF r.leads THEN r ELSE IF m = "news" THEN Heard(r) ELSE [r EXCEPT !.connected = (m = "up")]

Hear(t) ==
    /\ relay[t] # <<>>
    /\ tab' = [tab EXCEPT ![t] = Told(tab[t], Head(relay[t]))]
    /\ relay' = [relay EXCEPT ![t] = Tail(@)]
    /\ UNCHANGED <<log, sock, hub, online, waiting, faults, moves>>

Hide(t) ==
    /\ tab[t].open /\ tab[t].visible /\ moves < MaxMoves /\ moves' = moves + 1
    /\ tab' = [tab EXCEPT ![t].visible = FALSE]
    /\ UNCHANGED <<log, sock, hub, online, waiting, relay, faults>>

Show(t) ==
    /\ tab[t].open /\ ~tab[t].visible
    /\ tab' = [tab EXCEPT ![t] = CaughtUp([tab[t] EXCEPT !.visible = TRUE])]
    /\ UNCHANGED <<log, sock, hub, online, waiting, relay, faults, moves>>

(* The scheduler's own turn, at its longest ten minutes after the last.    *)
(* Mutant: only while no socket brings signals.                            *)
DueUnconnected(t) == tab[t].visible /\ online /\ ~tab[t].connected
Due(t)            == tab[t].visible /\ online

SafetySync(t) ==
    /\ tab[t].open /\ ~tab[t].fetching /\ Due(t)
    /\ tab[t].seen # version \/ tab[t].missed
    /\ tab' = [tab EXCEPT ![t].fetching = TRUE]
    /\ UNCHANGED <<log, sock, hub, online, waiting, relay, faults, moves>>

Fetch(t) ==
    /\ tab[t].fetching
    /\ tab' = [tab EXCEPT ![t].fetching = FALSE, ![t].seen = version, ![t].missed = FALSE]
    /\ UNCHANGED <<log, sock, hub, online, waiting, relay, faults, moves>>

(* A pass that fails is not followed by another, asked for or not.         *)
FetchFails(t) ==
    /\ Fault
    /\ tab[t].fetching
    /\ tab' = [tab EXCEPT ![t].fetching = FALSE, ![t].missed = TRUE]
    /\ UNCHANGED <<log, sock, hub, online, waiting, relay, moves>>

-----------------------------------------------------------------------------
Commit ==
    /\ version < MaxChanges
    /\ version' = version + 1 /\ note' = TRUE
    /\ UNCHANGED <<signalled, sock, hub, online, tab, waiting, relay, faults, moves>>

LoseNote ==
    /\ Fault
    /\ note /\ note' = FALSE
    /\ UNCHANGED <<version, signalled, sock, hub, online, tab, waiting, relay, moves>>

Next ==
    \/ Commit \/ Notify \/ LoseNote \/ Revoke \/ Evict \/ GoesOffline \/ ComesOnline
    \/ \E s \in Sockets :
         HubConnect(s) \/ HubDrop(s) \/ Lapse(s) \/ Late(s) \/ Break(s) \/ Receive(s)
    \/ \E t \in Tabs :
         \/ OpenTab(t) \/ Elect(t) \/ Dial(t) \/ NoTicket(t) \/ Hear(t) \/ Hide(t) \/ Show(t)
         \/ SafetySync(t) \/ Fetch(t) \/ FetchFails(t)
         \/ \E s \in Sockets : Ticket(t, s)
         \/ \E stops \in BOOLEAN : CloseTab(t, stops)

Spec == Init /\ [][Next]_vars

(* Timers fire, locks are granted, passes end, the network comes back, and *)
(* what is sent arrives or breaks.                                         *)
FairSpec ==
    /\ Spec
    /\ WF_vars(ComesOnline)
    /\ \A s \in Sockets : WF_vars(HubConnect(s)) /\ WF_vars(HubDrop(s)) /\ WF_vars(Receive(s))
    /\ \A t \in Tabs :
         /\ WF_vars(Elect(t)) /\ WF_vars(Dial(t)) /\ WF_vars(\E s \in Sockets : Ticket(t, s))
         /\ WF_vars(Hear(t))
         /\ WF_vars(SafetySync(t)) /\ WF_vars(Fetch(t))

-----------------------------------------------------------------------------
Settled(s) == sock[s].mail = <<>> /\ (sock[s].client = "open" <=> sock[s].hub = "open") /\ ~sock[s].lapsed

(* While the leader counts as connected, a tab on screen whose last pass   *)
(* did not fail, with nothing on the way to it, has fetched every change   *)
(* the hub was told of: whatever broke, lapsed or moved to another tab     *)
(* before (realtimeService.ts:14, useEntityData.ts:512).                   *)
FetchesWhatItHears ==
    \A t \in Tabs :
      /\ tab[t].open /\ tab[t].visible
      /\ ~tab[t].fetching /\ ~tab[t].missed /\ relay[t] = <<>>
      /\ \E u \in Tabs : tab[u].leads /\ tab[u].connected
      /\ \A s \in Sockets : Settled(s)
      => tab[t].seen >= signalled

(* One socket for the browser, whichever tab holds it                      *)
(* (realtimeService.ts:2).                                                 *)
OneSocket == \A r, s \in Sockets : sock[r].client # "none" /\ sock[s].client # "none" => r = s

(* What colleagues were last told of this person's presence is true of the *)
(* sockets the hub has, when it is closing none (realtime.ts dropSocket,   *)
(* connect, revokeUser).                                                   *)
PresenceIsTrue ==
    (\A s \in Sockets : sock[s].hub # "closing")
      => (announced <=> \E s \in Sockets : sock[s].hub = "open")

(* A tab left on screen shows every change at last, whatever signal, pass  *)
(* or socket was lost (refreshScheduler.ts, useEntityData.ts:481).         *)
SeenAtLast == \A t \in Tabs : <>[](tab[t].open /\ tab[t].visible => tab[t].seen = version)

(* However sockets, tickets, tabs and the network fail, the browser is     *)
(* connected again at last, and every tab knows it (scheduleReconnect).    *)
Reconnects == \A t \in Tabs : <>[](tab[t].open => tab[t].connected)
=============================================================================
