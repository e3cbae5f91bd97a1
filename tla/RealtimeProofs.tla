---------------------------- MODULE RealtimeProofs ----------------------------
(***************************************************************************)
(* Proofs about Realtime, for any tabs, sockets and bounds: types, that    *)
(* presence is true, that the browser has one socket, and that a tab that  *)
(* counts as connected has every change the hub was told of. The first two *)
(* hold with the gap open.                                                 *)
(***************************************************************************)
EXTENDS Realtime, TLAPS

USE RealtimeAssumption

-----------------------------------------------------------------------------
(* What is put on a channel and taken from it.                             *)

Has(q, m) == \E i \in 1..Len(q) : q[i] = m

LEMMA PutHas ==
    ASSUME NEW S, NEW q \in Seq(S), NEW m \in S
    PROVE  /\ Put(q, m) \in Seq(S) /\ Has(Put(q, m), m)
           /\ \A x : Has(q, x) => Has(Put(q, m), x)
<1>1. CASE q # <<>> /\ q[Len(q)] = m
  <2>1. Len(q) \in 1..Len(q)
    BY <1>1
  <2> QED BY <1>1, <2>1 DEF Put, Has
<1>2. CASE ~(q # <<>> /\ q[Len(q)] = m)
  <2>1. Append(q, m) \in Seq(S) /\ Len(Append(q, m)) = Len(q) + 1
    OBVIOUS
  <2>2. Append(q, m)[Len(q) + 1] = m /\ \A i \in 1..Len(q) : Append(q, m)[i] = q[i]
    OBVIOUS
  <2>3. Len(q) \in Nat
    OBVIOUS
  <2>4. 1..Len(q) \subseteq 1..(Len(q) + 1) /\ Len(q) + 1 \in 1..(Len(q) + 1)
    BY <2>3
  <2> QED BY <1>2, <2>1, <2>2, <2>4 DEF Put, Has
<1> QED BY <1>1, <1>2

LEMMA TailHas ==
    ASSUME NEW S, NEW q \in Seq(S), q # <<>>
    PROVE  /\ Tail(q) \in Seq(S) /\ Head(q) \in S
           /\ \A x : Has(q, x) /\ x # Head(q) => Has(Tail(q), x)
<1>1. Tail(q) \in Seq(S) /\ Head(q) \in S /\ Head(q) = q[1] /\ Len(Tail(q)) = Len(q) - 1
  OBVIOUS
<1>2. \A i \in 1..(Len(q) - 1) : Tail(q)[i] = q[i + 1]
  OBVIOUS
<1>3. ASSUME NEW x, NEW i \in 1..Len(q), q[i] = x, x # Head(q) PROVE Has(Tail(q), x)
  <2>1. i # 1 /\ Len(q) \in Nat
    BY <1>1, <1>3
  <2>2. i - 1 \in 1..(Len(q) - 1) /\ (i - 1) + 1 = i
    BY <2>1
  <2> QED BY <1>1, <1>2, <1>3, <2>2 DEF Has
<1> QED BY <1>1, <1>3 DEF Has

LEMMA Empty == ASSUME NEW S PROVE <<>> \in Seq(S) /\ \A x : ~Has(<<>>, x)
BY DEF Has

LEMMA One == ASSUME NEW S, NEW m \in S PROVE <<m>> \in Seq(S)
OBVIOUS

-----------------------------------------------------------------------------
(* Types.                                                                  *)
LEMMA Starts == NoSocket \in Socket /\ (version \in Nat => Closed \in Tab /\ Opened \in Tab)
<1>1. <<>> \in Seq(Mail)
  BY Empty
<1>2. NoSocket \in Socket
  BY <1>1 DEF NoSocket, Socket
<1>3. version \in Nat => Closed \in Tab
  BY DEF Closed, Tab
<1>4. version \in Nat => Opened \in Tab
  <2>1. version \in Nat => version \in 0..version
    OBVIOUS
  <2> QED BY <1>3, <2>1 DEF Opened, Tab
<1> QED BY <1>2, <1>3, <1>4

LEMMA TabTyped == ASSUME TypeOK, NEW t \in Tabs PROVE tab[t] \in Tab
BY DEF TypeOK

LEMMA SocketTyped == ASSUME TypeOK, NEW s \in Sockets PROVE sock[s] \in Socket
BY DEF TypeOK

LEMMA HeardTyped ==
    ASSUME NEW r \in Tab
    PROVE  CaughtUp(r) \in Tab /\ Heard(r) \in Tab /\ Takeover(r) \in Tab
BY DEF CaughtUp, Heard, Takeover, Tab

LEMMA ShutTyped == ASSUME NEW r \in Tab, NEW s PROVE Shut(r, s) \in Tab
BY DEF Shut, Tab

LEMMA ToldTyped == ASSUME NEW r \in Tab, NEW m PROVE Told(r, m) \in Tab
BY HeardTyped DEF Told, Tab

LEMMA DeliveredTyped ==
    ASSUME TypeOK, NEW s \in Sockets, NEW m \in Mail
    PROVE  Delivered(s, m) \in Socket
<1>1. sock[s].mail \in Seq(Mail) /\ sock[s] \in Socket
  BY SocketTyped DEF Socket
<1>2. Append(sock[s].mail, "close") \in Seq(Mail)
  BY <1>1 DEF Mail
<1>3. Put(sock[s].mail, m) \in Seq(Mail)
  BY <1>1, PutHas
<1> QED BY <1>1, <1>2, <1>3 DEF Delivered, Socket

LEMMA RelayedTyped ==
    ASSUME TypeOK, NEW t, NEW m \in Messages
    PROVE  /\ Relayed(t, m) \in [Tabs -> Seq(Messages)]
           /\ \A u \in Others(t) : Has(Relayed(t, m)[u], m)
           /\ \A u \in Tabs : \A x : Has(relay[u], x) => Has(Relayed(t, m)[u], x)
<1>1. \A u \in Tabs : relay[u] \in Seq(Messages)
  BY DEF TypeOK
<1>2. Others(t) \subseteq Tabs
  BY DEF Others
<1> QED BY <1>1, <1>2, PutHas DEF Relayed

LEMMA HungUpTyped == ASSUME TypeOK, NEW t PROVE HungUp(t) \in [Sockets -> Socket]
BY Starts, SocketTyped, Empty DEF HungUp, Socket

LEMMA HydratedTyped == ASSUME TypeOK PROVE Hydrated \subseteq Sockets
BY DEF Hydrated, TypeOK

(* A step of one tab or one socket.                                        *)
LEMMA TabStep ==
    ASSUME TypeOK, NEW t \in Tabs, NEW r \in Tab, tab' = [tab EXCEPT ![t] = r], version' = version
    PROVE  tab' \in [Tabs -> Tab'] /\ tab'[t] = r /\ \A u \in Tabs \ {t} : tab'[u] = tab[u]
BY DEF TypeOK, Tab

LEMMA SocketStep ==
    ASSUME TypeOK, NEW s \in Sockets, NEW r \in Socket, sock' = [sock EXCEPT ![s] = r]
    PROVE  sock' \in [Sockets -> Socket] /\ sock'[s] = r /\ \A x \in Sockets \ {s} : sock'[x] = sock[x]
BY DEF TypeOK

(* What the steps of the hub make of the sockets, and those of the tabs of *)
(* a tab.                                                                  *)
LEMMA HubTyped ==
    ASSUME TypeOK, NEW s \in Sockets
    PROVE  /\ HubConnect(s) \/ HubDrop(s) \/ Lapse(s) \/ Late(s) => sock' \in [Sockets -> Socket]
           /\ Notify \/ Revoke => sock' \in [Sockets -> Socket]
<1>1. sock[s] \in Socket /\ <<"ready">> \in Seq(Mail)
  BY SocketTyped, One DEF Mail
<1>2. ASSUME HubConnect(s) PROVE sock' \in [Sockets -> Socket]
  BY <1>1, <1>2 DEF HubConnect, TypeOK, Socket
<1>3. ASSUME HubDrop(s) PROVE sock' \in [Sockets -> Socket]
  BY <1>3, Starts, SocketStep DEF HubDrop
<1>4. ASSUME Lapse(s) PROVE sock' \in [Sockets -> Socket]
  BY <1>1, <1>4 DEF Lapse, TypeOK, Socket
<1>5. ASSUME Late(s) PROVE sock' \in [Sockets -> Socket]
  BY <1>5, DeliveredTyped, SocketStep DEF Late, Mail
<1>6. ASSUME Notify PROVE sock' \in [Sockets -> Socket]
  BY <1>6, DeliveredTyped, SocketTyped DEF Notify, Mail
<1>7. ASSUME Revoke PROVE sock' \in [Sockets -> Socket]
  <2>1. \A x \in Sockets : sock[x] \in Socket /\ Append(sock[x].mail, "close") \in Seq(Mail)
    BY SocketTyped DEF Socket, Mail
  <2>2. \A x \in Sockets : [sock[x] EXCEPT !.hub = "closing", !.mail = Append(@, "close")] \in Socket
    BY <2>1 DEF Socket
  <2> QED BY <1>7, <2>1, <2>2 DEF Revoke
<1> QED BY <1>2, <1>3, <1>4, <1>5, <1>6, <1>7

LEMMA EndsTyped ==
    ASSUME TypeOK, NEW s \in Sockets, sock[s].tab \in Tabs, Ends(s)
    PROVE  sock' \in [Sockets -> Socket] /\ tab' \in [Tabs -> Tab'] /\ relay' \in [Tabs -> Seq(Messages)]
<1>1. sock[s] \in Socket /\ [sock[s] EXCEPT !.client = "none", !.mail = <<>>] \in Socket
  BY SocketTyped, Empty DEF Socket
<1>2. sock' \in [Sockets -> Socket]
  BY <1>1, Starts DEF Ends, TypeOK
<1>3. tab' \in [Tabs -> Tab']
  BY TabTyped, ShutTyped, TabStep DEF Ends, log
<1>4. relay' \in [Tabs -> Seq(Messages)]
  BY RelayedTyped DEF Ends, Messages, TypeOK
<1> QED BY <1>2, <1>3, <1>4

LEMMA ReadyTyped ==
    ASSUME TypeOK, NEW t \in Tabs, Ready(t), version' = version
    PROVE  tab' \in [Tabs -> Tab'] /\ relay' \in [Tabs -> Seq(Messages)]
<1>1. tab[t] \in Tab /\ [tab[t] EXCEPT !.connected = TRUE] \in Tab
  BY TabTyped DEF Tab
<1>2. tab' \in [Tabs -> Tab']
  BY <1>1, HeardTyped, TabStep DEF Ready
<1>3. \A u \in Tabs : Relayed(t, "up")[u] \in Seq(Messages) /\ Put(Relayed(t, "up")[u], "news") \in Seq(Messages)
  BY RelayedTyped, PutHas DEF Messages
<1>4. Relayed(t, "up") \in [Tabs -> Seq(Messages)]
  BY RelayedTyped DEF Messages
<1> QED BY <1>2, <1>3, <1>4 DEF Ready

(* A socket that has a client end has its tab.                             *)
Owned == \A s \in Sockets : sock[s].client # "none" => sock[s].tab \in Tabs
Typed == TypeOK /\ Owned

LEMMA SameTabs == ASSUME TypeOK, version' \in Nat, version <= version' PROVE tab \in [Tabs -> Tab']
<1>1. 0..version \subseteq 0..version'
  BY DEF TypeOK
<1> QED BY <1>1 DEF TypeOK, Tab

(* The actions of a tab.                                                   *)
TabActs(t) ==
    \/ OpenTab(t) \/ Elect(t) \/ Dial(t) \/ NoTicket(t) \/ Hear(t) \/ Hide(t) \/ Show(t)
    \/ SafetySync(t) \/ Fetch(t) \/ FetchFails(t)
    \/ \E s \in Sockets : Ticket(t, s)
    \/ \E stops \in BOOLEAN : CloseTab(t, stops)

LEMMA TabsTyped ==
    ASSUME TypeOK, NEW t \in Tabs,
           TabActs(t)
    PROVE  tab' \in [Tabs -> Tab']
<1>0. tab[t] \in Tab /\ version \in Nat
  BY TabTyped DEF TypeOK
<1>1. ASSUME NEW r \in Tab, tab' = [tab EXCEPT ![t] = r], version' = version PROVE tab' \in [Tabs -> Tab']
  BY <1>1, TabStep
<1>2. CASE OpenTab(t) \/ \E stops \in BOOLEAN : CloseTab(t, stops)
  BY <1>0, <1>1, <1>2, Starts DEF OpenTab, CloseTab, log
<1>3. CASE Elect(t) \/ Hear(t)
  BY <1>0, <1>1, <1>3, HeardTyped, ToldTyped DEF Elect, Hear, log
<1>4. CASE Show(t)
  <2>1. [tab[t] EXCEPT !.visible = TRUE] \in Tab
    BY <1>0 DEF Tab
  <2> QED BY <1>1, <1>4, <2>1, HeardTyped DEF Show, log
<1>5. CASE Dial(t)
  <2>1. [tab[t] EXCEPT !.timer = FALSE,
           !.dials = IF tab[t].socket = None /\ online THEN @ + 1 ELSE @] \in Tab
    <3>1. tab[t].dials \in Nat
      BY <1>0 DEF Tab
    <3>2. (IF tab[t].socket = None /\ online THEN tab[t].dials + 1 ELSE tab[t].dials) \in Nat
      BY <3>1
    <3> QED BY <1>0, <3>2 DEF Tab
  <2> QED BY <1>1, <1>5, <2>1 DEF Dial, log, TypeOK
<1>6. CASE NoTicket(t)
  <2>1. tab[t].dials - 1 \in Nat
    BY <1>0, <1>6 DEF NoTicket, Tab
  <2>2. [tab[t] EXCEPT !.dials = @ - 1, !.timer = TRUE] \in Tab
    BY <1>0, <2>1 DEF Tab
  <2> QED BY <1>1, <1>6, <2>2 DEF NoTicket, log, TypeOK
<1>7. CASE \E s \in Sockets : Ticket(t, s)
  <2>1. PICK s \in Sockets : Ticket(t, s)
    BY <1>7
  <2>2. tab[t].dials - 1 \in Nat
    BY <1>0, <2>1 DEF Ticket, Tab
  <2>3. [tab[t] EXCEPT !.dials = @ - 1, !.socket = s] \in Tab
    BY <1>0, <2>2 DEF Tab
  <2> QED BY <1>1, <2>1, <2>3 DEF Ticket, log, TypeOK
<1>8. CASE Hide(t) \/ SafetySync(t) \/ FetchFails(t)
  <2>1. /\ [tab[t] EXCEPT !.visible = FALSE] \in Tab
        /\ [tab[t] EXCEPT !.fetching = TRUE] \in Tab
        /\ [tab[t] EXCEPT !.fetching = FALSE, !.missed = TRUE] \in Tab
    BY <1>0 DEF Tab
  <2> QED BY <1>1, <1>8, <2>1 DEF Hide, SafetySync, FetchFails, log, TypeOK
<1>9. CASE Fetch(t)
  <2>1. version \in 0..version
    BY <1>0
  <2>2. [tab[t] EXCEPT !.fetching = FALSE, !.seen = version, !.missed = FALSE] \in Tab
    BY <1>0, <2>1 DEF Tab
  <2> QED BY <1>1, <1>9, <2>2 DEF Fetch, log, TypeOK
<1> QED BY <1>2, <1>3, <1>4, <1>5, <1>6, <1>7, <1>8, <1>9 DEF TabActs

LEMMA ReceiveTyped ==
    ASSUME Typed, NEW s \in Sockets, Receive(s)
    PROVE  sock' \in [Sockets -> Socket] /\ tab' \in [Tabs -> Tab'] /\ relay' \in [Tabs -> Seq(Messages)]
<1>1. TypeOK /\ sock[s].tab \in Tabs /\ sock[s] \in Socket /\ sock[s].mail \in Seq(Mail) /\ sock[s].mail # <<>>
  BY SocketTyped DEF Receive, Typed, Owned, Socket
<1>2. CASE Ends(s)
  BY <1>1, <1>2, EndsTyped
<1>3. CASE ~Ends(s)
  <2>1. sock' = [sock EXCEPT ![s].mail = Tail(@)] /\ version' = version
    BY <1>3 DEF Receive, log
  <2>2. [sock[s] EXCEPT !.mail = Tail(@)] \in Socket
    BY <1>1, TailHas DEF Socket
  <2>3. sock' \in [Sockets -> Socket]
    BY <1>1, <2>1, <2>2 DEF TypeOK
  <2>4. CASE Ready(sock[s].tab)
    BY <1>1, <2>1, <2>3, <2>4, ReadyTyped
  <2>5. CASE /\ tab' = [tab EXCEPT ![sock[s].tab] = Heard(tab[sock[s].tab])]
             /\ relay' = Relayed(sock[s].tab, "news")
    <3>1. tab' \in [Tabs -> Tab']
      BY <1>1, <2>1, <2>5, TabTyped, HeardTyped, TabStep
    <3>2. relay' \in [Tabs -> Seq(Messages)]
      BY <1>1, <2>5, RelayedTyped DEF Messages
    <3> QED BY <2>3, <3>1, <3>2
  <2> QED BY <1>3, <2>4, <2>5 DEF Receive
<1> QED BY <1>2, <1>3

(* Relays change as tabs open, close and hear.                             *)
LEMMA RelayTyped ==
    ASSUME TypeOK, NEW t \in Tabs
    PROVE  OpenTab(t) \/ Hear(t) \/ (\E stops \in BOOLEAN : CloseTab(t, stops)) => relay' \in [Tabs -> Seq(Messages)]
<1>0. relay \in [Tabs -> Seq(Messages)]
  BY DEF TypeOK
<1>1. ASSUME OpenTab(t) PROVE relay' \in [Tabs -> Seq(Messages)]
  <2>1. /\ <<>> \in Seq(Messages) /\ <<"up">> \in Seq(Messages) /\ <<"down">> \in Seq(Messages)
    BY Empty, One DEF Messages
  <2> QED BY <1>0, <1>1, <2>1 DEF OpenTab
<1>2. ASSUME Hear(t) PROVE relay' \in [Tabs -> Seq(Messages)]
  BY <1>0, <1>2, TailHas DEF Hear
<1>3. ASSUME NEW stops, CloseTab(t, stops) PROVE relay' \in [Tabs -> Seq(Messages)]
  <2>1. Relayed(t, "down") \in [Tabs -> Seq(Messages)] /\ <<>> \in Seq(Messages)
    BY RelayedTyped, Empty DEF Messages
  <2> QED BY <1>0, <1>3, <2>1 DEF CloseTab
<1> QED BY <1>1, <1>2, <1>3

LEMMA TabSteps ==
    ASSUME TypeOK, NEW t \in Tabs
    PROVE  /\ \A s \in Sockets : Ticket(t, s) => sock' \in [Sockets -> Socket]
           /\ \A stops : CloseTab(t, stops) => sock' \in [Sockets -> Socket]
<1>1. ASSUME NEW s \in Sockets, Ticket(t, s) PROVE sock' \in [Sockets -> Socket]
  <2>1. [sock[s] EXCEPT !.tab = t, !.client = "opening"] \in Socket
    BY SocketTyped DEF Socket
  <2> QED BY <1>1, <2>1 DEF Ticket, TypeOK
<1> QED BY <1>1, HungUpTyped DEF CloseTab

(* What the actions leave alone.                                           *)
LEMMA Kinds ==
    ASSUME [Next]_vars
    PROVE  \/ Commit \/ LoseNote \/ Notify \/ Revoke \/ Evict \/ GoesOffline \/ ComesOnline
           \/ \E s \in Sockets :
                 HubConnect(s) \/ HubDrop(s) \/ Lapse(s) \/ Late(s) \/ Break(s) \/ Receive(s)
           \/ \E t \in Tabs : TabActs(t)
           \/ UNCHANGED vars
BY Zenon DEF Next, TabActs

LEMMA SockAlone ==
    /\ Commit \/ LoseNote \/ Evict \/ GoesOffline \/ ComesOnline \/ UNCHANGED vars => UNCHANGED sock
    /\ \A t \in Tabs : TabActs(t) =>
         \/ UNCHANGED sock
         \/ \E s \in Sockets : Ticket(t, s)
         \/ \E stops \in BOOLEAN : CloseTab(t, stops)
BY DEF Commit, LoseNote, Evict, GoesOffline, ComesOnline, vars, TabActs,
   OpenTab, Elect, Dial, NoTicket, Hear, Hide, Show, SafetySync, Fetch, FetchFails

LEMMA HubAlone ==
    /\ Commit \/ LoseNote \/ GoesOffline \/ ComesOnline \/ UNCHANGED vars => UNCHANGED hub
    /\ \A t \in Tabs : TabActs(t) => UNCHANGED hub
    /\ \A s \in Sockets : Lapse(s) \/ Break(s) \/ Receive(s) => UNCHANGED hub
BY DEF Commit, LoseNote, GoesOffline, ComesOnline, vars, TabActs, hub, Ticket, CloseTab,
   OpenTab, Elect, Dial, NoTicket, Hear, Hide, Show, SafetySync, Fetch, FetchFails,
   Lapse, Break, Receive, Ends

LEMMA LogAlone ==
    /\ Revoke \/ Evict \/ GoesOffline \/ ComesOnline \/ UNCHANGED vars => UNCHANGED log
    /\ \A t \in Tabs : TabActs(t) => UNCHANGED log
    /\ \A s \in Sockets :
         HubConnect(s) \/ HubDrop(s) \/ Lapse(s) \/ Late(s) \/ Break(s) \/ Receive(s) => UNCHANGED log
<1>1. \A t \in Tabs : TabActs(t) => UNCHANGED log
  BY DEF TabActs, log, Ticket, CloseTab,
     OpenTab, Elect, Dial, NoTicket, Hear, Hide, Show, SafetySync, Fetch, FetchFails
<1>2. \A s \in Sockets :
         HubConnect(s) \/ HubDrop(s) \/ Lapse(s) \/ Late(s) \/ Break(s) \/ Receive(s) => UNCHANGED log
  BY DEF log, HubConnect, HubDrop, Lapse, Late, Break, Receive, Ends
<1> QED BY <1>1, <1>2 DEF Revoke, Evict, GoesOffline, ComesOnline, vars, log

LEMMA TabsAlone ==
    /\ Commit \/ LoseNote \/ Notify \/ Revoke \/ Evict \/ GoesOffline \/ UNCHANGED vars =>
         UNCHANGED <<tab, waiting, relay>>
    /\ ComesOnline => UNCHANGED <<waiting, relay>>
    /\ \A s \in Sockets :
         /\ HubConnect(s) \/ HubDrop(s) \/ Lapse(s) \/ Late(s) => UNCHANGED <<tab, waiting, relay>>
         /\ Break(s) \/ Receive(s) => UNCHANGED waiting
    /\ \A t \in Tabs : TabActs(t) =>
         \/ UNCHANGED relay
         \/ OpenTab(t) \/ Hear(t) \/ \E stops \in BOOLEAN : CloseTab(t, stops)
<1>1. \A t \in Tabs : TabActs(t) =>
         \/ UNCHANGED relay
         \/ OpenTab(t) \/ Hear(t) \/ \E stops \in BOOLEAN : CloseTab(t, stops)
  BY DEF TabActs, Ticket, Elect, Dial, NoTicket, Hide, Show, SafetySync, Fetch, FetchFails
<1>2. \A s \in Sockets :
         /\ HubConnect(s) \/ HubDrop(s) \/ Lapse(s) \/ Late(s) => UNCHANGED <<tab, waiting, relay>>
         /\ Break(s) \/ Receive(s) => UNCHANGED waiting
  BY DEF HubConnect, HubDrop, Lapse, Late, Break, Receive, Ends
<1> QED BY <1>1, <1>2 DEF Commit, LoseNote, Notify, Revoke, Evict, GoesOffline, ComesOnline, vars

(* A client end is made by a tab, and keeps it.                            *)
SameOwner(s) == sock'[s].client # "none" => sock[s].client # "none" /\ sock'[s].tab = sock[s].tab

LEMMA DeliveredKeeps ==
    ASSUME NEW s, sock[s] \in Socket, NEW m
    PROVE  /\ Delivered(s, m).tab = sock[s].tab /\ Delivered(s, m).client = sock[s].client
           /\ Delivered(s, m).lapsed = sock[s].lapsed
           /\ Delivered(s, m).hub = IF sock[s].hub = "open" /\ sock[s].lapsed THEN "closing" ELSE sock[s].hub
           /\ sock[s].hub = "open" /\ ~sock[s].lapsed => Delivered(s, m).mail = Put(sock[s].mail, m)
           /\ sock[s].hub # "open" => Delivered(s, m) = sock[s]
BY DEF Delivered, Socket

LEMMA HubOwners ==
    ASSUME TypeOK, NEW s \in Sockets,
           Notify \/ Revoke \/ \E x \in Sockets : HubDrop(x) \/ Lapse(x) \/ Late(x)
    PROVE  SameOwner(s)
<1>0. sock[s] \in Socket
  BY SocketTyped
<1>1. CASE Notify
  BY <1>0, <1>1, DeliveredKeeps DEF Notify, SameOwner
<1>2. CASE Revoke
  BY <1>0, <1>2 DEF Revoke, SameOwner, Socket
<1>3. ASSUME NEW x \in Sockets, HubDrop(x) PROVE SameOwner(s)
  BY <1>0, <1>3 DEF HubDrop, SameOwner, TypeOK, NoSocket
<1>4. ASSUME NEW x \in Sockets, Lapse(x) PROVE SameOwner(s)
  BY <1>0, <1>4 DEF Lapse, SameOwner, TypeOK, Socket
<1>5. ASSUME NEW x \in Sockets, Late(x) PROVE SameOwner(s)
  <2>1. sock'[s] = IF s = x THEN Delivered(s, "ready") ELSE sock[s]
    BY <1>5 DEF Late, TypeOK
  <2> QED BY <1>0, <2>1, DeliveredKeeps DEF SameOwner
<1> QED BY <1>1, <1>2, <1>3, <1>4, <1>5

LEMMA EndOwners ==
    ASSUME TypeOK, NEW s \in Sockets,
           \/ \E x \in Sockets : Break(x) \/ Receive(x)
           \/ \E t \in Tabs, stops \in BOOLEAN : CloseTab(t, stops)
    PROVE  SameOwner(s)
<1>0. sock[s] \in Socket
  BY SocketTyped
<1>1. ASSUME NEW x \in Sockets, Ends(x) PROVE SameOwner(s)
  <2>1. CASE s = x
    BY <1>0, <1>1, <2>1 DEF Ends, SameOwner, TypeOK, NoSocket, Socket
  <2>2. CASE s # x
    BY <1>1, <2>2 DEF Ends, SameOwner, TypeOK
  <2> QED BY <2>1, <2>2
<1>2. ASSUME NEW x \in Sockets, sock' = [sock EXCEPT ![x].mail = Tail(@)] PROVE SameOwner(s)
  BY <1>0, <1>2 DEF SameOwner, TypeOK, Socket
<1>3. ASSUME NEW t \in Tabs, NEW stops \in BOOLEAN, CloseTab(t, stops) PROVE SameOwner(s)
  BY <1>0, <1>3 DEF CloseTab, HungUp, SameOwner, NoSocket, Socket
<1> QED BY <1>1, <1>2, <1>3 DEF Break, Receive

LEMMA OwnedStep ==
    ASSUME Typed, [Next]_vars, NEW s \in Sockets, sock'[s].client # "none"
    PROVE  sock'[s].tab \in Tabs
<1>0. TypeOK /\ (sock[s].client # "none" => sock[s].tab \in Tabs)
  BY DEF Typed, Owned
<1>1. ASSUME SameOwner(s) PROVE sock'[s].tab \in Tabs
  BY <1>0, <1>1 DEF SameOwner
<1>2. ASSUME UNCHANGED sock PROVE sock'[s].tab \in Tabs
  BY <1>0, <1>2
<1>3. ASSUME NEW x \in Sockets, HubConnect(x) PROVE sock'[s].tab \in Tabs
  <2>1. sock'[s].tab = sock[s].tab /\ (s # x => sock'[s] = sock[s])
    BY <1>0, <1>3, SocketTyped DEF HubConnect, TypeOK, Socket
  <2> QED BY <1>0, <1>3, <2>1 DEF HubConnect
<1>4. ASSUME NEW t \in Tabs, NEW x \in Sockets, Ticket(t, x) PROVE sock'[s].tab \in Tabs
  <2>1. IF s = x THEN sock'[s].tab = t ELSE sock'[s] = sock[s]
    BY <1>0, <1>4, SocketTyped DEF Ticket, TypeOK, Socket
  <2> QED BY <1>0, <2>1
<1>5. ASSUME NEW t \in Tabs, TabActs(t) PROVE sock'[s].tab \in Tabs
  BY <1>0, <1>1, <1>2, <1>4, <1>5, SockAlone, EndOwners
<1>6. ASSUME NEW x \in Sockets,
             HubConnect(x) \/ HubDrop(x) \/ Lapse(x) \/ Late(x) \/ Break(x) \/ Receive(x)
      PROVE  sock'[s].tab \in Tabs
  BY <1>0, <1>1, <1>3, <1>6, HubOwners, EndOwners
<1> QED BY <1>0, <1>1, <1>2, <1>5, <1>6, Kinds, SockAlone, HubOwners

LEMMA SockStep == ASSUME Typed, [Next]_vars PROVE sock' \in [Sockets -> Socket]
<1>0. TypeOK
  BY DEF Typed
<1>1. ASSUME UNCHANGED sock PROVE sock' \in [Sockets -> Socket]
  BY <1>0, <1>1 DEF TypeOK
<1>2. ASSUME NEW s \in Sockets, Break(s) PROVE sock' \in [Sockets -> Socket]
  BY <1>0, <1>2, EndsTyped DEF Break, Typed, Owned
<1>3. ASSUME NEW t \in Tabs, TabActs(t) PROVE sock' \in [Sockets -> Socket]
  BY <1>0, <1>1, <1>3, SockAlone, TabSteps
<1>4. CASE \E s \in Sockets : HubConnect(s) \/ HubDrop(s) \/ Lapse(s) \/ Late(s) \/ Break(s) \/ Receive(s)
  BY <1>0, <1>2, <1>4, HubTyped, ReceiveTyped
<1>5. CASE Notify \/ Revoke
  <2>1. CASE Sockets = {}
    BY <1>5, <2>1 DEF Notify, Revoke
  <2> QED BY <1>0, <1>5, <2>1, HubTyped
<1> QED BY <1>1, <1>3, <1>4, <1>5, Kinds, SockAlone

LEMMA TabsStep ==
    ASSUME Typed, [Next]_vars
    PROVE  tab' \in [Tabs -> Tab'] /\ waiting' \subseteq Tabs /\ relay' \in [Tabs -> Seq(Messages)]
<1>0. TypeOK /\ version \in Nat /\ waiting \subseteq Tabs /\ relay \in [Tabs -> Seq(Messages)]
  BY DEF Typed, TypeOK
<1>1. ASSUME UNCHANGED <<tab, waiting, relay>>, version' \in {version, version + 1}
      PROVE  tab' \in [Tabs -> Tab'] /\ waiting' \subseteq Tabs /\ relay' \in [Tabs -> Seq(Messages)]
  BY <1>0, <1>1, SameTabs
<1>2. ASSUME NEW s \in Sockets, Break(s) \/ Receive(s)
      PROVE  tab' \in [Tabs -> Tab'] /\ waiting' \subseteq Tabs /\ relay' \in [Tabs -> Seq(Messages)]
  <2>1. waiting' = waiting
    BY <1>2, TabsAlone
  <2>2. CASE Break(s)
    BY <1>0, <2>1, <2>2, EndsTyped DEF Break, Typed, Owned
  <2> QED BY <1>0, <1>2, <2>1, <2>2, ReceiveTyped
<1>3. CASE ComesOnline
  <2>1. \A t \in Tabs : [tab[t] EXCEPT !.timer = TRUE] \in Tab /\ tab[t] \in Tab
    BY <1>0, TabTyped DEF Tab
  <2>2. tab' \in [Tabs -> Tab]
    BY <1>3, <2>1 DEF ComesOnline
  <2>3. Tab' = Tab
    BY <1>3 DEF Tab, ComesOnline, log
  <2> QED BY <1>0, <1>3, <2>2, <2>3, TabsAlone
<1>4. ASSUME NEW t \in Tabs, TabActs(t)
      PROVE  tab' \in [Tabs -> Tab'] /\ waiting' \subseteq Tabs /\ relay' \in [Tabs -> Seq(Messages)]
  <2>1. waiting' \subseteq Tabs
    BY <1>0, <1>4 DEF TabActs, Ticket, CloseTab,
       OpenTab, Elect, Dial, NoTicket, Hear, Hide, Show, SafetySync, Fetch, FetchFails
  <2>2. relay' \in [Tabs -> Seq(Messages)]
    BY <1>0, <1>4, TabsAlone, RelayTyped
  <2> QED BY <1>0, <1>4, <2>1, <2>2, TabsTyped
<1>5. CASE Commit \/ LoseNote \/ Notify \/ Revoke \/ Evict \/ GoesOffline \/ UNCHANGED vars
  <2>1. version' \in {version, version + 1}
    BY <1>5 DEF Commit, LoseNote, Notify, Revoke, Evict, GoesOffline, vars, log
  <2> QED BY <1>1, <1>5, <2>1, TabsAlone
<1>6. ASSUME NEW s \in Sockets, HubConnect(s) \/ HubDrop(s) \/ Lapse(s) \/ Late(s)
      PROVE  tab' \in [Tabs -> Tab'] /\ waiting' \subseteq Tabs /\ relay' \in [Tabs -> Seq(Messages)]
  <2>1. UNCHANGED log
    BY <1>6, LogAlone
  <2> QED BY <1>1, <1>6, <2>1, TabsAlone DEF log
<1> QED BY <1>2, <1>3, <1>4, <1>5, <1>6, Kinds

LEMMA HubStep ==
    ASSUME Typed, [Next]_vars
    PROVE  held' \subseteq Sockets /\ hydrated' \in BOOLEAN /\ announced' \in BOOLEAN
<1>0. Hydrated \subseteq Sockets /\ held \subseteq Sockets /\ hydrated \in BOOLEAN /\ announced \in BOOLEAN
  BY HydratedTyped DEF Typed, TypeOK
<1>1. ASSUME UNCHANGED hub PROVE held' \subseteq Sockets /\ hydrated' \in BOOLEAN /\ announced' \in BOOLEAN
  BY <1>0, <1>1 DEF hub
<1>2. ASSUME NEW s \in Sockets, HubConnect(s) \/ HubDrop(s) \/ Late(s)
      PROVE  held' \subseteq Sockets /\ hydrated' \in BOOLEAN /\ announced' \in BOOLEAN
  BY <1>0, <1>2 DEF HubConnect, HubDrop, Late, ConnectsIn, Leaves
<1>3. CASE Notify \/ Revoke \/ Evict
  BY <1>0, <1>3 DEF Notify, Revoke, Evict
<1> QED BY <1>1, <1>2, <1>3, Kinds, HubAlone

LEMMA RestStep ==
    ASSUME Typed, [Next]_vars
    PROVE  /\ version' \in 0..MaxChanges /\ signalled' \in 0..version' /\ note' \in BOOLEAN
           /\ online' \in BOOLEAN /\ faults' \in 0..MaxFaults /\ moves' \in 0..MaxMoves
<1>0. /\ version \in 0..MaxChanges /\ signalled \in 0..version /\ note \in BOOLEAN
      /\ online \in BOOLEAN /\ faults \in 0..MaxFaults /\ moves \in 0..MaxMoves
      /\ MaxChanges \in Nat /\ MaxFaults \in Nat /\ MaxMoves \in Nat
  BY DEF Typed, TypeOK
<1>1. version' \in 0..MaxChanges /\ signalled' \in 0..version' /\ note' \in BOOLEAN
  <2>1. CASE UNCHANGED log
    BY <1>0, <2>1 DEF log
  <2>2. CASE Commit
    <3>1. version + 1 \in 0..MaxChanges /\ signalled \in 0..(version + 1)
      BY <1>0, <2>2 DEF Commit
    <3>2. version' = version + 1 /\ signalled' = signalled /\ note' = TRUE
      BY <2>2 DEF Commit
    <3> QED BY <3>1, <3>2
  <2>3. CASE LoseNote \/ Notify
    <3>1. version \in 0..version
      BY <1>0
    <3>2. version' = version /\ signalled' \in {signalled, version} /\ note' = FALSE
      BY <2>3 DEF LoseNote, Notify
    <3> QED BY <1>0, <3>1, <3>2
  <2> QED BY <2>1, <2>2, <2>3, Kinds, LogAlone
<1>2. faults' \in {faults, faults + 1} /\ (faults' # faults => Fault)
  <2>1. CASE \E s \in Sockets : HubConnect(s) \/ HubDrop(s) \/ Lapse(s) \/ Late(s) \/ Break(s) \/ Receive(s)
    BY <1>0, <2>1 DEF HubConnect, HubDrop, Lapse, Late, Break, Receive, Fault
  <2>2. CASE \E t \in Tabs : TabActs(t)
    <3>1. PICK t \in Tabs : TabActs(t)
      BY <2>2
    <3>2. CASE NoTicket(t) \/ FetchFails(t)
      BY <1>0, <3>2 DEF NoTicket, FetchFails, Fault
    <3>3. CASE ~(NoTicket(t) \/ FetchFails(t))
      BY <3>1, <3>3 DEF TabActs, Ticket, CloseTab,
         OpenTab, Elect, Dial, Hear, Hide, Show, SafetySync, Fetch
    <3> QED BY <3>2, <3>3
  <2> QED BY <1>0, <2>1, <2>2, Kinds
      DEF Commit, LoseNote, Notify, Revoke, Evict, GoesOffline, ComesOnline, vars, Fault
<1>3. moves' \in 0..MaxMoves /\ online' \in BOOLEAN
  <2>1. CASE \E s \in Sockets : HubConnect(s) \/ HubDrop(s) \/ Lapse(s) \/ Late(s) \/ Break(s) \/ Receive(s)
    BY <1>0, <2>1 DEF HubConnect, HubDrop, Lapse, Late, Break, Receive, Ends
  <2>2. CASE \E t \in Tabs : TabActs(t)
    <3>1. PICK t \in Tabs : TabActs(t)
      BY <2>2
    <3>2. online' = online
      BY <3>1 DEF TabActs, Ticket, CloseTab,
         OpenTab, Elect, Dial, NoTicket, Hear, Hide, Show, SafetySync, Fetch, FetchFails
    <3>3. CASE Hide(t) \/ \E stops \in BOOLEAN : CloseTab(t, stops)
      <4>1. moves < MaxMoves /\ moves' = moves + 1
        BY <3>3 DEF Hide, CloseTab
      <4> QED BY <1>0, <3>2, <4>1
    <3>4. CASE ~(Hide(t) \/ \E stops \in BOOLEAN : CloseTab(t, stops))
      <4>1. moves' = moves
        BY <3>1, <3>4 DEF TabActs, Ticket,
           OpenTab, Elect, Dial, NoTicket, Hear, Show, SafetySync, Fetch, FetchFails
      <4> QED BY <1>0, <3>2, <4>1
    <3> QED BY <3>3, <3>4
  <2> QED BY <1>0, <2>1, <2>2, Kinds
      DEF Commit, LoseNote, Notify, Revoke, Evict, GoesOffline, ComesOnline, vars
<1> QED BY <1>0, <1>1, <1>2, <1>3 DEF Fault

LEMMA StepTyped == ASSUME Typed, [Next]_vars PROVE Typed'
<1>1. Owned'
  BY OwnedStep DEF Owned
<1>2. TypeOK'
  BY SockStep, TabsStep, HubStep, RestStep DEF TypeOK
<1> QED BY <1>1, <1>2 DEF Typed

LEMMA InitTyped == ASSUME Init PROVE Typed
<1>1. version \in Nat
  BY DEF Init
<1>2. sock \in [Sockets -> Socket] /\ tab \in [Tabs -> Tab] /\ relay \in [Tabs -> Seq(Messages)]
  BY <1>1, Starts, Empty DEF Init
<1>3. Owned
  BY DEF Init, Owned, NoSocket
<1>4. TypeOK
  <2>1. 0 \in 0..MaxChanges /\ 0 \in 0..0 /\ 0 \in 0..MaxFaults /\ 0 \in 0..MaxMoves
    OBVIOUS
  <2> QED BY <1>2, <2>1 DEF Init, TypeOK
<1> QED BY <1>3, <1>4 DEF Typed

LEMMA AlwaysTyped == Spec => []Typed
BY InitTyped, StepTyped, PTL DEF Spec

(* Every variable keeps its type, whatever the gap.                        *)
THEOREM RealtimeTypes == Spec => []TypeOK
<1>1. Typed => TypeOK
  BY DEF Typed
<1> QED BY <1>1, AlwaysTyped, PTL

-----------------------------------------------------------------------------
(* Presence. The hub's memory, while it has one, is of its open sockets    *)
(* and perhaps some that are closing, and what it last said is of that.    *)

Remembers ==
    /\ announced <=> Hydrated # {}
    /\ hydrated => \A s \in Sockets :
         (sock[s].hub = "open" => s \in held) /\ (s \in held => sock[s].hub # "none")

LEMMA HubsSame ==
    ASSUME TypeOK, [Next]_vars, NEW s \in Sockets,
           ~Notify, ~Revoke, \A x \in Sockets : ~HubConnect(x) /\ ~HubDrop(x) /\ ~Late(x)
    PROVE  sock'[s].hub = sock[s].hub
<1>0. sock[s] \in Socket
  BY SocketTyped
<1>1. ASSUME NEW x \in Sockets, Lapse(x) PROVE sock'[s].hub = sock[s].hub
  BY <1>0, <1>1 DEF Lapse, TypeOK, Socket
<1>2. ASSUME NEW x \in Sockets, Break(x) \/ Receive(x) PROVE sock'[s].hub = sock[s].hub
  <2>1. CASE Ends(x)
    BY <1>0, <2>1 DEF Ends, NoSocket, TypeOK, Socket
  <2>2. CASE sock' = [sock EXCEPT ![x].mail = Tail(@)]
    BY <1>0, <2>2 DEF TypeOK, Socket
  <2> QED BY <1>2, <2>1, <2>2 DEF Break, Receive
<1>3. ASSUME NEW t \in Tabs, NEW x \in Sockets, Ticket(t, x) PROVE sock'[s].hub = sock[s].hub
  BY <1>0, <1>3 DEF Ticket, TypeOK, Socket
<1>4. ASSUME NEW t \in Tabs, NEW stops \in BOOLEAN, CloseTab(t, stops) PROVE sock'[s].hub = sock[s].hub
  BY <1>0, <1>4 DEF CloseTab, HungUp, NoSocket, Socket
<1>5. ASSUME NEW t \in Tabs, TabActs(t) PROVE sock'[s].hub = sock[s].hub
  BY <1>3, <1>4, <1>5, SockAlone
<1> QED BY <1>1, <1>2, <1>5, Kinds, SockAlone

LEMMA RemembersStep == ASSUME Typed, Remembers, [Next]_vars PROVE Remembers'
<1>0. TypeOK /\ Hydrated \subseteq Sockets /\ \A s \in Sockets : sock[s] \in Socket
  BY HydratedTyped, SocketTyped DEF Typed
<1>1. \A s \in Sockets :
        (sock[s].hub = "open" => s \in Hydrated) /\ (s \in Hydrated => sock[s].hub # "none")
  BY DEF Remembers, Hydrated
<1>2. ASSUME NEW H, held' = H, H \subseteq Sockets, hydrated' = TRUE, announced' <=> H # {},
             \A s \in Sockets : /\ sock'[s].hub = "open" => s \in H
                                /\ s \in H => sock'[s].hub # "none"
      PROVE  Remembers'
  BY <1>2 DEF Remembers, Hydrated
<1>3. CASE Notify
  <2>1. \A s \in Sockets : /\ sock'[s].hub = "open" => sock[s].hub = "open"
                           /\ sock'[s].hub = "none" => sock[s].hub = "none"
    BY <1>0, <1>3, DeliveredKeeps DEF Notify
  <2>2. held' = Hydrated /\ hydrated' = TRUE /\ announced' = announced
    BY <1>3 DEF Notify
  <2> QED BY <1>0, <1>1, <1>2, <2>1, <2>2 DEF Remembers
<1>4. CASE Revoke
  <2>1. \A s \in Sockets : sock'[s].hub # "open"
    BY <1>0, <1>1, <1>4 DEF Revoke, Socket
  <2>2. held' = {} /\ hydrated' = TRUE /\ announced' = FALSE
    BY <1>4 DEF Revoke
  <2> QED BY <2>1, <2>2 DEF Remembers, Hydrated
<1>5. ASSUME NEW x \in Sockets, HubConnect(x) PROVE Remembers'
  <2>1. sock'[x].hub = "open" /\ \A s \in Sockets \ {x} : sock'[s] = sock[s]
    BY <1>0, <1>5 DEF HubConnect, TypeOK, Socket
  <2>2. held' = Hydrated \cup {x} /\ hydrated' = TRUE /\ announced'
    BY <1>5 DEF HubConnect, ConnectsIn, Remembers
  <2> QED BY <1>0, <1>1, <1>2, <2>1, <2>2
<1>6. ASSUME NEW x \in Sockets, HubDrop(x) PROVE Remembers'
  <2>1. sock'[x].hub = "none" /\ \A s \in Sockets \ {x} : sock'[s] = sock[s]
    BY <1>0, <1>6 DEF HubDrop, TypeOK, NoSocket
  <2>2. held' = Hydrated \ {x} /\ hydrated' = TRUE
    BY <1>6 DEF HubDrop
  <2>3. announced' <=> Hydrated \ {x} # {}
    BY <1>6 DEF HubDrop, Leaves, Remembers
  <2> QED BY <1>0, <1>1, <1>2, <2>1, <2>2, <2>3
<1>7. ASSUME NEW x \in Sockets, Late(x) PROVE Remembers'
  <2>1. \A s \in Sockets : sock'[s] = IF s = x THEN Delivered(x, "ready") ELSE sock[s]
    BY <1>7 DEF Late, Typed, TypeOK
  <2>2. \A s \in Sockets : /\ sock'[s].hub = "open" => sock[s].hub = "open"
                           /\ sock'[s].hub = "none" => sock[s].hub = "none"
    BY <1>0, <2>1, DeliveredKeeps
  <2>3. held' = Hydrated /\ hydrated' = TRUE /\ announced' = announced
    BY <1>7 DEF Late
  <2> QED BY <1>0, <1>1, <1>2, <2>2, <2>3 DEF Remembers
<1>8. CASE Evict
  <2>1. sock' = sock /\ announced' = announced /\ hydrated /\ ~hydrated'
    BY <1>8 DEF Evict
  <2>2. Hydrated' = {s \in Sockets : sock[s].hub # "none"}
    BY <2>1 DEF Hydrated
  <2>3. \A s \in Sockets : sock[s].hub \in {"none", "open"}
    BY <1>0, <1>8 DEF Evict, Socket
  <2>4. Hydrated' = Hydrated
    BY <1>0, <1>1, <2>2, <2>3
  <2> QED BY <2>1, <2>4 DEF Remembers
<1>9. ASSUME UNCHANGED hub, \A s \in Sockets : sock'[s].hub = sock[s].hub PROVE Remembers'
  <2>1. held' = held /\ hydrated' = hydrated /\ announced' = announced
    BY <1>9 DEF hub
  <2>2. Hydrated' = Hydrated
    BY <1>9, <2>1 DEF Hydrated
  <2> QED BY <1>9, <2>1, <2>2 DEF Remembers
<1>10. CASE /\ ~Notify /\ ~Revoke /\ ~Evict
            /\ \A x \in Sockets : ~HubConnect(x) /\ ~HubDrop(x) /\ ~Late(x)
  <2>1. UNCHANGED hub
    BY <1>10, Kinds, HubAlone
  <2> QED BY <1>0, <1>9, <1>10, <2>1, HubsSame
<1> QED BY <1>3, <1>4, <1>5, <1>6, <1>7, <1>8, <1>10

LEMMA AlwaysRemembers == Spec => []Remembers
<1>1. Init => Remembers
  BY DEF Init, Remembers, Hydrated, NoSocket
<1>2. Typed /\ Remembers /\ [Next]_vars => Remembers'
  BY RemembersStep
<1> QED BY <1>1, <1>2, AlwaysTyped, PTL DEF Spec

(* What colleagues were told of a person's presence is true of the sockets *)
(* the hub has, for any tabs, sockets, evictions and revocations           *)
(* (realtime.ts connect, dropSocket, revokeUser, hydrate).                 *)
THEOREM PresenceIsRight == Spec => []PresenceIsTrue
<1>1. Typed /\ Remembers => PresenceIsTrue
  <2> SUFFICES ASSUME Typed, Remembers, \A s \in Sockets : sock[s].hub # "closing"
               PROVE  announced <=> \E s \in Sockets : sock[s].hub = "open"
    BY DEF PresenceIsTrue
  <2>1. \A s \in Sockets : sock[s].hub \in {"none", "open"}
    BY SocketTyped DEF Typed, Socket
  <2>2. Hydrated = {s \in Sockets : sock[s].hub = "open"}
    BY <2>1 DEF Remembers, Hydrated, Typed, TypeOK
  <2> QED BY <2>2 DEF Remembers
<1> QED BY <1>1, AlwaysTyped, AlwaysRemembers, PTL

-----------------------------------------------------------------------------
(* One socket. Only the tab that leads dials, waits to dial or has a       *)
(* socket, and one at a time.                                              *)

TabRight(t) ==
    /\ t \in waiting => tab[t].open /\ ~tab[t].leads
    /\ tab[t].leads => tab[t].open
    /\ tab[t].dials > 0 \/ tab[t].timer \/ tab[t].socket # None => tab[t].leads
    /\ tab[t].dials > 0 => tab[t].dials = 1 /\ ~tab[t].timer /\ tab[t].socket = None
    /\ tab[t].timer => tab[t].socket = None
    /\ tab[t].socket # None => sock[tab[t].socket].tab = t /\ sock[tab[t].socket].client # "none"
    /\ tab[t].leads /\ tab[t].connected =>
         tab[t].socket # None /\ sock[tab[t].socket].client = "open"

OneLeads == \A t, u \in Tabs : tab[t].leads /\ tab[u].leads => t = u

Led ==
    /\ OneLeads
    /\ \A t \in Tabs : TabRight(t)
    /\ \A s \in Sockets : sock[s].client # "none" => tab[sock[s].tab].socket = s

(* What most steps keep of a socket's client end, and of a tab's part in   *)
(* dialling.                                                               *)
KeepsEnd(s) ==
    /\ sock'[s].client = "none" <=> sock[s].client = "none"
    /\ sock[s].client = "open" => sock'[s].client = "open"
    /\ sock[s].client # "none" => sock'[s].tab = sock[s].tab

KeepsPart(t) ==
    /\ tab'[t].open = tab[t].open /\ tab'[t].leads = tab[t].leads
    /\ tab'[t].dials = tab[t].dials /\ tab'[t].timer = tab[t].timer
    /\ tab'[t].socket = tab[t].socket
    /\ tab[t].leads => tab'[t].connected = tab[t].connected

LEMMA EndsKept ==
    ASSUME TypeOK, NEW s \in Sockets,
           \/ UNCHANGED sock
           \/ Notify \/ Revoke
           \/ \E x \in Sockets : HubConnect(x) \/ HubDrop(x) \/ Lapse(x) \/ Late(x)
           \/ \E x \in Sockets : sock' = [sock EXCEPT ![x].mail = Tail(@)]
    PROVE  KeepsEnd(s)
<1>0. sock[s] \in Socket
  BY SocketTyped
<1>1. CASE UNCHANGED sock
  BY <1>1 DEF KeepsEnd
<1>2. CASE Notify
  BY <1>0, <1>2, DeliveredKeeps DEF Notify, KeepsEnd
<1>3. CASE Revoke
  BY <1>0, <1>3 DEF Revoke, KeepsEnd, Socket
<1>4. ASSUME NEW x \in Sockets, HubConnect(x) PROVE KeepsEnd(s)
  BY <1>0, <1>4 DEF HubConnect, KeepsEnd, TypeOK, Socket
<1>5. ASSUME NEW x \in Sockets, HubDrop(x) PROVE KeepsEnd(s)
  BY <1>0, <1>5 DEF HubDrop, KeepsEnd, TypeOK, NoSocket
<1>6. ASSUME NEW x \in Sockets, Lapse(x) PROVE KeepsEnd(s)
  BY <1>0, <1>6 DEF Lapse, KeepsEnd, TypeOK, Socket
<1>7. ASSUME NEW x \in Sockets, Late(x) PROVE KeepsEnd(s)
  <2>1. sock'[s] = IF s = x THEN Delivered(s, "ready") ELSE sock[s]
    BY <1>7 DEF Late, TypeOK
  <2> QED BY <1>0, <2>1, DeliveredKeeps DEF KeepsEnd
<1>8. ASSUME NEW x \in Sockets, sock' = [sock EXCEPT ![x].mail = Tail(@)] PROVE KeepsEnd(s)
  BY <1>0, <1>8 DEF KeepsEnd, TypeOK, Socket
<1> QED BY <1>1, <1>2, <1>3, <1>4, <1>5, <1>6, <1>7, <1>8

(* One tab changes its part, with the sockets kept.                        *)
LEMMA LedByOne ==
    ASSUME Typed, Led, NEW t \in Tabs, TabRight(t)',
           \A u \in Tabs \ {t} : KeepsPart(u) /\ (u \in waiting' => u \in waiting),
           \A s \in Sockets : KeepsEnd(s),
           tab'[t].socket = tab[t].socket,
           tab'[t].leads => tab[t].leads \/ \A u \in Tabs : ~tab[u].leads
    PROVE  Led'
<1>0. /\ \A u \in Tabs : tab[u].socket \in Sockets \cup {None} /\ TabRight(u)
      /\ \A s \in Sockets : sock[s].client # "none" => sock[s].tab \in Tabs /\ tab[sock[s].tab].socket = s
  BY TabTyped DEF Typed, Owned, Led, Tab
<1>1. OneLeads'
  BY DEF Led, OneLeads, KeepsPart
<1>2. ASSUME NEW u \in Tabs \ {t} PROVE TabRight(u)'
  <2>1. KeepsPart(u) /\ TabRight(u) /\ (u \in waiting' => u \in waiting)
    BY <1>0
  <2>2. tab[u].socket # None => tab[u].socket \in Sockets /\ KeepsEnd(tab[u].socket)
    BY <1>0
  <2> QED BY <2>1, <2>2 DEF TabRight, KeepsPart, KeepsEnd
<1>3. ASSUME NEW s \in Sockets, sock'[s].client # "none" PROVE tab'[sock'[s].tab].socket = s
  <2>1. sock[s].client # "none" /\ sock'[s].tab = sock[s].tab
    BY <1>3 DEF KeepsEnd
  <2>2. \A u \in Tabs : tab'[u].socket = tab[u].socket
    BY DEF KeepsPart
  <2> QED BY <1>0, <2>1, <2>2
<1> QED BY <1>1, <1>2, <1>3 DEF Led

LEMMA LedKept ==
    ASSUME Typed, Led, \A t \in Tabs : KeepsPart(t), \A s \in Sockets : KeepsEnd(s), waiting' = waiting
    PROVE  Led'
<1>0. /\ \A u \in Tabs : tab[u].socket \in Sockets \cup {None} /\ TabRight(u)
      /\ \A s \in Sockets : sock[s].client # "none" => sock[s].tab \in Tabs /\ tab[sock[s].tab].socket = s
  BY TabTyped DEF Typed, Owned, Led, Tab
<1>1. OneLeads'
  BY DEF Led, OneLeads, KeepsPart
<1>2. ASSUME NEW u \in Tabs PROVE TabRight(u)'
  <2>1. tab[u].socket # None => tab[u].socket \in Sockets /\ KeepsEnd(tab[u].socket)
    BY <1>0
  <2>2. TabRight(u) /\ KeepsPart(u)
    BY <1>0
  <2> QED BY <2>1, <2>2 DEF TabRight, KeepsPart, KeepsEnd
<1>3. ASSUME NEW s \in Sockets, sock'[s].client # "none" PROVE tab'[sock'[s].tab].socket = s
  BY <1>0, <1>3 DEF KeepsEnd, KeepsPart
<1> QED BY <1>1, <1>2, <1>3 DEF Led

LEMMA PartsKept ==
    ASSUME TypeOK, NEW t \in Tabs,
           \/ UNCHANGED tab
           \/ \E u \in Tabs : Hear(u) \/ Hide(u) \/ Show(u) \/ SafetySync(u) \/ Fetch(u) \/ FetchFails(u)
    PROVE  KeepsPart(t)
<1>0. tab[t] \in Tab
  BY TabTyped
<1>1. CASE UNCHANGED tab
  BY <1>1 DEF KeepsPart
<1>2. ASSUME NEW u \in Tabs, Hear(u) PROVE KeepsPart(t)
  <2>1. tab'[t] = IF t = u THEN Told(tab[t], Head(relay[t])) ELSE tab[t]
    BY <1>2 DEF Hear, TypeOK
  <2> QED BY <1>0, <2>1 DEF KeepsPart, Told, Heard, CaughtUp, Tab
<1>3. ASSUME NEW u \in Tabs, Show(u) PROVE KeepsPart(t)
  <2>1. tab'[t] = IF t = u THEN CaughtUp([tab[t] EXCEPT !.visible = TRUE]) ELSE tab[t]
    BY <1>3 DEF Show, TypeOK
  <2> QED BY <1>0, <2>1 DEF KeepsPart, CaughtUp, Tab
<1>4. ASSUME NEW u \in Tabs, Hide(u) \/ SafetySync(u) \/ Fetch(u) \/ FetchFails(u) PROVE KeepsPart(t)
  <2>1. CASE Hide(u)
    BY <1>0, <2>1 DEF Hide, KeepsPart, TypeOK, Tab
  <2>2. CASE SafetySync(u)
    BY <1>0, <2>2 DEF SafetySync, KeepsPart, TypeOK, Tab
  <2>3. CASE Fetch(u)
    BY <1>0, <2>3 DEF Fetch, KeepsPart, TypeOK, Tab
  <2>4. CASE FetchFails(u)
    BY <1>0, <2>4 DEF FetchFails, KeepsPart, TypeOK, Tab
  <2> QED BY <1>4, <2>1, <2>2, <2>3, <2>4
<1> QED BY <1>1, <1>2, <1>3, <1>4

(* What Led says of one tab and of one socket.                             *)
LEMMA LedFacts ==
    ASSUME Typed, Led
    PROVE  /\ \A u \in Tabs : /\ tab[u] \in Tab /\ TabRight(u)
                              /\ tab[u].socket # None => tab[u].socket \in Sockets
           /\ \A s \in Sockets :
                /\ sock[s] \in Socket
                /\ sock[s].client # "none" =>
                     /\ sock[s].tab \in Tabs /\ tab[sock[s].tab].socket = s /\ tab[sock[s].tab].leads
                     /\ tab[sock[s].tab].dials = 0 /\ ~tab[sock[s].tab].timer
<1>1. /\ \A u \in Tabs : tab[u] \in Tab /\ TabRight(u)
      /\ \A s \in Sockets : sock[s] \in Socket
  BY TabTyped, SocketTyped DEF Typed, Led
<1>2. ASSUME NEW s \in Sockets, sock[s].client # "none"
      PROVE  /\ sock[s].tab \in Tabs /\ tab[sock[s].tab].socket = s /\ tab[sock[s].tab].leads
             /\ tab[sock[s].tab].dials = 0 /\ ~tab[sock[s].tab].timer
  <2>1. sock[s].tab \in Tabs /\ tab[sock[s].tab].socket = s /\ s # None
    BY <1>2 DEF Typed, Owned, Led
  <2>2. tab[sock[s].tab].dials \in Nat
    BY <1>1, <2>1 DEF Tab
  <2> QED BY <1>1, <2>1, <2>2 DEF TabRight
<1> QED BY <1>1, <1>2 DEF Tab

LEMMA LedElect == ASSUME Typed, Led, NEW t \in Tabs, Elect(t) PROVE Led'
<1>0. tab[t] \in Tab /\ TabRight(t) /\ t \in waiting
  BY LedFacts DEF Elect
<1>1. tab'[t] = Takeover(tab[t]) /\ (\A u \in Tabs \ {t} : tab'[u] = tab[u]) /\ sock' = sock
      /\ waiting' = waiting \ {t} /\ \A u \in Tabs : ~tab[u].leads
  BY DEF Elect, Typed, TypeOK
<1>2. /\ tab'[t].open /\ tab'[t].leads /\ tab'[t].timer /\ tab'[t].dials = 0
      /\ tab'[t].socket = None /\ tab[t].socket = None /\ ~tab'[t].connected
  BY <1>0, <1>1 DEF Takeover, Tab, TabRight
<1>3. TabRight(t)'
  BY <1>1, <1>2 DEF TabRight
<1> QED BY <1>1, <1>2, <1>3, LedByOne, EndsKept DEF KeepsPart, Typed

LEMMA LedDial == ASSUME Typed, Led, NEW t \in Tabs, Dial(t) \/ NoTicket(t) PROVE Led'
<1>0. tab[t] \in Tab /\ TabRight(t) /\ tab[t].dials \in Nat
  BY LedFacts DEF Tab
<1>1. /\ \A u \in Tabs \ {t} : tab'[u] = tab[u]
      /\ sock' = sock /\ waiting' = waiting
      /\ tab'[t].open = tab[t].open /\ tab'[t].leads = tab[t].leads
      /\ tab'[t].socket = tab[t].socket /\ tab'[t].connected = tab[t].connected
  BY <1>0 DEF Dial, NoTicket, Typed, TypeOK, Tab
<1>2. tab[t].leads /\ tab[t].socket = None
  BY <1>0 DEF Dial, NoTicket, TabRight
<1>3. CASE Dial(t)
  <2>1. tab[t].dials = 0
    BY <1>0, <1>3 DEF TabRight, Dial
  <2>2. tab'[t].dials \in {0, 1} /\ ~tab'[t].timer
    BY <1>0, <1>3, <2>1 DEF Dial, Typed, TypeOK, Tab
  <2>3. TabRight(t)'
    BY <1>0, <1>1, <1>2, <2>2 DEF TabRight
  <2> QED BY <1>1, <1>2, <2>3, LedByOne, EndsKept DEF KeepsPart, Typed
<1>4. CASE NoTicket(t)
  <2>1. tab[t].dials = 1
    BY <1>0, <1>4 DEF TabRight, NoTicket
  <2>2. tab'[t].dials = 0 /\ tab'[t].timer
    BY <1>0, <1>4, <2>1 DEF NoTicket, Typed, TypeOK, Tab
  <2>3. TabRight(t)'
    BY <1>0, <1>1, <1>2, <2>2 DEF TabRight
  <2> QED BY <1>1, <1>2, <2>3, LedByOne, EndsKept DEF KeepsPart, Typed
<1> QED BY <1>3, <1>4

LEMMA LedTicket == ASSUME Typed, Led, NEW t \in Tabs, NEW s \in Sockets, Ticket(t, s) PROVE Led'
<1>0. tab[t] \in Tab /\ TabRight(t) /\ tab[t].dials \in Nat /\ tab[t].dials > 0 /\ sock[s].client = "none"
  BY LedFacts DEF Tab, Ticket, NoSocket
<1>1. /\ \A u \in Tabs \ {t} : tab'[u] = tab[u]
      /\ \A x \in Sockets \ {s} : sock'[x] = sock[x]
      /\ sock'[s].tab = t /\ sock'[s].client = "opening" /\ waiting' = waiting
  BY SocketTyped DEF Ticket, Typed, TypeOK, Socket
<1>2. tab[t].leads /\ tab[t].socket = None /\ tab[t].dials = 1 /\ ~tab[t].timer /\ ~tab[t].connected
  BY <1>0 DEF TabRight
<1>3. /\ tab'[t].open = tab[t].open /\ tab'[t].leads /\ tab'[t].socket = s /\ tab'[t].dials = 0
      /\ ~tab'[t].timer /\ ~tab'[t].connected
  BY <1>0, <1>2 DEF Ticket, Typed, TypeOK, Tab
<1>4. TabRight(t)'
  BY <1>0, <1>1, <1>2, <1>3 DEF TabRight
<1>5. ASSUME NEW u \in Tabs \ {t} PROVE TabRight(u)'
  <2>1. TabRight(u) /\ (tab[u].socket # None => tab[u].socket \in Sockets \ {s})
    BY <1>0, LedFacts DEF TabRight
  <2> QED BY <1>1, <2>1 DEF TabRight
<1>6. ASSUME NEW x \in Sockets, sock'[x].client # "none" PROVE tab'[sock'[x].tab].socket = x
  <2>1. CASE x = s
    BY <1>1, <1>3, <2>1
  <2>2. CASE x # s
    BY <1>1, <1>2, <1>6, <2>2, LedFacts
  <2> QED BY <2>1, <2>2
<1>7. OneLeads'
  BY <1>1, <1>2 DEF Led, OneLeads
<1> QED BY <1>4, <1>5, <1>6, <1>7 DEF Led

(* Coming online starts a timer only where no dial waits for its ticket.   *)
LEMMA LedOnline == ASSUME Typed, Led, "redial" \notin Gaps, ComesOnline PROVE Led'
<1>1. \A t \in Tabs : tab[t].dials = 0
  BY DEF ComesOnline
<1>2. /\ sock' = sock /\ waiting' = waiting
      /\ \A t \in Tabs : tab'[t] = IF tab[t].leads /\ tab[t].socket = None
                                   THEN [tab[t] EXCEPT !.timer = TRUE] ELSE tab[t]
  BY DEF ComesOnline
<1>3. ASSUME NEW t \in Tabs
      PROVE  /\ tab'[t].open = tab[t].open /\ tab'[t].leads = tab[t].leads /\ tab'[t].dials = 0
             /\ tab'[t].socket = tab[t].socket /\ tab'[t].connected = tab[t].connected
             /\ tab'[t].timer => tab[t].timer \/ (tab[t].leads /\ tab[t].socket = None)
  <2>0. tab[t] \in Tab /\ tab[t].dials = 0
    BY <1>1, LedFacts
  <2>1. CASE tab[t].leads /\ tab[t].socket = None
    <3>1. tab'[t] = [tab[t] EXCEPT !.timer = TRUE]
      BY <1>2, <2>1
    <3> QED BY <2>0, <2>1, <3>1 DEF Tab
  <2>2. CASE ~(tab[t].leads /\ tab[t].socket = None)
    BY <1>2, <2>0, <2>2
  <2> QED BY <2>1, <2>2
<1>4. \A t \in Tabs : TabRight(t)'
  BY <1>2, <1>3, LedFacts DEF TabRight
<1>5. OneLeads'
  BY <1>3 DEF Led, OneLeads
<1>6. \A s \in Sockets : sock'[s].client # "none" => tab'[sock'[s].tab].socket = s
  BY <1>2, <1>3, LedFacts
<1> QED BY <1>4, <1>5, <1>6 DEF Led

LEMMA LedEnds == ASSUME Typed, Led, NEW s \in Sockets, sock[s].client # "none", Ends(s) PROVE Led'
<1>0. PICK t \in Tabs :
        /\ t = sock[s].tab /\ tab[t] \in Tab /\ TabRight(t) /\ tab[t].socket = s /\ tab[t].leads
        /\ tab[t].dials = 0 /\ s # None
  BY LedFacts
<1>1. /\ \A u \in Tabs \ {t} : tab'[u] = tab[u]
      /\ \A x \in Sockets \ {s} : sock'[x] = sock[x]
      /\ tab'[t] = Shut(tab[t], s) /\ waiting' = waiting
  BY <1>0 DEF Ends, Typed, TypeOK
<1>2. sock'[s].client = "none"
  BY <1>0, LedFacts DEF Ends, Typed, TypeOK, NoSocket, Socket
<1>3. /\ tab'[t].open = tab[t].open /\ tab'[t].leads /\ tab'[t].socket = None /\ tab'[t].dials = 0
      /\ tab'[t].timer /\ ~tab'[t].connected
  BY <1>0, <1>1 DEF Shut, Tab
<1>4. TabRight(t)'
  BY <1>0, <1>1, <1>3 DEF TabRight
<1>5. ASSUME NEW u \in Tabs \ {t} PROVE TabRight(u)'
  <2>1. TabRight(u) /\ (tab[u].socket # None => tab[u].socket \in Sockets \ {s})
    BY <1>0, LedFacts DEF TabRight
  <2> QED BY <1>1, <2>1 DEF TabRight
<1>6. ASSUME NEW x \in Sockets, sock'[x].client # "none" PROVE tab'[sock'[x].tab].socket = x
  <2>1. x # s /\ sock'[x] = sock[x] /\ sock[x].tab # t
    BY <1>0, <1>1, <1>2, <1>6, LedFacts
  <2> QED BY <1>1, <1>6, <2>1, LedFacts
<1>7. OneLeads'
  BY <1>0, <1>1 DEF Led, OneLeads
<1> QED BY <1>4, <1>5, <1>6, <1>7 DEF Led

LEMMA HeardKeeps ==
    ASSUME NEW r \in Tab
    PROVE  /\ Heard(r).open = r.open /\ Heard(r).leads = r.leads /\ Heard(r).dials = r.dials
           /\ Heard(r).timer = r.timer /\ Heard(r).socket = r.socket /\ Heard(r).connected = r.connected
           /\ Heard(r).pending \/ Heard(r).fetching
           /\ ~(Heard(r).pending /\ Heard(r).visible)
BY DEF Heard, CaughtUp, Tab

LEMMA ReadyKeeps ==
    ASSUME NEW r \in Tab
    PROVE  LET c == Heard([r EXCEPT !.connected = TRUE]) IN
           /\ c.open = r.open /\ c.leads = r.leads /\ c.dials = r.dials
           /\ c.timer = r.timer /\ c.socket = r.socket
           /\ c.pending \/ c.fetching
           /\ ~(c.pending /\ c.visible)
BY DEF Heard, CaughtUp, Tab

(* What comes over a socket makes its tab connected.                       *)
LEMMA LedReceive == ASSUME Typed, Led, NEW s \in Sockets, Receive(s) PROVE Led'
<1>0. PICK t \in Tabs :
        /\ t = sock[s].tab /\ tab[t] \in Tab /\ TabRight(t) /\ tab[t].socket = s /\ tab[t].leads
        /\ sock[s].client = "open" /\ sock[s] \in Socket
  BY LedFacts DEF Receive
<1>1. CASE Ends(s)
  BY <1>0, <1>1, LedEnds
<1>2. CASE ~Ends(s)
  <2>1. /\ sock' = [sock EXCEPT ![s].mail = Tail(@)] /\ waiting' = waiting
        /\ Ready(t) \/ tab' = [tab EXCEPT ![t] = Heard(tab[t])]
    BY <1>0, <1>2 DEF Receive
  <2>2. \E r \in {tab[t], Heard(tab[t]), Heard([tab[t] EXCEPT !.connected = TRUE])} :
           tab' = [tab EXCEPT ![t] = r]
    BY <2>1 DEF Ready
  <2>3. PICK r \in {tab[t], Heard(tab[t]), Heard([tab[t] EXCEPT !.connected = TRUE])} :
           tab'[t] = r /\ \A u \in Tabs \ {t} : tab'[u] = tab[u]
    BY <1>0, <2>2 DEF Typed, TypeOK
  <2>4. /\ tab'[t].open = tab[t].open /\ tab'[t].leads = tab[t].leads /\ tab'[t].dials = tab[t].dials
        /\ tab'[t].timer = tab[t].timer /\ tab'[t].socket = tab[t].socket
    <3>1. CASE r = tab[t]
      BY <2>3, <3>1
    <3>2. CASE r = Heard(tab[t])
      <4>1. LET c == Heard(tab[t]) IN
            /\ c.open = tab[t].open /\ c.leads = tab[t].leads /\ c.dials = tab[t].dials
            /\ c.timer = tab[t].timer /\ c.socket = tab[t].socket
        BY <1>0, HeardKeeps
      <4>2. tab'[t] = Heard(tab[t])
        BY <2>3, <3>2
      <4> QED BY <4>1, <4>2
    <3>3. CASE r = Heard([tab[t] EXCEPT !.connected = TRUE])
      <4>1. LET c == Heard([tab[t] EXCEPT !.connected = TRUE]) IN
            /\ c.open = tab[t].open /\ c.leads = tab[t].leads /\ c.dials = tab[t].dials
            /\ c.timer = tab[t].timer /\ c.socket = tab[t].socket
        BY <1>0, ReadyKeeps
      <4>2. tab'[t] = Heard([tab[t] EXCEPT !.connected = TRUE])
        BY <2>3, <3>3
      <4> QED BY <4>1, <4>2
    <3> QED BY <2>3, <3>1, <3>2, <3>3
  <2>5. \A x \in Sockets : KeepsEnd(x)
    BY <2>1, EndsKept DEF Typed
  <2>6. TabRight(t)'
    BY <1>0, <2>1, <2>4, <2>5 DEF TabRight, KeepsEnd
  <2> QED BY <1>0, <2>1, <2>3, <2>4, <2>5, <2>6, LedByOne DEF KeepsPart
<1> QED BY <1>1, <1>2

LEMMA LedOpen == ASSUME Typed, Led, NEW t \in Tabs, OpenTab(t) PROVE Led'
<1>0. tab[t] \in Tab /\ TabRight(t) /\ ~tab[t].open
  BY LedFacts DEF OpenTab
<1>1. tab'[t] = Opened /\ sock' = sock /\ waiting' = waiting \cup {t} /\ \A u \in Tabs \ {t} : tab'[u] = tab[u]
  BY DEF OpenTab, Typed, TypeOK
<1>2. /\ tab'[t].open /\ ~tab'[t].leads /\ tab'[t].dials = 0 /\ ~tab'[t].timer /\ tab'[t].socket = None
      /\ tab[t].socket = None
  BY <1>0, <1>1 DEF Opened, Closed, TabRight
<1>3. TabRight(t)'
  BY <1>2 DEF TabRight
<1> QED BY <1>1, <1>2, <1>3, LedByOne, EndsKept DEF KeepsPart, Typed

LEMMA LedClose == ASSUME Typed, Led, NEW t \in Tabs, NEW stops, CloseTab(t, stops) PROVE Led'
<1>1. /\ tab'[t] = Closed /\ waiting' = waiting \ {t} /\ \A u \in Tabs \ {t} : tab'[u] = tab[u]
      /\ \A s \in Sockets : /\ sock[s].tab # t => sock'[s] = sock[s]
                            /\ sock[s].tab = t => sock'[s].client = "none"
  BY SocketTyped DEF CloseTab, HungUp, NoSocket, Typed, TypeOK, Socket
<1>2. TabRight(t)'
  BY <1>1 DEF TabRight, Closed
<1>3. ASSUME NEW u \in Tabs \ {t} PROVE TabRight(u)'
  <2>1. TabRight(u) /\ (tab[u].socket # None => tab[u].socket \in Sockets /\ sock[tab[u].socket].tab # t)
    BY LedFacts DEF TabRight
  <2> QED BY <1>1, <2>1 DEF TabRight
<1>4. ASSUME NEW x \in Sockets, sock'[x].client # "none" PROVE tab'[sock'[x].tab].socket = x
  <2>1. sock'[x] = sock[x] /\ sock[x].tab # t
    BY <1>1, <1>4
  <2> QED BY <1>1, <1>4, <2>1, LedFacts
<1>5. OneLeads'
  BY <1>1 DEF Led, OneLeads, Closed
<1> QED BY <1>2, <1>3, <1>4, <1>5 DEF Led

LEMMA LedStep == ASSUME Typed, Led, "redial" \notin Gaps, [Next]_vars PROVE Led'
<1>1. ASSUME \A t \in Tabs : KeepsPart(t), \A s \in Sockets : KeepsEnd(s), waiting' = waiting PROVE Led'
  BY <1>1, LedKept
<1>2. CASE Commit \/ LoseNote \/ Notify \/ Revoke \/ Evict \/ GoesOffline \/ UNCHANGED vars
  BY <1>1, <1>2, TabsAlone, SockAlone, EndsKept, PartsKept DEF Typed
<1>3. ASSUME NEW s \in Sockets, HubConnect(s) \/ HubDrop(s) \/ Lapse(s) \/ Late(s) PROVE Led'
  BY <1>1, <1>3, TabsAlone, EndsKept, PartsKept DEF Typed
<1>4. ASSUME NEW s \in Sockets, Break(s) \/ Receive(s) PROVE Led'
  BY <1>4, LedEnds, LedReceive DEF Break
<1>5. ASSUME NEW t \in Tabs, TabActs(t) PROVE Led'
  <2>1. CASE Hear(t) \/ Hide(t) \/ Show(t) \/ SafetySync(t) \/ Fetch(t) \/ FetchFails(t)
    <3>1. sock' = sock /\ waiting' = waiting
      BY <2>1 DEF Hear, Hide, Show, SafetySync, Fetch, FetchFails
    <3> QED BY <1>1, <2>1, <3>1, EndsKept, PartsKept DEF Typed
  <2> QED BY <1>5, <2>1, LedElect, LedDial, LedTicket, LedOpen, LedClose DEF TabActs
<1> QED BY <1>2, <1>3, <1>4, <1>5, LedOnline, Kinds

LEMMA InitLed == ASSUME Init PROVE Led
<1>1. /\ \A t \in Tabs : tab[t] = Opened /\ t \in waiting
      /\ \A s \in Sockets : sock[s] = NoSocket
  BY DEF Init
<1>2. /\ Opened.open /\ ~Opened.leads /\ Opened.dials = 0 /\ ~Opened.timer /\ Opened.socket = None
      /\ NoSocket.client = "none"
  BY DEF Opened, Closed, NoSocket
<1> QED BY <1>1, <1>2 DEF Led, OneLeads, TabRight

LEMMA AlwaysLed == ASSUME "redial" \notin Gaps PROVE Spec => []Led
<1>1. Init => Led
  BY InitLed
<1>2. Typed /\ Led /\ [Next]_vars => Led'
  BY LedStep
<1> QED BY <1>1, <1>2, AlwaysTyped, PTL DEF Spec

(* Without the gap the browser has one socket, whichever tab leads and     *)
(* however dials, tickets, breaks and tabs that close interleave           *)
(* (realtimeService.ts connect, onSocketClose, stop).                      *)
THEOREM OneSocketOnly == "redial" \notin Gaps => (Spec => []OneSocket)
<1> SUFFICES ASSUME "redial" \notin Gaps PROVE Spec => []OneSocket
  OBVIOUS
<1>1. Typed /\ Led => OneSocket
  <2> SUFFICES ASSUME Typed, Led, NEW r \in Sockets, NEW s \in Sockets,
                      sock[r].client # "none", sock[s].client # "none"
               PROVE  r = s
    BY DEF OneSocket
  <2> QED BY LedFacts DEF Led, OneLeads
<1> QED BY <1>1, AlwaysTyped, AlwaysLed, PTL

-----------------------------------------------------------------------------
(* Catching up. While a leader counts as connected over a socket that is   *)
(* in order and brings no news, every tab has the change the hub was told  *)
(* of, is fetching, failed to, will when it is shown, or will hear of it.  *)

InOrder(s) == sock[s].hub = "open" /\ ~sock[s].lapsed /\ ~Has(sock[s].mail, "news")
Connected  == \E u \in Tabs : tab[u].leads /\ tab[u].connected /\ InOrder(tab[u].socket)

Informed(t) ==
    \/ tab[t].seen >= signalled \/ tab[t].fetching \/ tab[t].missed \/ tab[t].pending
    \/ ~tab[t].leads /\ Has(relay[t], "news")

Answers(t) == ~(tab[t].pending /\ tab[t].visible)

CatchesUp ==
    /\ \A t \in Tabs : Answers(t)
    /\ Connected => \A t \in Tabs : tab[t].open => Informed(t)

(* A tab on screen starts to fetch at once, in every step.                 *)
LEMMA AnswersStep ==
    ASSUME Typed, [Next]_vars, NEW t \in Tabs, Answers(t)
    PROVE  Answers(t)'
<1>0. TypeOK /\ tab[t] \in Tab
  BY TabTyped DEF Typed
<1>1. ASSUME tab'[t] = tab[t] PROVE Answers(t)'
  BY <1>1 DEF Answers
<1>2. ASSUME NEW r, tab'[t] = CaughtUp(r), r \in Tab PROVE Answers(t)'
  BY <1>2 DEF Answers, CaughtUp, Tab
<1>3. ASSUME NEW r, tab'[t] = Heard(r), r \in Tab PROVE Answers(t)'
  <2>1. [r EXCEPT !.pending = TRUE] \in Tab
    BY <1>3 DEF Tab
  <2> QED BY <1>2, <1>3, <2>1 DEF Heard
<1>4. ASSUME tab'[t].pending = tab[t].pending, tab'[t].visible => tab[t].visible PROVE Answers(t)'
  BY <1>4 DEF Answers
<1>5. ASSUME NEW x, Ends(x) PROVE Answers(t)'
  <2>1. tab'[t] \in {tab[t], Shut(tab[t], x)}
    BY <1>0, <1>5 DEF Ends, TypeOK
  <2>2. Shut(tab[t], x).pending = tab[t].pending /\ Shut(tab[t], x).visible = tab[t].visible
    BY <1>0 DEF Shut, Tab
  <2> QED BY <1>1, <1>4, <2>1, <2>2
<1>6. ASSUME NEW x \in Sockets, Receive(x) PROVE Answers(t)'
  <2>1. CASE Ends(x)
    BY <1>5, <2>1
  <2>2. CASE ~Ends(x)
    <3>1. tab'[t] \in {tab[t], Heard(tab[t]), Heard([tab[t] EXCEPT !.connected = TRUE])}
      BY <1>0, <1>6, <2>2 DEF Receive, Ready, TypeOK
    <3>2. [tab[t] EXCEPT !.connected = TRUE] \in Tab
      BY <1>0 DEF Tab
    <3> QED BY <1>0, <1>1, <1>3, <3>1, <3>2
  <2> QED BY <2>1, <2>2
<1>7. ASSUME NEW u \in Tabs, TabActs(u) PROVE Answers(t)'
  <2>1. CASE t # u
    <3>1. tab'[t] = tab[t]
      BY <1>0, <1>7, <2>1 DEF TabActs, Ticket, CloseTab, TypeOK,
         OpenTab, Elect, Dial, NoTicket, Hear, Hide, Show, SafetySync, Fetch, FetchFails
    <3> QED BY <1>1, <3>1
  <2>2. CASE OpenTab(t) \/ \E stops \in BOOLEAN : CloseTab(t, stops)
    <3>1. tab'[t] \in {Opened, Closed}
      BY <1>0, <2>2 DEF OpenTab, CloseTab, TypeOK
    <3>2. ~Opened.pending /\ ~Closed.pending
      BY DEF Opened, Closed
    <3> QED BY <3>1, <3>2 DEF Answers
  <2>3. CASE Elect(t)
    <3>1. tab'[t] = Takeover(tab[t])
      BY <1>0, <2>3 DEF Elect, TypeOK
    <3>2. Takeover(tab[t]).pending = tab[t].pending /\ Takeover(tab[t]).visible = tab[t].visible
      BY <1>0 DEF Takeover, Tab
    <3> QED BY <1>4, <3>1, <3>2
  <2>4. CASE Dial(t)
    <3>1. tab'[t].pending = tab[t].pending /\ tab'[t].visible = tab[t].visible
      BY <1>0, <2>4 DEF Dial, TypeOK, Tab
    <3> QED BY <1>4, <3>1
  <2>5. CASE NoTicket(t) \/ \E s \in Sockets : Ticket(t, s)
    <3>1. CASE NoTicket(t)
      BY <1>0, <1>4, <3>1 DEF NoTicket, TypeOK, Tab
    <3>2. ASSUME NEW s \in Sockets, Ticket(t, s) PROVE Answers(t)'
      BY <1>0, <1>4, <3>2 DEF Ticket, TypeOK, Tab
    <3> QED BY <2>5, <3>1, <3>2
  <2>6. CASE Hear(t)
    <3>1. tab'[t] = Told(tab[t], Head(relay[t]))
      BY <1>0, <2>6 DEF Hear, TypeOK
    <3>2. \/ Told(tab[t], Head(relay[t])) \in {tab[t], Heard(tab[t])}
          \/ /\ Told(tab[t], Head(relay[t])).pending = tab[t].pending
             /\ Told(tab[t], Head(relay[t])).visible = tab[t].visible
      BY <1>0 DEF Told, Tab
    <3> QED BY <1>0, <1>1, <1>3, <1>4, <3>1, <3>2
  <2>7. CASE Show(t)
    <3>1. tab'[t] = CaughtUp([tab[t] EXCEPT !.visible = TRUE])
      BY <1>0, <2>7 DEF Show, TypeOK
    <3>2. [tab[t] EXCEPT !.visible = TRUE] \in Tab
      BY <1>0 DEF Tab
    <3> QED BY <1>2, <3>1, <3>2
  <2>8. CASE Hide(t) \/ SafetySync(t)
    <3>1. CASE Hide(t)
      BY <1>0, <1>4, <3>1 DEF Hide, TypeOK, Tab
    <3>2. CASE SafetySync(t)
      BY <1>0, <1>4, <3>2 DEF SafetySync, TypeOK, Tab
    <3> QED BY <2>8, <3>1, <3>2
  <2>9. CASE Fetch(t) \/ FetchFails(t)
    <3>1. CASE Fetch(t)
      BY <1>0, <1>4, <3>1 DEF Fetch, TypeOK, Tab
    <3>2. CASE FetchFails(t)
      BY <1>0, <1>4, <3>2 DEF FetchFails, TypeOK, Tab
    <3> QED BY <2>9, <3>1, <3>2
  <2> QED BY <1>7, <2>1, <2>2, <2>3, <2>4, <2>5, <2>6, <2>7, <2>8, <2>9 DEF TabActs
<1>8. CASE ComesOnline
  <2>1. tab'[t] \in {tab[t], [tab[t] EXCEPT !.timer = TRUE]}
    BY <1>8 DEF ComesOnline
  <2>2. [tab[t] EXCEPT !.timer = TRUE].pending = tab[t].pending
        /\ [tab[t] EXCEPT !.timer = TRUE].visible = tab[t].visible
    BY <1>0 DEF Tab
  <2> QED BY <1>1, <1>4, <2>1, <2>2
<1> QED BY <1>1, <1>5, <1>6, <1>7, <1>8, Kinds, TabsAlone DEF Break

(* When a leader counts as connected over a socket in order, it did before.*)
LEMMA WasConnected ==
    ASSUME Typed, Led, Connected',
           \A u \in Tabs : tab'[u].leads /\ tab'[u].connected =>
             tab[u].leads /\ tab[u].connected /\ tab'[u].socket = tab[u].socket,
           \A s \in Sockets : sock[s].client = "open" /\ InOrder(s)' => InOrder(s)
    PROVE  Connected
<1>1. PICK u \in Tabs : tab'[u].leads /\ tab'[u].connected /\ InOrder(tab[u].socket)'
  BY DEF Connected
<1>2. tab[u].leads /\ tab[u].connected /\ tab'[u].socket = tab[u].socket
  BY <1>1
<1>3. PICK s \in Sockets : s = tab[u].socket /\ sock[s].client = "open"
  BY <1>2, LedFacts DEF TabRight
<1>4. InOrder(s)'
  BY <1>1, <1>2, <1>3 DEF InOrder
<1> QED BY <1>2, <1>3, <1>4 DEF Connected

(* What keeps a tab informed.                                              *)
LEMMA StaysInformed ==
    ASSUME NEW t, Informed(t), signalled' = signalled,
           tab'[t].seen = tab[t].seen, tab[t].fetching => tab'[t].fetching,
           tab[t].missed => tab'[t].missed,
           tab[t].pending => tab'[t].pending \/ tab'[t].fetching,
           tab'[t].leads => tab[t].leads,
           Has(relay[t], "news") => Has(relay[t], "news")'
    PROVE  Informed(t)'
BY DEF Informed

(* A step that changes one tab and leaves the others informed.             *)
LEMMA CaughtByOne ==
    ASSUME Typed, CatchesUp, [Next]_vars, NEW t \in Tabs, signalled' = signalled,
           \A u \in Tabs \ {t} :
             tab'[u] = tab[u] /\ (Has(relay[u], "news") => Has(relay[u], "news")'),
           Connected' => Connected,
           tab'[t].open /\ (tab[t].open => Informed(t)) => Informed(t)'
    PROVE  CatchesUp'
<1>1. \A u \in Tabs : Answers(u)'
  BY AnswersStep DEF CatchesUp
<1>2. ASSUME Connected', NEW u \in Tabs, tab'[u].open PROVE Informed(u)'
  <2>1. tab[u].open => Informed(u)
    BY <1>2 DEF CatchesUp
  <2>2. CASE u = t
    BY <1>2, <2>1, <2>2
  <2>3. CASE u # t
    BY <1>2, <2>1, <2>3, StaysInformed
  <2> QED BY <2>2, <2>3
<1> QED BY <1>1, <1>2 DEF CatchesUp

LEMMA CutOff == ASSUME Typed, CatchesUp, [Next]_vars, ~Connected' PROVE CatchesUp'
BY AnswersStep DEF CatchesUp

(* Steps of the hub, or of the person's work, that leave the tabs alone.   *)
LEMMA CatchHub ==
    ASSUME Typed, Led, CatchesUp, [Next]_vars,
           \/ Commit \/ LoseNote \/ Evict \/ GoesOffline \/ UNCHANGED vars
           \/ \E s \in Sockets : HubConnect(s) \/ HubDrop(s) \/ Lapse(s) \/ Late(s)
    PROVE  CatchesUp'
<1>1. tab' = tab /\ relay' = relay /\ signalled' = signalled
  <2>1. signalled' = signalled
    BY LogAlone DEF Commit, LoseNote, log
  <2> QED BY <2>1, TabsAlone
<1>2. ASSUME NEW s \in Sockets, sock[s].client = "open", InOrder(s)' PROVE InOrder(s)
  <2>0. sock[s] \in Socket /\ TypeOK
    BY SocketTyped DEF Typed
  <2>1. CASE sock'[s] = sock[s]
    BY <1>2, <2>1 DEF InOrder
  <2>2. CASE HubConnect(s) \/ HubDrop(s)
    BY <1>2, <2>2 DEF HubConnect, HubDrop
  <2>3. CASE Lapse(s)
    <3>1. sock'[s].lapsed
      BY <2>0, <2>3 DEF Lapse, TypeOK, Socket
    <3> QED BY <1>2, <3>1 DEF InOrder
  <2>4. CASE Late(s)
    <3>1. sock'[s] = Delivered(s, "ready") /\ sock[s].hub = "open" /\ sock[s].lapsed
      BY <2>0, <2>4 DEF Late, TypeOK
    <3>2. sock'[s].lapsed
      BY <2>0, <3>1, DeliveredKeeps
    <3> QED BY <1>2, <3>2 DEF InOrder
  <2>5. ASSUME NEW x \in Sockets, HubConnect(x) \/ HubDrop(x) \/ Lapse(x) \/ Late(x), x # s
        PROVE  sock'[s] = sock[s]
    BY <2>0, <2>5 DEF HubConnect, HubDrop, Lapse, Late, TypeOK
  <2> QED BY <2>1, <2>2, <2>3, <2>4, <2>5, SockAlone
<1>3. Connected' => Connected
  BY <1>1, <1>2, WasConnected
<1>4. \A t \in Tabs : Answers(t)'
  BY AnswersStep DEF CatchesUp
<1>5. \A t \in Tabs : Informed(t) => Informed(t)'
  BY <1>1, StaysInformed
<1> QED BY <1>1, <1>3, <1>4, <1>5 DEF CatchesUp

(* A signal goes to every socket that is open, a revocation closes them.   *)
LEMMA CatchNotify ==
    ASSUME Typed, Remembers, Led, CatchesUp, [Next]_vars, Notify \/ Revoke
    PROVE  CatchesUp'
<1> SUFFICES ASSUME Connected' PROVE FALSE
  BY CutOff
<1>0. TypeOK /\ tab' = tab
  BY TabsAlone DEF Typed
<1>1. PICK u \in Tabs : tab[u].leads /\ tab[u].connected /\ InOrder(tab[u].socket)'
  BY <1>0 DEF Connected
<1>2. PICK s \in Sockets : s = tab[u].socket
  BY <1>1, LedFacts DEF TabRight
<1>3. sock'[s].hub = "open" /\ ~sock'[s].lapsed /\ ~Has(sock'[s].mail, "news")
  BY <1>0, <1>1, <1>2 DEF InOrder
<1>4. sock[s] \in Socket /\ sock[s].mail \in Seq(Mail)
  BY <1>0, SocketTyped DEF Socket
<1>5. sock[s].hub = "open" => s \in Hydrated
  BY DEF Remembers, Hydrated
<1>6. CASE Notify
  <2>1. sock'[s] = IF s \in Hydrated THEN Delivered(s, "news") ELSE sock[s]
    BY <1>6 DEF Notify
  <2>2. sock[s].hub = "open" /\ s \in Hydrated
    BY <1>3, <1>4, <1>5, <2>1, DeliveredKeeps
  <2>3. ~sock[s].lapsed
    BY <1>3, <1>4, <2>1, <2>2, DeliveredKeeps
  <2>4. sock'[s].mail = Put(sock[s].mail, "news")
    BY <1>4, <2>1, <2>2, <2>3, DeliveredKeeps
  <2>5. Has(Put(sock[s].mail, "news"), "news")
    BY <1>4, PutHas DEF Mail
  <2> QED BY <1>3, <2>4, <2>5
<1>7. CASE Revoke
  <2>1. sock'[s].hub # "open"
    BY <1>4, <1>5, <1>7 DEF Revoke, Socket
  <2> QED BY <1>3, <2>1
<1> QED BY <1>6, <1>7

LEMMA CatchEnds ==
    ASSUME Typed, Led, Led', CatchesUp, [Next]_vars, NEW s \in Sockets, sock[s].client # "none", Ends(s)
    PROVE  CatchesUp'
<1>1. PICK t \in Tabs : t = sock[s].tab /\ tab[t] \in Tab /\ tab[t].leads
  BY LedFacts
<1>2. tab'[t] = Shut(tab[t], s)
  BY <1>1 DEF Ends, Typed, TypeOK
<1>3. tab'[t].leads /\ ~tab'[t].connected
  BY <1>1, <1>2 DEF Shut, Tab
<1>4. ~Connected'
  BY <1>3 DEF Connected, Led, OneLeads
<1> QED BY <1>4, CutOff

LEMMA CatchReceive ==
    ASSUME Typed, Led, CatchesUp, [Next]_vars, NEW s \in Sockets, Receive(s), ~Ends(s)
    PROVE  CatchesUp'
<1>0. PICK t \in Tabs :
        /\ t = sock[s].tab /\ tab[t] \in Tab /\ tab[t].leads
        /\ sock[s].mail \in Seq(Mail) /\ sock[s].mail # <<>> /\ TypeOK
  BY LedFacts DEF Receive, Typed, Socket
<1>1. \A u \in Tabs : Answers(u)'
  BY AnswersStep DEF CatchesUp
<1>2. signalled' = signalled /\ \A u \in Tabs \ {t} : tab'[u] = tab[u]
  BY <1>0 DEF Receive, Ready, log, TypeOK
<1>3. \A u \in Tabs \ {t} : tab[u].open => u \in Others(t) /\ ~tab[u].leads
  BY <1>0 DEF Others, Led, OneLeads
<1>4. ASSUME Informed(t)', \A u \in Others(t) : Has(relay'[u], "news") PROVE CatchesUp'
  <2>1. ASSUME NEW u \in Tabs, tab'[u].open PROVE Informed(u)'
    <3>1. CASE u = t
      BY <1>4, <3>1
    <3>2. CASE u # t
      BY <1>2, <1>3, <1>4, <2>1, <3>2 DEF Informed
    <3> QED BY <3>1, <3>2
  <2> QED BY <1>1, <2>1 DEF CatchesUp
<1>5. CASE tab' = [tab EXCEPT ![t] = Heard(tab[t])] /\ relay' = Relayed(t, "news")
  <2>1. tab'[t] = Heard(tab[t])
    BY <1>0, <1>5 DEF TypeOK
  <2>2. tab'[t].pending \/ tab'[t].fetching
    BY <1>0, <2>1, HeardKeeps
  <2>3. Informed(t)'
    BY <2>2 DEF Informed
  <2> QED BY <1>0, <1>4, <1>5, <2>3, RelayedTyped DEF Messages
<1>6. CASE Ready(t) /\ ~tab[t].connected
  <2>1. tab'[t] = Heard([tab[t] EXCEPT !.connected = TRUE])
    BY <1>0, <1>6 DEF Ready, TypeOK
  <2>2. tab'[t].pending \/ tab'[t].fetching
    BY <1>0, <2>1, ReadyKeeps
  <2>3. Informed(t)'
    BY <2>2 DEF Informed
  <2>4. ASSUME NEW u \in Others(t) PROVE Has(relay'[u], "news")
    <3>1. u \in Tabs /\ Relayed(t, "up")[u] \in Seq(Messages)
      BY <1>0, RelayedTyped DEF Others, Messages
    <3>2. relay'[u] = Put(Relayed(t, "up")[u], "news")
      BY <1>6, <2>4, <3>1 DEF Ready
    <3> QED BY <3>1, <3>2, PutHas DEF Messages
  <2> QED BY <1>4, <2>3, <2>4
<1>7. CASE Ready(t) /\ tab[t].connected /\ Head(sock[s].mail) = "ready"
          /\ sock' = [sock EXCEPT ![s].mail = Tail(@)]
  <2>1. tab'[t] = tab[t] /\ relay' = Relayed(t, "up")
    BY <1>0, <1>7 DEF Ready, TypeOK
  <2>2. \A u \in Tabs : tab'[u] = tab[u]
    BY <1>2, <2>1
  <2>3. \A u \in Tabs : Has(relay[u], "news") => Has(relay'[u], "news")
    BY <1>0, <2>1, RelayedTyped DEF Messages
  <2>4. ASSUME NEW x \in Sockets, InOrder(x)' PROVE InOrder(x)
    <3>1. CASE x # s
      <4>1. sock'[x] = sock[x]
        BY <1>0, <1>7, <3>1 DEF TypeOK
      <4> QED BY <2>4, <4>1 DEF InOrder
    <3>2. CASE x = s
      <4>1. sock'[s].hub = sock[s].hub /\ sock'[s].lapsed = sock[s].lapsed /\ sock'[s].mail = Tail(sock[s].mail)
        BY <1>0, <1>7, SocketTyped DEF TypeOK, Socket
      <4>2. Has(sock[s].mail, "news") => Has(Tail(sock[s].mail), "news")
        BY <1>0, <1>7, TailHas
      <4> QED BY <2>4, <3>2, <4>1, <4>2 DEF InOrder
    <3> QED BY <3>1, <3>2
  <2>5. Connected' => Connected
    BY <2>2, <2>4, WasConnected
  <2>6. \A u \in Tabs : Informed(u) => Informed(u)'
    BY <1>2, <2>2, <2>3, StaysInformed
  <2> QED BY <1>1, <2>2, <2>5, <2>6 DEF CatchesUp
<1>8. \/ tab' = [tab EXCEPT ![t] = Heard(tab[t])] /\ relay' = Relayed(t, "news")
      \/ Ready(t) /\ Head(sock[s].mail) = "ready" /\ sock' = [sock EXCEPT ![s].mail = Tail(@)]
  BY <1>0 DEF Receive
<1> QED BY <1>5, <1>6, <1>7, <1>8

LEMMA CatchOnline == ASSUME Typed, Led, CatchesUp, [Next]_vars, ComesOnline PROVE CatchesUp'
<1>1. sock' = sock /\ relay' = relay /\ signalled' = signalled
  BY DEF ComesOnline, log
<1>2. ASSUME NEW t \in Tabs
      PROVE  /\ tab'[t].open = tab[t].open /\ tab'[t].leads = tab[t].leads
             /\ tab'[t].connected = tab[t].connected /\ tab'[t].socket = tab[t].socket
             /\ tab'[t].seen = tab[t].seen /\ tab'[t].fetching = tab[t].fetching
             /\ tab'[t].missed = tab[t].missed /\ tab'[t].pending = tab[t].pending
  <2>1. tab'[t] \in {tab[t], [tab[t] EXCEPT !.timer = TRUE]}
    BY DEF ComesOnline
  <2> QED BY <2>1, LedFacts DEF Tab
<1>3. Connected' => Connected
  BY <1>1, <1>2, WasConnected DEF InOrder
<1>4. \A t \in Tabs : Informed(t) => Informed(t)'
  BY <1>1, <1>2, StaysInformed
<1>5. \A t \in Tabs : Answers(t)'
  BY AnswersStep DEF CatchesUp
<1> QED BY <1>2, <1>3, <1>4, <1>5 DEF CatchesUp

LEMMA CatchElect ==
    ASSUME Typed, Led', CatchesUp, [Next]_vars, NEW t \in Tabs, Elect(t)
    PROVE  CatchesUp'
<1>1. tab[t] \in Tab /\ tab'[t] = Takeover(tab[t])
  BY TabTyped DEF Elect, Typed, TypeOK
<1>2. tab'[t].leads /\ ~tab'[t].connected
  BY <1>1 DEF Takeover, Tab
<1>3. ~Connected'
  BY <1>2 DEF Connected, Led, OneLeads
<1> QED BY <1>3, CutOff

LEMMA CatchTicket ==
    ASSUME Typed, Led, Led', CatchesUp, [Next]_vars, NEW t \in Tabs, NEW s \in Sockets, Ticket(t, s)
    PROVE  CatchesUp'
<1>1. tab[t] \in Tab /\ tab[t].leads /\ ~tab[t].connected
  BY LedFacts DEF Ticket, TabRight
<1>2. tab'[t].leads /\ ~tab'[t].connected
  BY <1>1 DEF Ticket, Typed, TypeOK, Tab
<1>3. ~Connected'
  BY <1>2 DEF Connected, Led, OneLeads
<1> QED BY <1>3, CutOff

(* Steps of one tab that leave the sockets alone.                          *)
LEMMA CatchAlone ==
    ASSUME Typed, Led, CatchesUp, [Next]_vars, NEW t \in Tabs, sock' = sock, signalled' = signalled,
           \A u \in Tabs \ {t} : tab'[u] = tab[u] /\ relay'[u] = relay[u],
           tab'[t].leads /\ tab'[t].connected =>
             tab[t].leads /\ tab[t].connected /\ tab'[t].socket = tab[t].socket,
           tab'[t].open /\ (tab[t].open => Informed(t)) => Informed(t)'
    PROVE  CatchesUp'
<1>1. Connected' => Connected
  <2>1. \A u \in Tabs : tab'[u].leads /\ tab'[u].connected =>
             tab[u].leads /\ tab[u].connected /\ tab'[u].socket = tab[u].socket
    OBVIOUS
  <2>2. \A s \in Sockets : InOrder(s)' => InOrder(s)
    BY DEF InOrder
  <2> QED BY <2>1, <2>2, WasConnected
<1> QED BY <1>1, CaughtByOne

LEMMA CatchOpen ==
    ASSUME Typed, Led, CatchesUp, [Next]_vars, NEW t \in Tabs, OpenTab(t)
    PROVE  CatchesUp'
<1>1. /\ sock' = sock /\ signalled' = signalled /\ tab'[t] = Opened
      /\ \A u \in Tabs \ {t} : tab'[u] = tab[u] /\ relay'[u] = relay[u]
  BY DEF OpenTab, log, Typed, TypeOK
<1>2. tab'[t].seen = version /\ ~tab'[t].leads
  BY <1>1 DEF Opened, Closed
<1>3. signalled <= version
  BY DEF Typed, TypeOK
<1>4. Informed(t)'
  BY <1>1, <1>2, <1>3 DEF Informed
<1> QED BY <1>1, <1>2, <1>4, CatchAlone

(* Messages to the tabs that are left are never taken back.                *)
LEMMA CatchClose ==
    ASSUME Typed, Led, CatchesUp, [Next]_vars, NEW t \in Tabs, NEW stops, CloseTab(t, stops)
    PROVE  CatchesUp'
<1>0. TypeOK
  BY DEF Typed
<1>1. /\ signalled' = signalled /\ tab'[t] = Closed
      /\ \A u \in Tabs \ {t} : tab'[u] = tab[u]
      /\ \A s \in Sockets : sock[s].tab # t => sock'[s] = sock[s]
  BY <1>0 DEF CloseTab, HungUp, log, TypeOK
<1>2. ~tab'[t].leads /\ ~tab'[t].open
  BY <1>1 DEF Closed
<1>3. \A u \in Tabs \ {t} : Has(relay[u], "news") => Has(relay'[u], "news")
  <2>1. relay \in [Tabs -> Seq(Messages)] /\ Relayed(t, "down") \in [Tabs -> Seq(Messages)]
    BY <1>0, RelayedTyped DEF TypeOK, Messages
  <2>2. \A u \in Tabs \ {t} : relay'[u] \in {relay[u], Relayed(t, "down")[u]}
    BY <2>1 DEF CloseTab
  <2> QED BY <1>0, <2>2, RelayedTyped DEF Messages
<1>4. Connected' => Connected
  <2> SUFFICES ASSUME Connected' PROVE Connected
    OBVIOUS
  <2>1. PICK u \in Tabs : tab'[u].leads /\ tab'[u].connected /\ InOrder(tab[u].socket)'
    BY DEF Connected
  <2>2. u # t /\ tab'[u] = tab[u]
    BY <1>1, <1>2, <2>1
  <2>3. PICK s \in Sockets : s = tab[u].socket /\ sock[s].tab = u
    BY <2>1, <2>2, LedFacts DEF TabRight
  <2>4. sock'[s] = sock[s] /\ InOrder(s)'
    BY <1>1, <2>1, <2>2, <2>3 DEF InOrder
  <2> QED BY <2>1, <2>2, <2>3, <2>4 DEF Connected, InOrder
<1> QED BY <1>1, <1>2, <1>3, <1>4, CaughtByOne

LEMMA CatchHear ==
    ASSUME Typed, Led, CatchesUp, [Next]_vars, NEW t \in Tabs, Hear(t)
    PROVE  CatchesUp'
<1>0. /\ tab[t] \in Tab /\ relay[t] \in Seq(Messages) /\ relay[t] # <<>>
  BY TabTyped DEF Typed, TypeOK, Hear
<1>1. /\ sock' = sock /\ signalled' = signalled
      /\ tab'[t] = Told(tab[t], Head(relay[t])) /\ relay'[t] = Tail(relay[t])
      /\ \A u \in Tabs \ {t} : tab'[u] = tab[u] /\ relay'[u] = relay[u]
  BY DEF Hear, log, Typed, TypeOK
<1>2. CASE tab[t].leads
  <2>1. tab'[t] = tab[t]
    BY <1>1, <1>2 DEF Told
  <2>2. Informed(t) => Informed(t)'
    BY <1>1, <1>2, <2>1 DEF Informed
  <2> QED BY <1>1, <2>1, <2>2, CatchAlone
<1>3. CASE ~tab[t].leads /\ Head(relay[t]) = "news"
  <2>1. tab'[t] = Heard(tab[t])
    BY <1>1, <1>3 DEF Told
  <2>2. ~tab'[t].leads /\ (tab'[t].pending \/ tab'[t].fetching)
    BY <1>0, <1>3, <2>1, HeardKeeps
  <2>3. Informed(t)'
    BY <2>2 DEF Informed
  <2> QED BY <1>1, <2>2, <2>3, CatchAlone
<1>4. CASE ~tab[t].leads /\ Head(relay[t]) # "news"
  <2>1. tab'[t] = [tab[t] EXCEPT !.connected = (Head(relay[t]) = "up")]
    BY <1>1, <1>4 DEF Told
  <2>2. /\ tab'[t].open = tab[t].open /\ ~tab'[t].leads /\ tab'[t].seen = tab[t].seen
        /\ tab'[t].fetching = tab[t].fetching
        /\ tab'[t].missed = tab[t].missed /\ tab'[t].pending = tab[t].pending
    BY <1>0, <1>4, <2>1 DEF Tab
  <2>3. Has(relay[t], "news") => Has(relay'[t], "news")
    BY <1>0, <1>1, <1>4, TailHas
  <2>4. Informed(t) => Informed(t)'
    BY <1>1, <2>2, <2>3, StaysInformed
  <2> QED BY <1>1, <2>2, <2>4, CatchAlone
<1> QED BY <1>2, <1>3, <1>4

LEMMA CatchLook ==
    ASSUME Typed, Led, CatchesUp, [Next]_vars, NEW t \in Tabs,
           \/ Dial(t) \/ NoTicket(t) \/ Hide(t) \/ Show(t)
           \/ SafetySync(t) \/ Fetch(t) \/ FetchFails(t)
    PROVE  CatchesUp'
<1>0. TypeOK /\ tab[t] \in Tab /\ signalled <= version
  BY TabTyped DEF Typed, TypeOK
<1>1. /\ sock' = sock /\ signalled' = signalled /\ relay' = relay
      /\ \A u \in Tabs \ {t} : tab'[u] = tab[u]
  BY <1>0 DEF Dial, NoTicket, Hide, Show, SafetySync, Fetch, FetchFails, log, TypeOK
<1>2. ASSUME tab'[t].leads = tab[t].leads, tab'[t].connected = tab[t].connected,
             tab'[t].socket = tab[t].socket, tab'[t].open = tab[t].open,
             Informed(t) => Informed(t)'
      PROVE  CatchesUp'
  BY <1>1, <1>2, CatchAlone
<1>3. ASSUME tab'[t].leads = tab[t].leads, tab'[t].connected = tab[t].connected,
             tab'[t].socket = tab[t].socket, tab'[t].open = tab[t].open,
             tab'[t].seen = tab[t].seen, tab[t].fetching => tab'[t].fetching,
             tab[t].missed => tab'[t].missed, tab[t].pending => tab'[t].pending \/ tab'[t].fetching
      PROVE  CatchesUp'
  BY <1>1, <1>2, <1>3, StaysInformed
<1>4. CASE Dial(t)
  BY <1>0, <1>3, <1>4 DEF Dial, TypeOK, Tab
<1>5. CASE NoTicket(t)
  BY <1>0, <1>3, <1>5 DEF NoTicket, TypeOK, Tab
<1>6. CASE Hide(t)
  BY <1>0, <1>3, <1>6 DEF Hide, TypeOK, Tab
<1>7. CASE SafetySync(t)
  BY <1>0, <1>3, <1>7 DEF SafetySync, TypeOK, Tab
<1>8. CASE Show(t)
  <2>1. tab'[t] = CaughtUp([tab[t] EXCEPT !.visible = TRUE])
    BY <1>0, <1>8 DEF Show, TypeOK
  <2> QED BY <1>0, <1>3, <2>1 DEF CaughtUp, Tab
<1>9. CASE Fetch(t)
  <2>1. /\ tab'[t].leads = tab[t].leads /\ tab'[t].connected = tab[t].connected
        /\ tab'[t].socket = tab[t].socket /\ tab'[t].open = tab[t].open /\ tab'[t].seen = version
    BY <1>0, <1>9 DEF Fetch, TypeOK, Tab
  <2>2. Informed(t)'
    BY <1>0, <1>1, <2>1 DEF Informed
  <2> QED BY <1>2, <2>1, <2>2
<1>10. CASE FetchFails(t)
  <2>1. /\ tab'[t].leads = tab[t].leads /\ tab'[t].connected = tab[t].connected
        /\ tab'[t].socket = tab[t].socket /\ tab'[t].open = tab[t].open /\ tab'[t].missed
    BY <1>0, <1>10 DEF FetchFails, TypeOK, Tab
  <2>2. Informed(t)'
    BY <2>1 DEF Informed
  <2> QED BY <1>2, <2>1, <2>2
<1> QED BY <1>4, <1>5, <1>6, <1>7, <1>8, <1>9, <1>10

LEMMA CatchStep ==
    ASSUME Typed, Remembers, Led, Led', CatchesUp, [Next]_vars
    PROVE  CatchesUp'
<1>1. ASSUME NEW s \in Sockets, Break(s) \/ Receive(s) PROVE CatchesUp'
  BY <1>1, CatchEnds, CatchReceive DEF Break, Receive
<1>2. ASSUME NEW t \in Tabs, TabActs(t) PROVE CatchesUp'
  BY <1>2, CatchElect, CatchTicket, CatchOpen, CatchClose, CatchHear, CatchLook DEF TabActs
<1> QED BY <1>1, <1>2, Kinds, CatchHub, CatchNotify, CatchOnline

(* Without the gap, whatever broke, lapsed, was evicted or moved to        *)
(* another tab, a tab on screen that counts as connected and has nothing   *)
(* on the way to it has fetched every change the hub was told of           *)
(* (realtimeService.ts onSocketMessage, onTabMessage; useEntityData.ts).   *)
THEOREM HeardIsFetched == "redial" \notin Gaps => (Spec => []FetchesWhatItHears)
<1> SUFFICES ASSUME "redial" \notin Gaps PROVE Spec => []FetchesWhatItHears
  OBVIOUS
<1>1. Init => CatchesUp
  <2> SUFFICES ASSUME Init PROVE CatchesUp
    OBVIOUS
  <2>1. \A t \in Tabs : tab[t] = Opened
    BY DEF Init
  <2>2. ~Opened.pending /\ ~Opened.leads
    BY DEF Opened, Closed
  <2> QED BY <2>1, <2>2 DEF CatchesUp, Answers, Connected
<1>2. Typed /\ Remembers /\ Led /\ Led' /\ CatchesUp /\ [Next]_vars => CatchesUp'
  BY CatchStep
<1>3. Typed /\ Led /\ CatchesUp => FetchesWhatItHears
  <2> SUFFICES ASSUME Typed, Led, CatchesUp, NEW t \in Tabs, tab[t].open, tab[t].visible,
                      ~tab[t].fetching, ~tab[t].missed, relay[t] = <<>>,
                      NEW u \in Tabs, tab[u].leads, tab[u].connected,
                      \A s \in Sockets : Settled(s)
               PROVE  tab[t].seen >= signalled
    BY DEF FetchesWhatItHears
  <2>1. PICK s \in Sockets : s = tab[u].socket /\ sock[s].client = "open"
    BY LedFacts DEF TabRight
  <2>2. sock[s].hub = "open" /\ ~sock[s].lapsed /\ sock[s].mail = <<>>
    BY <2>1 DEF Settled
  <2>3. Connected
    BY <2>1, <2>2, Empty DEF Connected, InOrder
  <2>4. ~tab[t].pending /\ ~Has(relay[t], "news")
    BY Empty DEF CatchesUp, Answers
  <2> QED BY <2>3, <2>4 DEF CatchesUp, Informed
<1> QED BY <1>1, <1>2, <1>3, AlwaysTyped, AlwaysRemembers, AlwaysLed, PTL DEF Spec
=============================================================================
