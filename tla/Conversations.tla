---------------------------- MODULE Conversations ----------------------------
(***************************************************************************)
(* One conversation (an ordinary chat or a private room), its messages,    *)
(* receipts and reactions: the handlers of worker.ts, the statements of    *)
(* messageReceipts.ts and deltaSync.ts, the rules of privateRooms.ts, the  *)
(* hub's signals and acknowledgements (realtime.ts), and the sender's      *)
(* device (useHandlers.ts).                                                *)
(*                                                                         *)
(* A handler that reads before it writes is a call in "call", with what it *)
(* read; its batch is one step. Receipts are single batches whose WHERE    *)
(* checks everything. A signal is sent to the hub after the commit, and    *)
(* may be lost. Devices answer the signals they hear with receipts.        *)
(***************************************************************************)
EXTENDS Naturals, FiniteSets

CONSTANTS
    People, Admins,
    Messages,
    Author,        \* message -> who sends it
    Emoji,
    RoomHandlers,  \* handlers of requests that write the conversation
    Handlers,      \* handlers of requests that write a message or a reaction
    Nobody,
    Rosters,       \* bound: the sets of members a device asks for
    MaxEdits,      \* bound: requests that write the conversation
    MaxSends,      \* bound: requests to send or to react
    Gaps           \* known gaps of the code that may happen, see Lose

ASSUME ConversationsAssumption ==
    /\ Admins \subseteq People /\ Author \in [Messages -> People]
    /\ Rosters \subseteq SUBSET People
    /\ Nobody \notin People /\ Nobody \notin Emoji
    /\ {MaxEdits, MaxSends} \subseteq Nat
    /\ Gaps \subseteq {"overlap"}

VARIABLES
    room,    \* the conversation's row
    msg,     \* the rows of messages
    call,    \* what each handler is doing
    edits, sends,
    out,     \* message -> how the sender's device shows it
    notes,   \* signals on their way to the hub
    signal,  \* <<person, message>>: a signal a device has not acted on
    told     \* history: message -> how often its members were notified of its row

vars == <<room, msg, call, edits, sends, out, notes, signal, told>>

NoRoom  == [members |-> {}, private |-> FALSE, creator |-> Nobody]
NoRow   == [sender |-> Nobody]
Idle    == [do |-> "none"]

Rooms    == [members : SUBSET People, private : BOOLEAN, creator : People \cup {Nobody}]
Statuses == {"sent", "delivered", "read"}
Rows     == [sender : People, status : Statuses, readBy : SUBSET People,
             reactions : [People -> Emoji \cup {Nobody}]]

RoomCalls    == [do : {"write"}, by : People, to : Rooms]
                \cup [do : {"update"}, by : People, members : SUBSET People, manages : BOOLEAN]
                \cup [do : {"delete"}, by : People, ids : SUBSET Messages]
SendCalls    == [do : {"look", "store", "push", "answer"}, m : Messages, new : BOOLEAN]
ReactCalls   == [do : {"react"}, by : People, m : Messages, emoji : Emoji \cup {Nobody}]
Calls        == {Idle} \cup RoomCalls \cup SendCalls \cup ReactCalls

TypeOK ==
    /\ room \in Rooms \cup {NoRoom}
    /\ msg \in [Messages -> Rows \cup {NoRow}]
    /\ call \in [RoomHandlers \cup Handlers -> Calls]
    /\ edits \in 0..MaxEdits /\ sends \in 0..MaxSends
    /\ out \in [Messages -> {"unsent", "sent", "failed", "confirmed"}]
    /\ notes \subseteq Messages
    /\ signal \subseteq People \X Messages
    /\ told \in [Messages -> Nat]

Init ==
    /\ room = NoRoom
    /\ msg = [m \in Messages |-> NoRow]
    /\ call = [h \in RoomHandlers \cup Handlers |-> Idle]
    /\ edits = 0 /\ sends = 0
    /\ out = [m \in Messages |-> "unsent"]
    /\ notes = {} /\ signal = {}
    /\ told = [m \in Messages |-> 0]

Exists    == room.creator # Nobody
Stored(m) == msg[m].sender # Nobody

(* mayUseConversation and mayManageRoom. *)
MayUse(p, r) == p \in r.members \/ (p \in Admins /\ ~r.private)
Users(r) == {p \in People : MayUse(p, r)}
Manages(p, r) ==
    IF ~r.private THEN MayUse(p, r)
    ELSE r.creator = p \/ (p \in Admins /\ p \in r.members)

Goes(h, c) == call' = [call EXCEPT ![h] = c]
Ends(h)    == Goes(h, Idle)
Device     == <<out, signal, told>>

-----------------------------------------------------------------------------
(* The conversation.                                                       *)

(* privateRoomProblem. Mutant: an id that exists is not checked further    *)
(* than for membership.                                                    *)
NotAdminOnly(p, members, private) ==
    private /\ ~Exists => p \in Admins /\ p \in members
MayCreate(p, members, private) ==
    IF Exists THEN ~room.private \/ Manages(p, room)
    ELSE private => p \in Admins /\ p \in members

(* POST /conversations: an upsert, so that a create can be sent again; the *)
(* privacy and the creator of a conversation that exists are kept. A new   *)
(* id is random: no two requests make it at once.                          *)
Create(h, p, members, private) ==
    /\ call[h] = Idle /\ edits < MaxEdits
    /\ p \in members \/ p \in Admins
    /\ Exists => MayUse(p, room)
    /\ ~Exists => \A g \in RoomHandlers : call[g].do # "write"
    /\ MayCreate(p, members, private)
    /\ edits' = edits + 1
    /\ Goes(h, [do |-> "write", by |-> p, to |->
                [members |-> members,
                 private |-> IF Exists THEN room.private ELSE private,
                 creator |-> IF Exists THEN room.creator ELSE p]])
    /\ UNCHANGED <<room, msg, sends, out, notes, signal, told>>

WriteRoom(h) ==
    /\ call[h].do = "write"
    /\ room' = call[h].to
    /\ Ends(h)
    /\ UNCHANGED <<msg, edits, sends, notes, Device>>

(* PUT: a member pins, archives or renames with the whole conversation as  *)
(* their device has it; of a private room only its managers change who is  *)
(* in it.                                                                  *)
MembersAfter(p, members) ==
    IF room.private /\ ~Manages(p, room) THEN room.members ELSE members

Update(h, p, members) ==
    /\ call[h] = Idle /\ edits < MaxEdits
    /\ Exists /\ MayUse(p, room)
    /\ edits' = edits + 1
    /\ Goes(h, [do |-> "update", by |-> p, members |-> MembersAfter(p, members),
                manages |-> Manages(p, room)])
    /\ UNCHANGED <<room, msg, sends, out, notes, signal, told>>

UpdateRoom(h) ==
    /\ call[h].do = "update"
    /\ room' = IF Exists THEN [room EXCEPT !.members = call[h].members] ELSE room
    /\ Ends(h)
    /\ UNCHANGED <<msg, edits, sends, notes, Device>>

(* DELETE, with the messages and a tombstone for each that was read.       *)
Delete(h, p) ==
    /\ call[h] = Idle /\ edits < MaxEdits
    /\ Exists => MayUse(p, room) /\ Manages(p, room)
    /\ edits' = edits + 1
    /\ Goes(h, [do |-> "delete", by |-> p, ids |-> {m \in Messages : Stored(m)}])
    /\ UNCHANGED <<room, msg, sends, out, notes, signal, told>>

DeleteRoom(h) ==
    /\ call[h].do = "delete"
    /\ room' = NoRoom
    /\ msg' = [m \in Messages |-> NoRow]
    /\ notes' = notes \cup call[h].ids
    /\ Ends(h)
    /\ UNCHANGED <<edits, sends, Device>>

-----------------------------------------------------------------------------
(* Sending.                                                                *)

(* The device shows a message at once and posts it; one that failed can be *)
(* sent again. The chat must exist and its sender be in it.                *)
Post(h, m, lost) ==
    /\ call[h] = Idle /\ sends < MaxSends
    /\ out[m] \in {"unsent", "failed"}
    /\ "overlap" \notin Gaps =>
         \A g \in Handlers : call[g].do \in {"look", "store", "push", "answer"} => call[g].m # m
    /\ sends' = sends + 1
    /\ IF ~lost /\ Exists /\ MayUse(Author[m], room)
       THEN /\ Goes(h, [do |-> "look", m |-> m, new |-> FALSE])
            /\ out' = [out EXCEPT ![m] = "sent"]
       ELSE out' = [out EXCEPT ![m] = "failed"] /\ UNCHANGED call
    /\ UNCHANGED <<room, msg, edits, notes, signal, told>>

Look(h) ==
    /\ call[h].do = "look"
    /\ Goes(h, [call[h] EXCEPT !.do = "store", !.new = ~Stored(call[h].m)])
    /\ UNCHANGED <<room, msg, edits, sends, notes, Device>>

NoReactions == [p \in People |-> Nobody]
NewRow(m)   == [sender |-> Author[m], status |-> "sent", readBy |-> {}, reactions |-> NoReactions]

(* A message sent again keeps its receipts and reactions. Mutant: it       *)
(* replaces its row.                                                       *)
Replaced(m) == NewRow(m)
Upserted(m) ==
    IF Stored(m) THEN [msg[m] EXCEPT !.sender = Author[m], !.status = "sent"] ELSE NewRow(m)

Store(h) ==
    /\ call[h].do = "store"
    /\ LET m == call[h].m IN
       /\ msg' = [msg EXCEPT ![m] = Upserted(m)]
       /\ notes' = notes \cup {m}
       /\ told' = IF Stored(m) THEN told ELSE [told EXCEPT ![m] = 0]
    /\ Goes(h, [call[h] EXCEPT !.do = "push"])
    /\ UNCHANGED <<room, edits, sends, out, signal>>

(* Its members are notified of a new message. Mutant: of every one.        *)
PushesAll(c) == TRUE
Pushes(c)    == c.new

Push(h) ==
    /\ call[h].do = "push"
    /\ told' = IF Pushes(call[h]) /\ Exists /\ room.members \ {Author[call[h].m]} # {}
               THEN [told EXCEPT ![call[h].m] = @ + 1] ELSE told
    /\ Goes(h, [call[h] EXCEPT !.do = "answer"])
    /\ UNCHANGED <<room, msg, edits, sends, out, notes, signal>>

Answer(h) ==
    /\ call[h].do = "answer"
    /\ out' = IF out[call[h].m] = "sent" THEN [out EXCEPT ![call[h].m] = "confirmed"] ELSE out
    /\ Ends(h)
    /\ UNCHANGED <<room, msg, edits, sends, notes, signal, told>>

(* The connection breaks: the message is marked "Not sent" though it may   *)
(* be stored. With the gap, while the handler is still running.            *)
Lose(h) ==
    /\ \/ call[h].do = "answer" /\ Ends(h)
       \/ /\ "overlap" \in Gaps /\ call[h].do \in {"look", "store", "push"}
          /\ UNCHANGED call
    /\ out[call[h].m] = "sent"
    /\ out' = [out EXCEPT ![call[h].m] = "failed"]
    /\ UNCHANGED <<room, msg, edits, sends, notes, signal, told>>

-----------------------------------------------------------------------------
(* Reactions: checked, then written as one entry of the message's map.     *)
OwnEntry(row, c) == [row EXCEPT !.reactions = [@ EXCEPT ![c.by] = c.emoji]]

React(h, p, m, e) ==
    /\ call[h] = Idle /\ sends < MaxSends
    /\ Stored(m) /\ p \in room.members
    /\ sends' = sends + 1
    /\ Goes(h, [do |-> "react", by |-> p, m |-> m, emoji |-> e])
    /\ UNCHANGED <<room, msg, edits, notes, Device>>

Reacted(h) ==
    /\ call[h].do = "react"
    /\ LET c   == call[h]
           row == IF Stored(c.m) THEN OwnEntry(msg[c.m], c) ELSE NoRow IN
       /\ msg' = [msg EXCEPT ![c.m] = row]
       /\ notes' = IF row # msg[c.m] THEN notes \cup {c.m} ELSE notes
    /\ Ends(h)
    /\ UNCHANGED <<room, edits, sends, Device>>

-----------------------------------------------------------------------------
(* Receipts.                                                               *)

(* readReceiptStmts: who read it, the first time only.                     *)
Reads(p, m) ==
    /\ Stored(m) /\ msg[m].sender # p /\ p \notin msg[m].readBy
    /\ Exists /\ p \in room.members

(* statusUpgradeStmts. Mutant: whatever the status was.                    *)
UpgradesAlways(m) == Stored(m)
Upgrades(m)       == Stored(m) /\ msg[m].status = "sent"

Acked(p, m, to) ==
    IF to = "read"
    THEN IF Reads(p, m) THEN [msg[m] EXCEPT !.readBy = @ \cup {p}, !.status = "read"] ELSE msg[m]
    ELSE IF Upgrades(m) THEN [msg[m] EXCEPT !.status = "delivered"] ELSE msg[m]

(* Only a row that changed is announced. Mutant: every one.                *)
AnnouncedAlways(m, row) == TRUE
Announced(m, row)       == row # msg[m]

Acks(p, m, to) ==
    /\ msg' = [msg EXCEPT ![m] = Acked(p, m, to)]
    /\ notes' = IF Announced(m, Acked(p, m, to)) THEN notes \cup {m} ELSE notes

(* By PUT /messages/status-batch, or by the hub, whose copy of the room    *)
(* may be a minute old: it may let anyone through.                         *)
Ack(p, m, to) ==
    /\ Acks(p, m, to)
    /\ UNCHANGED <<room, call, edits, sends, Device>>

-----------------------------------------------------------------------------
(* The hub's signals. It reads the room anew and tells those who may use   *)
(* it; a signal may be lost. Its copy is kept for a minute.                *)
Notify(id) ==
    /\ id \in notes /\ notes' = notes \ {id}
    /\ signal' = signal \cup (Users(room) \X {id})
    /\ UNCHANGED <<room, msg, call, edits, sends, out, told>>

LoseNote(id) ==
    /\ id \in notes /\ notes' = notes \ {id}
    /\ UNCHANGED <<room, msg, call, edits, sends, Device>>

(* A device that hears of a message fetches it, and may acknowledge it.    *)
Hear(p, m) ==
    /\ <<p, m>> \in signal
    /\ signal' = signal \ {<<p, m>>}
    /\ \/ \E to \in {"delivered", "read"} : Acks(p, m, to)
       \/ UNCHANGED <<msg, notes>>
    /\ UNCHANGED <<room, call, edits, sends, out, told>>

-----------------------------------------------------------------------------
RoomStep(h) ==
    \/ \E p \in People, members \in Rosters :
         \/ \E private \in BOOLEAN : Create(h, p, members, private)
         \/ Update(h, p, members)
    \/ \E p \in People : Delete(h, p)
    \/ WriteRoom(h) \/ UpdateRoom(h) \/ DeleteRoom(h)

Step(h) ==
    \/ \E m \in Messages, lost \in BOOLEAN : Post(h, m, lost)
    \/ Look(h) \/ Store(h) \/ Push(h) \/ Answer(h) \/ Lose(h)
    \/ \E p \in People, m \in Messages, e \in Emoji \cup {Nobody} : React(h, p, m, e)
    \/ Reacted(h)

Next ==
    \/ \E h \in RoomHandlers : RoomStep(h)
    \/ \E h \in Handlers : Step(h)
    \/ \E p \in People, m \in Messages :
         \/ \E to \in {"delivered", "read"} : Ack(p, m, to)
         \/ Hear(p, m)
    \/ \E id \in Messages : Notify(id) \/ LoseNote(id)

Spec == Init /\ [][Next]_vars

(* Devices act on the signals they get, and the hub on its requests.       *)
FairSpec ==
    /\ Spec
    /\ \A p \in People, m \in Messages : WF_vars(Hear(p, m))
    /\ \A id \in Messages : WF_vars(Notify(id))

-----------------------------------------------------------------------------
(* Whatever is sent again and acknowledged at once, nobody's receipt is    *)
(* ever lost, only a member other than the sender adds one, and one        *)
(* request changes one person's reaction (messageReceipts.ts:7).           *)
ReceiptsKept ==
    [][\A m \in Messages : Stored(m) /\ Stored(m)' =>
         /\ msg[m].readBy \subseteq msg'[m].readBy
         /\ \A p \in msg'[m].readBy \ msg[m].readBy : p \in room.members /\ p # Author[m]
         /\ Cardinality({p \in People : msg'[m].reactions[p] # msg[m].reactions[p]}) <= 1]_vars

(* Acknowledgements of several devices, in any order, never take a message *)
(* back from read or delivered: only sending it again does                 *)
(* (statusUpgradeStmts).                                                   *)
Rank(s) == IF s = "sent" THEN 0 ELSE IF s = "delivered" THEN 1 ELSE 2
OnlyResendGoesBack ==
    [][\A m \in Messages : Stored(m) /\ Stored(m)' /\ Rank(msg'[m].status) < Rank(msg[m].status) =>
         \E h \in Handlers : call[h].do = "store" /\ call[h].m = m /\ call'[h].do = "push"]_vars

(* What the hub says of every receipt (realtime.ts:319-321): its status    *)
(* only goes forward.                                                      *)
ForwardOnly ==
    [][\A m \in Messages : Stored(m) /\ Stored(m)' =>
         Rank(msg'[m].status) >= Rank(msg[m].status)]_vars

(* Members are notified of a message once, however often it is sent, as    *)
(* long as it is not deleted with its conversation.                        *)
PushedOnce == \A m \in Messages : told[m] <= 1

(* In a private room only its managers change who is in it, and nobody     *)
(* makes it public or their own (worker.ts:1618, privateRooms.ts).         *)
PrivateByManagers ==
    [][Exists /\ Exists' /\ room.private =>
         /\ room'.private /\ room'.creator = room.creator
         /\ room' # room => \E h \in RoomHandlers :
                              call[h] # Idle /\ call'[h] = Idle /\ Manages(call[h].by, room)]_vars

(* Members who pin or archive a private room leave its members as stored,  *)
(* however requests overlap (worker.ts:1612-1613).                         *)
OthersLeaveMembers ==
    [][\A h \in RoomHandlers :
         call[h].do = "update" /\ call'[h] = Idle /\ ~call[h].manages =>
           room'.members = room.members]_vars

(* Devices that acknowledge whatever they hear of do not keep each other   *)
(* busy: at last there is nothing left to hear (docs/ARCHITECTURE.md:30).  *)
Quiet == <>[](notes = {} /\ signal = {})
=============================================================================
