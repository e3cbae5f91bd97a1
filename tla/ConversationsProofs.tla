-------------------------- MODULE ConversationsProofs --------------------------
(***************************************************************************)
(* Proofs about Conversations, for any people, messages, handlers and      *)
(* bounds: types, what receipts and reactions keep, that statuses go back  *)
(* only when a message is sent again, that members are notified once, and  *)
(* that only managers change a private room.                               *)
(***************************************************************************)
EXTENDS Conversations, FiniteSetTheorems, TLAPS

USE ConversationsAssumption

H == RoomHandlers \cup Handlers

-----------------------------------------------------------------------------
(* Types, and that every row is its author's.                              *)

Own == \A m \in Messages : Stored(m) => msg[m].sender = Author[m]

LEMMA OneCall ==
    ASSUME call \in [H -> Calls], NEW h \in H, NEW c \in Calls, Goes(h, c)
    PROVE  /\ call' \in [H -> Calls]
           /\ call'[h] = c
           /\ \A g \in H : g # h => call'[g] = call[g]
BY DEF Goes

LEMMA OneEnd ==
    ASSUME call \in [H -> Calls], NEW h \in H, Ends(h)
    PROVE  /\ call' \in [H -> Calls]
           /\ call'[h] = Idle
           /\ \A g \in H : g # h => call'[g] = call[g]
<1>1. Idle \in Calls
  BY DEF Calls
<1>2. QED
  BY <1>1, OneCall DEF Ends

LEMMA Places ==
    ASSUME NEW c \in Calls
    PROVE  /\ c.do = "write" => c.by \in People /\ c.to \in Rooms
           /\ c.do = "update" => c.by \in People /\ c.members \subseteq People
           /\ c.do = "delete" => c.ids \subseteq Messages
           /\ c.do \in {"look", "store", "push", "answer"} => c \in SendCalls /\ c.m \in Messages
           /\ c.do = "react" => c.by \in People /\ c.m \in Messages /\ c.emoji \in Emoji \cup {Nobody}
BY DEF Calls, Idle, RoomCalls, SendCalls, ReactCalls

LEMMA RowTyped ==
    ASSUME TypeOK, NEW m \in Messages
    PROVE  /\ Stored(m) => msg[m] \in Rows
           /\ ~Stored(m) => msg[m] = NoRow
BY DEF TypeOK, Stored, Rows, NoRow

LEMMA UpsertedTyped ==
    ASSUME TypeOK, NEW m \in Messages
    PROVE  /\ Upserted(m) \in Rows /\ Upserted(m).sender = Author[m]
           /\ Stored(m) => /\ Upserted(m).readBy = msg[m].readBy
                           /\ Upserted(m).reactions = msg[m].reactions
<1>1. Author[m] \in People
  OBVIOUS
<1>2. NewRow(m) \in Rows /\ NewRow(m).sender = Author[m]
  BY <1>1 DEF NewRow, Rows, NoReactions, Statuses
<1>3. QED
  BY <1>1, <1>2, RowTyped DEF Upserted, Rows, Statuses

LEMMA OwnEntryTyped ==
    ASSUME NEW row \in Rows, NEW c, c.by \in People, c.emoji \in Emoji \cup {Nobody}
    PROVE  /\ OwnEntry(row, c) \in Rows
           /\ OwnEntry(row, c).sender = row.sender
           /\ OwnEntry(row, c).readBy = row.readBy
           /\ OwnEntry(row, c).status = row.status
           /\ OwnEntry(row, c).reactions = [row.reactions EXCEPT ![c.by] = c.emoji]
BY DEF OwnEntry, Rows

LEMMA AckedTyped ==
    ASSUME TypeOK, NEW p \in People, NEW m \in Messages, NEW to \in {"delivered", "read"}
    PROVE  \/ Acked(p, m, to) = msg[m]
           \/ /\ Stored(m) /\ Acked(p, m, to) \in Rows
              /\ Acked(p, m, to).sender = msg[m].sender
              /\ Acked(p, m, to).reactions = msg[m].reactions
              /\ \/ /\ Reads(p, m)
                    /\ Acked(p, m, to).readBy = msg[m].readBy \cup {p}
                    /\ Acked(p, m, to).status = "read"
                 \/ /\ msg[m].status = "sent"
                    /\ Acked(p, m, to).readBy = msg[m].readBy
                    /\ Acked(p, m, to).status = "delivered"
<1>1. CASE to = "read" /\ Reads(p, m)
  <2>1. Stored(m) /\ msg[m] \in Rows
    BY <1>1, RowTyped DEF Reads
  <2>2. Acked(p, m, to) = [msg[m] EXCEPT !.readBy = msg[m].readBy \cup {p}, !.status = "read"]
    BY <1>1 DEF Acked
  <2>3. msg[m].readBy \cup {p} \in SUBSET People /\ "read" \in Statuses
    BY <2>1 DEF Rows, Statuses
  <2>4. /\ Acked(p, m, to) \in Rows
        /\ Acked(p, m, to).sender = msg[m].sender /\ Acked(p, m, to).reactions = msg[m].reactions
        /\ Acked(p, m, to).readBy = msg[m].readBy \cup {p} /\ Acked(p, m, to).status = "read"
    BY <2>1, <2>2, <2>3 DEF Rows
  <2>5. QED
    BY <1>1, <2>1, <2>4
<1>2. CASE to # "read" /\ Upgrades(m)
  <2>1. Stored(m) /\ msg[m] \in Rows
    BY <1>2, RowTyped DEF Upgrades
  <2>2. Acked(p, m, to) = [msg[m] EXCEPT !.status = "delivered"]
    BY <1>2 DEF Acked
  <2>3. QED
    BY <1>2, <2>1, <2>2 DEF Rows, Statuses, Upgrades
<1>3. QED
  BY <1>1, <1>2 DEF Acked

(* What a step does to the row of message m.                               *)
RowStep(m) ==
    \/ msg'[m] = msg[m]
    \/ ~Stored(m)'
    \/ /\ msg'[m] = Upserted(m)
       /\ \E h \in Handlers : call[h].do = "store" /\ call[h].m = m /\ call'[h].do = "push"
    \/ \E h \in Handlers :
         /\ call[h].do = "react" /\ call[h].m = m /\ Stored(m)
         /\ msg'[m] = OwnEntry(msg[m], call[h])
    \/ \E p \in People, to \in {"delivered", "read"} : msg'[m] = Acked(p, m, to)

LEMMA RowSteps ==
    ASSUME TypeOK, [Next]_vars, NEW m \in Messages
    PROVE  RowStep(m)
<1> USE DEF TypeOK
<1>1. CASE UNCHANGED msg
  BY <1>1 DEF RowStep
<1>2. ASSUME NEW h \in RoomHandlers, RoomStep(h) PROVE RowStep(m)
  <2>1. CASE DeleteRoom(h)
    BY <2>1 DEF DeleteRoom, RowStep, Stored, NoRow
  <2>2. QED
    BY <1>1, <1>2, <2>1 DEF RoomStep, Create, Update, Delete, WriteRoom, UpdateRoom
<1>3. ASSUME NEW h \in Handlers, Step(h) PROVE RowStep(m)
  <2>1. CASE Store(h)
    <3>1. call[h] \in SendCalls
      BY <2>1, Places DEF Store, H
    <3>2. call'[h].do = "push"
      BY <2>1, <3>1 DEF Store, Goes, SendCalls
    <3>3. QED
      BY <2>1, <3>2 DEF Store, RowStep
  <2>2. CASE Reacted(h)
    <3>1. call[h].m \in Messages
      BY <2>2, Places DEF Reacted, H
    <3>2. CASE m = call[h].m
      BY <2>2, <3>1, <3>2, RowTyped DEF Reacted, RowStep
    <3>3. CASE m # call[h].m
      BY <2>2, <3>1, <3>3 DEF Reacted, RowStep
    <3>4. QED
      BY <3>2, <3>3
  <2>3. QED
    BY <1>1, <1>3, <2>1, <2>2 DEF Step, Post, Look, Push, Answer, Lose, React, Device
<1>4. ASSUME NEW p \in People, NEW n \in Messages, NEW to \in {"delivered", "read"}, Acks(p, n, to)
      PROVE  RowStep(m)
  BY <1>4 DEF Acks, RowStep
<1>5. ASSUME NEW p \in People, NEW n \in Messages,
             \/ \E to \in {"delivered", "read"} : Ack(p, n, to)
             \/ Hear(p, n)
      PROVE  RowStep(m)
  BY <1>1, <1>4, <1>5 DEF Ack, Hear
<1>6. ASSUME NEW n \in Messages, Notify(n) \/ LoseNote(n) PROVE RowStep(m)
  BY <1>1, <1>6 DEF Notify, LoseNote
<1>7. CASE UNCHANGED vars
  BY <1>1, <1>7 DEF vars
<1>8. QED
  BY <1>2, <1>3, <1>5, <1>6, <1>7 DEF Next

LEMMA OwnKept ==
    ASSUME TypeOK, Own, [Next]_vars
    PROVE  Own'
<1> SUFFICES ASSUME NEW m \in Messages, Stored(m)' PROVE msg'[m].sender = Author[m]
  BY DEF Own, Stored
<1>1. CASE msg'[m] = msg[m]
  BY <1>1 DEF Own, Stored
<1>2. CASE msg'[m] = Upserted(m)
  BY <1>2, UpsertedTyped
<1>3. ASSUME NEW h \in Handlers, call[h].do = "react", call[h].m = m, Stored(m),
             msg'[m] = OwnEntry(msg[m], call[h])
      PROVE  msg'[m].sender = Author[m]
  <2>1. msg[m] \in Rows /\ call[h] \in Calls
    BY <1>3, RowTyped DEF TypeOK
  <2>2. call[h].by \in People /\ call[h].emoji \in Emoji \cup {Nobody}
    BY <1>3, <2>1, Places
  <2>3. OwnEntry(msg[m], call[h]).sender = msg[m].sender
    BY <2>1, <2>2, OwnEntryTyped
  <2>4. QED
    BY <1>3, <2>3 DEF Own
<1>4. ASSUME NEW p \in People, NEW to \in {"delivered", "read"}, msg'[m] = Acked(p, m, to)
      PROVE  msg'[m].sender = Author[m]
  BY <1>1, <1>4, AckedTyped DEF Own
<1>5. QED
  BY <1>1, <1>2, <1>3, <1>4, RowSteps DEF RowStep

LEMMA RoomIsRoom == ASSUME TypeOK PROVE room \in Rooms
<1>1. NoRoom \in Rooms
  BY DEF NoRoom, Rooms
<1>2. QED
  BY <1>1 DEF TypeOK

LEMMA RoomTyped ==
    ASSUME TypeOK, NEW h \in RoomHandlers, RoomStep(h)
    PROVE  TypeOK'
<1> USE DEF TypeOK, H
<1>1. h \in H
  OBVIOUS
<1>2. ASSUME NEW p \in People, NEW members \in Rosters, NEW private \in BOOLEAN,
             Create(h, p, members, private)
      PROVE  TypeOK'
  <2> DEFINE to == [members |-> members,
                    private |-> IF Exists THEN room.private ELSE private,
                    creator |-> IF Exists THEN room.creator ELSE p]
  <2>1. room \in Rooms
    BY RoomIsRoom
  <2>2. to \in Rooms
    BY <2>1 DEF Rooms
  <2>3. [do |-> "write", by |-> p, to |-> to] \in Calls
    BY <2>2 DEF Calls, RoomCalls
  <2>4. edits' \in 0..MaxEdits
    BY <1>2 DEF Create
  <2>5. QED
    BY <1>1, <1>2, <2>3, <2>4, OneCall DEF Create
<1>3. ASSUME NEW p \in People, NEW members \in Rosters, Update(h, p, members) PROVE TypeOK'
  <2>1. room.members \subseteq People /\ MembersAfter(p, members) \subseteq People
    BY RoomIsRoom DEF Rooms, MembersAfter
  <2>2. Manages(p, room) \in BOOLEAN
    BY DEF Manages, MayUse
  <2>3. [do |-> "update", by |-> p, members |-> MembersAfter(p, members),
         manages |-> Manages(p, room)] \in Calls
    BY <2>1, <2>2 DEF Calls, RoomCalls
  <2>4. edits' \in 0..MaxEdits
    BY <1>3 DEF Update
  <2>5. QED
    BY <1>1, <1>3, <2>3, <2>4, OneCall DEF Update
<1>4. ASSUME NEW p \in People, Delete(h, p) PROVE TypeOK'
  <2>1. [do |-> "delete", by |-> p, ids |-> {m \in Messages : Stored(m)}] \in Calls
    BY DEF Calls, RoomCalls
  <2>2. edits' \in 0..MaxEdits
    BY <1>4 DEF Delete
  <2>3. QED
    BY <1>1, <1>4, <2>1, <2>2, OneCall DEF Delete
<1>5. CASE WriteRoom(h)
  <2>1. room' \in Rooms
    BY <1>1, <1>5, Places DEF WriteRoom
  <2>2. QED
    BY <1>1, <1>5, <2>1, OneEnd DEF WriteRoom, Device
<1>6. CASE UpdateRoom(h)
  <2>1. room \in Rooms /\ call[h].members \subseteq People
    BY <1>1, <1>6, RoomIsRoom, Places DEF UpdateRoom
  <2>2. room' \in Rooms
    BY <1>6, <2>1 DEF UpdateRoom, Rooms
  <2>3. QED
    BY <1>1, <1>6, <2>2, OneEnd DEF UpdateRoom, Device
<1>7. CASE DeleteRoom(h)
  <2>1. call[h].ids \subseteq Messages
    BY <1>1, <1>7, Places DEF DeleteRoom
  <2>2. QED
    BY <1>1, <1>7, <2>1, OneEnd DEF DeleteRoom, Device
<1>8. QED
  BY <1>2, <1>3, <1>4, <1>5, <1>6, <1>7 DEF RoomStep

LEMMA SendTyped ==
    ASSUME TypeOK, NEW h \in Handlers, Step(h)
    PROVE  TypeOK'
<1> USE DEF TypeOK, H
<1>1. h \in H
  OBVIOUS
<1>2. ASSUME NEW m \in Messages, NEW lost \in BOOLEAN, Post(h, m, lost) PROVE TypeOK'
  <2>1. [do |-> "look", m |-> m, new |-> FALSE] \in Calls
    BY DEF Calls, SendCalls
  <2>2. sends' \in 0..MaxSends /\ out' \in [Messages -> {"unsent", "sent", "failed", "confirmed"}]
    BY <1>2 DEF Post
  <2>3. call' \in [H -> Calls]
    BY <1>1, <1>2, <2>1, OneCall DEF Post
  <2>4. QED
    BY <1>2, <2>2, <2>3 DEF Post
<1>3. ASSUME call[h] \in SendCalls,
             NEW do \in {"store", "push", "answer"}, NEW new \in BOOLEAN
      PROVE  [call[h] EXCEPT !.do = do, !.new = new] \in Calls
  BY <1>3 DEF Calls, SendCalls
<1>4. ASSUME call[h] \in SendCalls, NEW do \in {"store", "push", "answer"}
      PROVE  [call[h] EXCEPT !.do = do] \in Calls
  BY <1>4 DEF Calls, SendCalls
<1>5. CASE Look(h)
  <2>1. call[h] \in SendCalls
    BY <1>1, <1>5, Places DEF Look
  <2>2. (~Stored(call[h].m)) \in BOOLEAN
    OBVIOUS
  <2>3. [call[h] EXCEPT !.do = "store", !.new = ~Stored(call[h].m)] \in Calls
    BY <1>3, <2>1, <2>2
  <2>4. QED
    BY <1>1, <1>5, <2>3, OneCall DEF Look, Device
<1>6. CASE Store(h)
  <2>1. call[h] \in SendCalls /\ call[h].m \in Messages
    BY <1>1, <1>6, Places DEF Store
  <2>2. /\ msg' \in [Messages -> Rows \cup {NoRow}]
        /\ notes' \subseteq Messages /\ told' \in [Messages -> Nat]
    BY <1>6, <2>1, UpsertedTyped DEF Store
  <2>3. QED
    BY <1>1, <1>4, <1>6, <2>1, <2>2, OneCall DEF Store
<1>7. CASE Push(h)
  <2>1. call[h] \in SendCalls /\ call[h].m \in Messages
    BY <1>1, <1>7, Places DEF Push
  <2>2. told' \in [Messages -> Nat]
    BY <1>7, <2>1 DEF Push
  <2>3. QED
    BY <1>1, <1>4, <1>7, <2>1, <2>2, OneCall DEF Push
<1>8. CASE Answer(h)
  <2>1. out' \in [Messages -> {"unsent", "sent", "failed", "confirmed"}]
    BY <1>8 DEF Answer
  <2>2. QED
    BY <1>1, <1>8, <2>1, OneEnd DEF Answer
<1>9. CASE Lose(h)
  <2>1. out' \in [Messages -> {"unsent", "sent", "failed", "confirmed"}]
    BY <1>9 DEF Lose
  <2>2. QED
    BY <1>1, <1>9, <2>1, OneEnd DEF Lose
<1>10. ASSUME NEW p \in People, NEW m \in Messages, NEW e \in Emoji \cup {Nobody}, React(h, p, m, e)
       PROVE  TypeOK'
  <2>1. [do |-> "react", by |-> p, m |-> m, emoji |-> e] \in Calls
    BY DEF Calls, ReactCalls
  <2>2. sends' \in 0..MaxSends
    BY <1>10 DEF React
  <2>3. QED
    BY <1>1, <1>10, <2>1, <2>2, OneCall DEF React, Device
<1>11. CASE Reacted(h)
  <2>1. call[h].by \in People /\ call[h].m \in Messages /\ call[h].emoji \in Emoji \cup {Nobody}
    BY <1>1, <1>11, Places DEF Reacted
  <2>2. Stored(call[h].m) => OwnEntry(msg[call[h].m], call[h]) \in Rows
    BY <2>1, RowTyped, OwnEntryTyped
  <2>3. msg' \in [Messages -> Rows \cup {NoRow}] /\ notes' \subseteq Messages
    BY <1>11, <2>1, <2>2 DEF Reacted
  <2>4. QED
    BY <1>1, <1>11, <2>3, OneEnd DEF Reacted, Device
<1>12. QED
  BY <1>2, <1>5, <1>6, <1>7, <1>8, <1>9, <1>10, <1>11 DEF Step

LEMMA Typed == ASSUME TypeOK, [Next]_vars PROVE TypeOK'
<1> USE DEF TypeOK
<1>1. CASE UNCHANGED vars
  BY <1>1 DEF vars
<1>2. ASSUME NEW p \in People, NEW m \in Messages, NEW to \in {"delivered", "read"}, Acks(p, m, to)
      PROVE  msg' \in [Messages -> Rows \cup {NoRow}] /\ notes' \subseteq Messages
  <2>1. Acked(p, m, to) \in Rows \cup {NoRow}
    BY AckedTyped
  <2>2. QED
    BY <1>2, <2>1 DEF Acks
<1>3. ASSUME NEW p \in People, NEW m \in Messages,
             \/ \E to \in {"delivered", "read"} : Ack(p, m, to)
             \/ Hear(p, m)
      PROVE  TypeOK'
  <2>1. msg' \in [Messages -> Rows \cup {NoRow}] /\ notes' \subseteq Messages
    BY <1>2, <1>3 DEF Ack, Hear
  <2>2. signal' \subseteq People \X Messages
    BY <1>3 DEF Ack, Hear, Device
  <2>3. QED
    BY <1>3, <2>1, <2>2 DEF Ack, Hear, Device
<1>4. ASSUME NEW m \in Messages, Notify(m) \/ LoseNote(m) PROVE TypeOK'
  <2>1. Users(room) \subseteq People
    BY DEF Users
  <2>2. signal' \subseteq People \X Messages /\ notes' \subseteq Messages
    BY <1>4, <2>1 DEF Notify, LoseNote, Device
  <2>3. QED
    BY <1>4, <2>2 DEF Notify, LoseNote, Device
<1>5. QED
  BY <1>1, <1>3, <1>4, RoomTyped, SendTyped DEF Next

(* Every variable keeps its type, and every row is its author's.           *)
THEOREM ConversationTypes == Spec => [](TypeOK /\ Own)
<1>1. Init => TypeOK /\ Own
  <2>1. Idle \in Calls
    BY DEF Calls
  <2>2. Init => call \in [H -> Calls]
    BY <2>1 DEF Init, H
  <2>3. QED
    BY <2>2 DEF Init, TypeOK, Own, Stored, NoRow, H
<1>2. TypeOK /\ Own /\ [Next]_vars => TypeOK' /\ Own'
  BY Typed, OwnKept
<1>3. QED
  BY <1>1, <1>2, PTL DEF Spec

-----------------------------------------------------------------------------
(* Receipts, reactions and statuses.                                       *)

RowKeeps(m) ==
    /\ msg[m].readBy \subseteq msg'[m].readBy
    /\ \A p \in msg'[m].readBy \ msg[m].readBy : p \in room.members /\ p # Author[m]
    /\ Cardinality({p \in People : msg'[m].reactions[p] # msg[m].reactions[p]}) <= 1

LEMMA SameReactions ==
    ASSUME NEW m \in Messages, msg'[m].reactions = msg[m].reactions
    PROVE  Cardinality({p \in People : msg'[m].reactions[p] # msg[m].reactions[p]}) <= 1
<1> DEFINE Changed == {p \in People : msg'[m].reactions[p] # msg[m].reactions[p]}
<1>1. Changed = {}
  OBVIOUS
<1> HIDE DEF Changed
<1>2. Cardinality(Changed) <= 1
  BY <1>1, FS_EmptySet
<1>3. QED
  BY <1>2 DEF Changed

(* ReceiptsKept: nobody's receipt is lost, only another member adds one,   *)
(* and a request changes one person's reaction (readReceiptStmts,          *)
(* reactionStmts, handleMessagesCreate).                                   *)
THEOREM ReceiptsSurvive == Spec => ReceiptsKept
<1>1. ASSUME TypeOK, Own, [Next]_vars, NEW m \in Messages, Stored(m), Stored(m)'
      PROVE  RowKeeps(m)
  <2>1. msg[m] \in Rows
    BY <1>1, RowTyped
  <2>2. CASE msg'[m] = msg[m] \/ msg'[m] = Upserted(m)
    <3>1. msg'[m].readBy = msg[m].readBy /\ msg'[m].reactions = msg[m].reactions
      BY <1>1, <2>2, UpsertedTyped
    <3>2. QED
      BY <3>1, SameReactions DEF RowKeeps
  <2>3. ASSUME NEW h \in Handlers, call[h].do = "react", msg'[m] = OwnEntry(msg[m], call[h])
        PROVE  RowKeeps(m)
    <3>1. call[h].by \in People /\ call[h].emoji \in Emoji \cup {Nobody}
      BY <1>1, <2>3, Places DEF TypeOK
    <3>2. /\ msg'[m].readBy = msg[m].readBy
          /\ msg'[m].reactions = [msg[m].reactions EXCEPT ![call[h].by] = call[h].emoji]
      BY <2>1, <2>3, <3>1, OwnEntryTyped
    <3>3. {p \in People : msg'[m].reactions[p] # msg[m].reactions[p]} \subseteq {call[h].by}
      BY <2>1, <3>2 DEF Rows
    <3>4. IsFiniteSet({call[h].by}) /\ Cardinality({call[h].by}) = 1
      BY FS_Singleton
    <3>5. Cardinality({p \in People : msg'[m].reactions[p] # msg[m].reactions[p]}) <= 1
      BY <3>3, <3>4, FS_Subset
    <3>6. QED
      BY <3>2, <3>5 DEF RowKeeps
  <2>4. ASSUME NEW p \in People, NEW to \in {"delivered", "read"}, msg'[m] = Acked(p, m, to)
        PROVE  RowKeeps(m)
    <3>1. CASE msg'[m] = msg[m]
      BY <2>2, <3>1
    <3>2. CASE msg'[m] # msg[m]
      <4>1. msg'[m].reactions = msg[m].reactions
        BY <1>1, <2>4, <3>2, AckedTyped
      <4>2. \/ msg'[m].readBy = msg[m].readBy
            \/ Reads(p, m) /\ msg'[m].readBy = msg[m].readBy \cup {p}
        BY <1>1, <2>4, <3>2, AckedTyped
      <4>3. Reads(p, m) => p \in room.members /\ p # Author[m]
        BY <1>1 DEF Reads, Own
      <4>4. QED
        BY <4>1, <4>2, <4>3, SameReactions DEF RowKeeps
    <3>3. QED
      BY <3>1, <3>2
  <2>5. QED
    BY <1>1, <2>2, <2>3, <2>4, RowSteps DEF RowStep
<1>2. TypeOK /\ Own /\ [Next]_vars =>
        [\A m \in Messages : Stored(m) /\ Stored(m)' =>
         /\ msg[m].readBy \subseteq msg'[m].readBy
         /\ \A p \in msg'[m].readBy \ msg[m].readBy : p \in room.members /\ p # Author[m]
         /\ Cardinality({p \in People : msg'[m].reactions[p] # msg[m].reactions[p]}) <= 1]_vars
  BY <1>1 DEF RowKeeps
<1>3. QED
  BY <1>2, ConversationTypes, PTL DEF Spec, ReceiptsKept

(* OnlyResendGoesBack: no order of acknowledgements takes a message back   *)
(* from read or delivered (statusUpgradeStmts, readReceiptStmts).          *)
THEOREM AcksGoForward == Spec => OnlyResendGoesBack
<1>1. ASSUME TypeOK, Own, [Next]_vars, NEW m \in Messages, Stored(m), Stored(m)',
             Rank(msg'[m].status) < Rank(msg[m].status)
      PROVE  \E h \in Handlers : call[h].do = "store" /\ call[h].m = m /\ call'[h].do = "push"
  <2>1. msg[m] \in Rows
    BY <1>1, RowTyped
  <2>2. msg'[m] # msg[m]
    BY <1>1 DEF Rank
  <2>3. ASSUME NEW h \in Handlers, call[h].do = "react", msg'[m] = OwnEntry(msg[m], call[h])
        PROVE  FALSE
    <3>1. call[h].by \in People /\ call[h].emoji \in Emoji \cup {Nobody}
      BY <1>1, <2>3, Places DEF TypeOK
    <3>2. OwnEntry(msg[m], call[h]).status = msg[m].status
      BY <2>1, <3>1, OwnEntryTyped
    <3>3. QED
      BY <1>1, <2>3, <3>2 DEF Rank
  <2>4. ASSUME NEW p \in People, NEW to \in {"delivered", "read"}, msg'[m] = Acked(p, m, to)
        PROVE  FALSE
    <3>1. msg'[m].status = "read" \/ msg[m].status = "sent"
      BY <1>1, <2>2, <2>4, AckedTyped
    <3>2. QED
      BY <1>1, <2>1, <3>1 DEF Rank, Rows, Statuses
  <2>5. QED
    BY <1>1, <2>2, <2>3, <2>4, RowSteps DEF RowStep
<1>2. TypeOK /\ Own /\ [Next]_vars =>
        [\A m \in Messages : Stored(m) /\ Stored(m)' /\ Rank(msg'[m].status) < Rank(msg[m].status) =>
         \E h \in Handlers : call[h].do = "store" /\ call[h].m = m /\ call'[h].do = "push"]_vars
  BY <1>1
<1>3. QED
  BY <1>2, ConversationTypes, PTL DEF Spec, OnlyResendGoesBack

-----------------------------------------------------------------------------
(* Notifications.                                                          *)

Sends(h) == call[h].do \in {"look", "store", "push", "answer"}

(* One request sends a message at a time; the one that found it new still  *)
(* finds it so, and nobody was notified of its row.                        *)
OneSender ==
    \A g, h \in Handlers : Sends(g) /\ Sends(h) /\ call[g].m = call[h].m => g = h
NewIsNew ==
    \A h \in Handlers :
        /\ call[h].do = "store" /\ call[h].new => ~Stored(call[h].m)
        /\ call[h].do = "push" /\ call[h].new => told[call[h].m] = 0

Notified == OneSender /\ NewIsNew /\ PushedOnce

(* Steps that send nothing: a row is not made, and nothing is told.        *)
LEMMA NothingSent ==
    ASSUME TypeOK, Notified, UNCHANGED told,
           \A m \in Messages : Stored(m)' => Stored(m),
           \A g \in Handlers : \/ call'[g] = call[g]
                               \/ call'[g].do \notin {"look", "store", "push", "answer"}
    PROVE  Notified'
<1>1. \A g \in Handlers : Sends(g)' => Sends(g) /\ call'[g] = call[g] /\ call[g].m \in Messages
  BY Places DEF Sends, TypeOK
<1>2. OneSender'
  BY <1>1 DEF Notified, OneSender
<1>3. NewIsNew'
  BY <1>1 DEF Notified, NewIsNew, Sends
<1>4. QED
  BY <1>2, <1>3 DEF Notified, PushedOnce

LEMMA RoomSendsNothing ==
    ASSUME TypeOK, Own, Notified, NEW h \in RoomHandlers, RoomStep(h)
    PROVE  Notified'
<1> USE DEF TypeOK, H
<1>1. UNCHANGED told
  BY DEF RoomStep, Create, Update, Delete, WriteRoom, UpdateRoom, DeleteRoom, Device
<1>2. ASSUME NEW m \in Messages, Stored(m)' PROVE Stored(m)
  <2>1. CASE DeleteRoom(h)
    BY <1>2, <2>1 DEF DeleteRoom, Stored, NoRow
  <2>2. CASE UNCHANGED msg
    BY <1>2, <2>2 DEF Stored
  <2>3. QED
    BY <2>1, <2>2 DEF RoomStep, Create, Update, Delete, WriteRoom, UpdateRoom, Device
<1>3. ASSUME NEW g \in Handlers
      PROVE  call'[g] = call[g] \/ call'[g].do \notin {"look", "store", "push", "answer"}
  BY DEF RoomStep, Create, Update, Delete, WriteRoom, UpdateRoom, DeleteRoom, Ends, Goes, Idle
<1>4. QED
  BY <1>1, <1>2, <1>3, NothingSent

LEMMA SendNotifiesOnce ==
    ASSUME TypeOK, Own, Notified, "overlap" \notin Gaps, NEW h \in Handlers, Step(h)
    PROVE  Notified'
<1> USE DEF TypeOK, H
<1>1. h \in H
  OBVIOUS
<1>2. ASSUME NEW m \in Messages, NEW lost \in BOOLEAN, Post(h, m, lost) PROVE Notified'
  <2>1. CASE UNCHANGED call
    BY <1>2, <2>1, NothingSent DEF Post, Stored
  <2>2. CASE Goes(h, [do |-> "look", m |-> m, new |-> FALSE])
    <3>1. call'[h] = [do |-> "look", m |-> m, new |-> FALSE] /\ \A g \in H : g # h => call'[g] = call[g]
      BY <2>2 DEF Goes
    <3>2. \A g \in Handlers : Sends(g) => call[g].m # m
      BY <1>2 DEF Post, Sends
    <3>3. OneSender'
      BY <3>1, <3>2 DEF Notified, OneSender, Sends
    <3>4. NewIsNew' /\ PushedOnce'
      BY <1>2, <3>1 DEF Post, Notified, NewIsNew, PushedOnce, Stored
    <3>5. QED
      BY <3>3, <3>4 DEF Notified
  <2>3. QED
    BY <1>2, <2>1, <2>2 DEF Post
<1>3. CASE Look(h)
  <2>1. call[h] \in SendCalls /\ call[h].do = "look"
    BY <1>1, <1>3, Places DEF Look
  <2>2. /\ call'[h].do = "store" /\ call'[h].m = call[h].m /\ call'[h].new = ~Stored(call[h].m)
        /\ \A g \in H : g # h => call'[g] = call[g]
    BY <1>3, <2>1 DEF Look, Goes, SendCalls
  <2>3. UNCHANGED <<msg, told>>
    BY <1>3 DEF Look, Device
  <2>4. OneSender'
    BY <2>1, <2>2 DEF Notified, OneSender, Sends
  <2>5. NewIsNew' /\ PushedOnce'
    BY <2>2, <2>3 DEF Notified, NewIsNew, PushedOnce, Stored
  <2>6. QED
    BY <2>4, <2>5 DEF Notified
<1>4. CASE Store(h)
  <2> DEFINE m == call[h].m
  <2>1. call[h] \in SendCalls /\ call[h].do = "store" /\ m \in Messages
    BY <1>1, <1>4, Places DEF Store
  <2>2. /\ call'[h].do = "push" /\ call'[h].m = m /\ call'[h].new = call[h].new
        /\ \A g \in H : g # h => call'[g] = call[g]
    BY <1>4, <2>1 DEF Store, Goes, SendCalls
  <2>3. /\ \A n \in Messages : n # m => msg'[n] = msg[n] /\ told'[n] = told[n]
        /\ told'[m] = IF Stored(m) THEN told[m] ELSE 0
    BY <1>4, <2>1 DEF Store
  <2>4. OneSender'
    BY <2>1, <2>2 DEF Notified, OneSender, Sends
  <2>5. \A g \in Handlers : g # h /\ Sends(g) => call[g].m # m /\ call[g].m \in Messages
    BY <2>1, Places DEF Notified, OneSender, Sends
  <2>6. NewIsNew'
    BY <2>1, <2>2, <2>3, <2>5 DEF Notified, NewIsNew, Sends, Stored
  <2>7. PushedOnce'
    BY <2>3 DEF Notified, PushedOnce
  <2>8. QED
    BY <2>4, <2>6, <2>7 DEF Notified
<1>5. CASE Push(h)
  <2> DEFINE m == call[h].m
  <2>1. call[h] \in SendCalls /\ call[h].do = "push" /\ m \in Messages
    BY <1>1, <1>5, Places DEF Push
  <2>2. /\ call'[h].do = "answer" /\ call'[h].m = m
        /\ \A g \in H : g # h => call'[g] = call[g]
    BY <1>5, <2>1 DEF Push, Goes, SendCalls
  <2>3. /\ UNCHANGED msg
        /\ \A n \in Messages : n # m => told'[n] = told[n]
        /\ told'[m] = told[m] \/ (call[h].new /\ told'[m] = told[m] + 1)
    BY <1>5, <2>1 DEF Push, Pushes
  <2>4. OneSender'
    BY <2>1, <2>2 DEF Notified, OneSender, Sends
  <2>5. \A g \in Handlers : g # h /\ Sends(g) => call[g].m # m /\ call[g].m \in Messages
    BY <2>1, Places DEF Notified, OneSender, Sends
  <2>6. NewIsNew'
    BY <2>2, <2>3, <2>5 DEF Notified, NewIsNew, Sends, Stored
  <2>7. PushedOnce'
    BY <2>1, <2>3 DEF Notified, PushedOnce, NewIsNew
  <2>8. QED
    BY <2>4, <2>6, <2>7 DEF Notified
<1>6. CASE Answer(h) \/ Lose(h)
  <2>1. Ends(h) /\ UNCHANGED <<msg, told>>
    BY <1>6 DEF Answer, Lose
  <2>2. QED
    BY <1>1, <2>1, OneEnd, NothingSent DEF Stored, Idle
<1>7. ASSUME NEW p \in People, NEW m \in Messages, NEW e \in Emoji \cup {Nobody}, React(h, p, m, e)
      PROVE  Notified'
  <2>1. UNCHANGED <<msg, told>> /\ Goes(h, [do |-> "react", by |-> p, m |-> m, emoji |-> e])
    BY <1>7 DEF React, Device
  <2>2. QED
    BY <1>1, <2>1, NothingSent DEF Goes, Stored
<1>8. CASE Reacted(h)
  <2>1. UNCHANGED told /\ Ends(h)
    BY <1>8 DEF Reacted, Device
  <2>2. ASSUME NEW m \in Messages, Stored(m)' PROVE Stored(m)
    BY <1>8, <2>2 DEF Reacted, Stored, NoRow
  <2>3. QED
    BY <1>1, <2>1, <2>2, OneEnd, NothingSent DEF Idle
<1>9. QED
  BY <1>2, <1>3, <1>4, <1>5, <1>6, <1>7, <1>8 DEF Step

LEMMA OthersSendNothing ==
    ASSUME TypeOK, Own, Notified,
           \/ \E p \in People, m \in Messages :
                \/ \E to \in {"delivered", "read"} : Ack(p, m, to)
                \/ Hear(p, m)
           \/ \E id \in Messages : Notify(id) \/ LoseNote(id)
           \/ UNCHANGED vars
    PROVE  Notified'
<1>1. UNCHANGED <<call, told>>
  BY DEF Ack, Hear, Notify, LoseNote, Device, vars
<1>2. ASSUME NEW p \in People, NEW n \in Messages, NEW to \in {"delivered", "read"}, Acks(p, n, to),
             NEW m \in Messages, Stored(m)'
      PROVE  Stored(m)
  BY <1>2, AckedTyped DEF Acks, TypeOK, Stored
<1>3. \/ UNCHANGED msg
      \/ \E p \in People, n \in Messages, to \in {"delivered", "read"} : Acks(p, n, to)
  <2>1. ASSUME NEW p \in People, NEW m \in Messages, NEW to \in {"delivered", "read"}, Ack(p, m, to)
        PROVE  Acks(p, m, to)
    BY <2>1 DEF Ack
  <2>2. ASSUME NEW p \in People, NEW m \in Messages, Hear(p, m)
        PROVE  UNCHANGED msg \/ \E to \in {"delivered", "read"} : Acks(p, m, to)
    <3>1. \/ \E to \in {"delivered", "read"} : Acks(p, m, to)
          \/ UNCHANGED <<msg, notes>>
      BY <2>2, Zenon DEF Hear
    <3>2. QED
      BY <3>1, Zenon
  <2>3. ASSUME \/ \E id \in Messages : Notify(id) \/ LoseNote(id)
               \/ UNCHANGED vars
        PROVE  UNCHANGED msg
    BY <2>3 DEF Notify, LoseNote, vars
  <2>4. CASE \E p \in People, m \in Messages :
               \/ \E to \in {"delivered", "read"} : Ack(p, m, to)
               \/ Hear(p, m)
    <3>1. PICK p \in People, m \in Messages :
               \/ \E to \in {"delivered", "read"} : Ack(p, m, to)
               \/ Hear(p, m)
      BY <2>4, Zenon
    <3>2. UNCHANGED msg \/ \E to \in {"delivered", "read"} : Acks(p, m, to)
      BY <2>1, <2>2, <3>1, Zenon
    <3>3. QED
      BY <3>2
  <2>5. QED
    BY <2>3, <2>4, Zenon
<1>4. \A m \in Messages : Stored(m)' => Stored(m)
  BY <1>2, <1>3 DEF Stored
<1>5. QED
  BY <1>1, <1>4, NothingSent

(* PushedOnce: unless a message is sent again while it is still being sent *)
(* (the gap "overlap"), its members are notified of its row once           *)
(* (handleMessagesCreate).                                                 *)
THEOREM NotifiedOnce == "overlap" \notin Gaps => (Spec => []PushedOnce)
<1> SUFFICES ASSUME "overlap" \notin Gaps PROVE Spec => []PushedOnce
  OBVIOUS
<1>1. Init => Notified
  BY DEF Init, Notified, OneSender, NewIsNew, PushedOnce, Sends, Idle
<1>2. TypeOK /\ Own /\ Notified /\ [Next]_vars => Notified'
  BY RoomSendsNothing, SendNotifiesOnce, OthersSendNothing DEF Next
<1>3. Notified => PushedOnce
  BY DEF Notified
<1>4. QED
  BY <1>1, <1>2, <1>3, ConversationTypes, PTL DEF Spec

-----------------------------------------------------------------------------
(* Private rooms.                                                          *)

(* A request on the room stands on what it read of it, as long as requests *)
(* come one at a time.                                                     *)
Stands ==
    \A h \in RoomHandlers : Exists /\ room.private =>
        /\ call[h].do = "write" =>
             /\ call[h].to.private /\ call[h].to.creator = room.creator
             /\ Manages(call[h].by, room)
        /\ call[h].do = "update" =>
             call[h].members = room.members \/ Manages(call[h].by, room)

(* What PrivateByManagers says of a step.                                  *)
ManagersChange ==
    Exists /\ Exists' /\ room.private =>
         /\ room'.private /\ room'.creator = room.creator
         /\ room' # room => \E h \in RoomHandlers :
                              call[h] # Idle /\ call'[h] = Idle /\ Manages(call[h].by, room)

LEMMA RoomByManagers ==
    ASSUME \A g, h \in RoomHandlers : g = h, TypeOK, Stands, NEW h \in RoomHandlers, RoomStep(h)
    PROVE  Stands' /\ ManagersChange
<1> USE DEF TypeOK, H
<1>1. h \in H /\ \A g \in RoomHandlers : g = h
  OBVIOUS
<1>2. ASSUME NEW p \in People, NEW members \in Rosters, NEW private \in BOOLEAN,
             Create(h, p, members, private)
      PROVE  Stands' /\ ManagersChange
  <2>1. UNCHANGED room /\ call'[h].do = "write" /\ call'[h].by = p
    BY <1>1, <1>2 DEF Create, Goes
  <2>2. Exists => call'[h].to.private = room.private /\ call'[h].to.creator = room.creator
    BY <1>1, <1>2 DEF Create, Goes
  <2>3. Exists /\ room.private => Manages(p, room)
    BY <1>2 DEF Create, MayCreate
  <2>4. QED
    BY <1>1, <2>1, <2>2, <2>3 DEF Stands, ManagersChange, Exists, Manages, MayUse
<1>3. ASSUME NEW p \in People, NEW members \in Rosters, Update(h, p, members)
      PROVE  Stands' /\ ManagersChange
  <2>1. /\ UNCHANGED room /\ call'[h].do = "update" /\ call'[h].by = p
        /\ call'[h].members = MembersAfter(p, members)
    BY <1>1, <1>3 DEF Update, Goes
  <2>2. room.private => MembersAfter(p, members) = room.members \/ Manages(p, room)
    BY DEF MembersAfter
  <2>3. QED
    BY <1>1, <2>1, <2>2 DEF Stands, ManagersChange, Exists, Manages, MayUse
<1>4. ASSUME NEW p \in People, Delete(h, p) PROVE Stands' /\ ManagersChange
  <2>1. UNCHANGED room /\ call'[h].do = "delete"
    BY <1>1, <1>4 DEF Delete, Goes
  <2>2. QED
    BY <1>1, <2>1 DEF Stands, ManagersChange, Exists
<1>5. CASE WriteRoom(h) \/ UpdateRoom(h) \/ DeleteRoom(h)
  <2>1. call[h] # Idle /\ call'[h] = Idle
    BY <1>1, <1>5, OneEnd DEF WriteRoom, UpdateRoom, DeleteRoom, Idle
  <2>2. Stands'
    BY <1>1, <2>1 DEF Stands, Idle
  <2>3. CASE WriteRoom(h)
    <3>1. room' = call[h].to /\ call[h].do = "write"
      BY <2>3 DEF WriteRoom
    <3>2. Exists /\ room.private =>
            /\ call[h].to.private /\ call[h].to.creator = room.creator
            /\ Manages(call[h].by, room)
      BY <3>1 DEF Stands
    <3>3. QED
      BY <2>1, <2>2, <3>1, <3>2 DEF ManagersChange
  <2>4. CASE UpdateRoom(h)
    <3>1. room \in Rooms
      BY RoomIsRoom
    <3>2. room' = room \/ (Exists /\ room' = [room EXCEPT !.members = call[h].members])
      BY <2>4 DEF UpdateRoom
    <3>3. room'.private = room.private /\ room'.creator = room.creator
      BY <3>1, <3>2 DEF Rooms
    <3>4. Exists /\ room.private /\ room' # room => Manages(call[h].by, room)
      BY <2>4, <3>1, <3>2 DEF UpdateRoom, Stands, Rooms
    <3>5. QED
      BY <2>1, <2>2, <3>3, <3>4 DEF ManagersChange
  <2>5. CASE DeleteRoom(h)
    BY <2>2, <2>5 DEF DeleteRoom, ManagersChange, Exists, NoRoom
  <2>6. QED
    BY <1>5, <2>2, <2>3, <2>4, <2>5
<1>6. QED
  BY <1>2, <1>3, <1>4, <1>5 DEF RoomStep

LEMMA RoomUntouched ==
    ASSUME Stands, UNCHANGED room,
           \A g \in RoomHandlers : call'[g] = call[g] \/ call'[g].do \notin {"write", "update"}
    PROVE  Stands' /\ ManagersChange
BY DEF Stands, ManagersChange, Exists, Manages, MayUse

LEMMA SendLeavesRoom ==
    ASSUME TypeOK, Stands, NEW h \in Handlers, Step(h)
    PROVE  Stands' /\ ManagersChange
<1> USE DEF TypeOK, H
<1>1. h \in H /\ UNCHANGED room
  BY DEF Step, Post, Look, Store, Push, Answer, Lose, React, Reacted, Device
<1>2. \A g \in H : call'[g] = call[g] \/ call'[g].do \notin {"write", "update"}
  <2>1. CASE Look(h) \/ Store(h) \/ Push(h)
    <3>1. call[h] \in SendCalls
      BY <1>1, <2>1, Places DEF Look, Store, Push
    <3>2. \E d \in {"store", "push", "answer"}, new \in BOOLEAN :
            Goes(h, [call[h] EXCEPT !.do = d, !.new = new])
      <4>1. CASE Look(h)
        BY <4>1 DEF Look
      <4>2. CASE Store(h) \/ Push(h)
        <5>1. call[h].new \in BOOLEAN /\ call[h] = [call[h] EXCEPT !.new = call[h].new]
          BY <3>1 DEF SendCalls
        <5>2. \A d \in {"push", "answer"} :
                [call[h] EXCEPT !.do = d] = [call[h] EXCEPT !.do = d, !.new = call[h].new]
          BY <3>1, <5>1 DEF SendCalls
        <5>3. QED
          BY <4>2, <5>1, <5>2 DEF Store, Push
      <4>3. QED
        BY <2>1, <4>1, <4>2
    <3>3. PICK d \in {"store", "push", "answer"}, new \in BOOLEAN :
            Goes(h, [call[h] EXCEPT !.do = d, !.new = new])
      BY <3>2
    <3>4. [call[h] EXCEPT !.do = d, !.new = new].do = d
      BY <3>1 DEF SendCalls
    <3>5. QED
      BY <1>1, <3>3, <3>4 DEF Goes
  <2>2. CASE Answer(h) \/ Lose(h) \/ Reacted(h)
    BY <1>1, <2>2, OneEnd DEF Answer, Lose, Reacted, Idle
  <2>3. ASSUME NEW m \in Messages, NEW lost \in BOOLEAN, Post(h, m, lost)
        PROVE  \A g \in H : call'[g] = call[g] \/ call'[g].do \notin {"write", "update"}
    BY <1>1, <2>3 DEF Post, Goes
  <2>4. ASSUME NEW p \in People, NEW m \in Messages, NEW e \in Emoji \cup {Nobody}, React(h, p, m, e)
        PROVE  \A g \in H : call'[g] = call[g] \/ call'[g].do \notin {"write", "update"}
    BY <1>1, <2>4 DEF React, Goes
  <2>5. QED
    BY <2>1, <2>2, <2>3, <2>4 DEF Step
<1>3. QED
  BY <1>1, <1>2, RoomUntouched

(* PrivateByManagers: while requests on a room come one at a time, only    *)
(* its managers change who is in a private room, and nobody makes it       *)
(* public or their own (privateRoomProblem, handleConversationsUpdate).    *)
THEOREM ManagersOnly ==
    (\A g, h \in RoomHandlers : g = h) => (Spec => PrivateByManagers)
<1> SUFFICES ASSUME \A g, h \in RoomHandlers : g = h PROVE Spec => PrivateByManagers
  OBVIOUS
<1>1. Init => Stands
  BY DEF Init, Stands, Exists, NoRoom
<1>2. TypeOK /\ Stands /\ [Next]_vars => Stands' /\ ManagersChange
  <2>1. ASSUME Stands, UNCHANGED <<room, call>> PROVE Stands' /\ ManagersChange
    BY <2>1, RoomUntouched
  <2>2. ASSUME TypeOK, Stands, [Next]_vars PROVE Stands' /\ ManagersChange
    BY <2>1, <2>2, RoomByManagers, SendLeavesRoom
       DEF Next, Ack, Hear, Notify, LoseNote, Device, vars
  <2>3. QED
    BY <2>2
<1>3. TypeOK /\ Stands /\ [Next]_vars =>
        [Exists /\ Exists' /\ room.private =>
         /\ room'.private /\ room'.creator = room.creator
         /\ room' # room => \E h \in RoomHandlers :
                              call[h] # Idle /\ call'[h] = Idle /\ Manages(call[h].by, room)]_vars
  BY <1>2 DEF ManagersChange
<1>4. QED
  BY <1>1, <1>2, <1>3, ConversationTypes, PTL DEF Spec, PrivateByManagers
=============================================================================
