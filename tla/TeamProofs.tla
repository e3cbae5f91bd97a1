------------------------------ MODULE TeamProofs ------------------------------
(***************************************************************************)
(* Proofs about Team: types, that an organization always has an active     *)
(* owner, that a workspace is set up as approved, and that nobody joins    *)
(* beyond the plan. The first two hold with every gap open.                *)
(***************************************************************************)
EXTENDS Team, FiniteSetTheorems, TLAPS

USE ApplicationsAssumption, TeamAssumption

(* What a handler is doing tells which fields its job has.                 *)
LEMMA Kinds ==
    ASSUME NEW j \in Jobs
    PROVE  /\ j.do \in {"claim", "create", "look", "assign", "finish", "fail"} => j \in Approvals
           /\ j.do = "decide" => j \in Decisions
           /\ j.do = "invite" => j \in InviteJobs
           /\ j.do = "join" => j \in JoinJobs
           /\ j.do = "add" => j \in AddJobs
           /\ j.do = "update" => j \in UpdateJobs
           /\ j.do \in {"role", "remove"} => j \in StaffJobs
BY DEF Jobs, Idle, Approvals, Decisions, TeamJobs, InviteJobs, JoinJobs, AddJobs, UpdateJobs, StaffJobs

(* The shape of what jobs are assigned.                                    *)
LEMMA OneJob ==
    ASSUME job \in [Handlers -> Jobs], NEW h \in Handlers, NEW j \in Jobs, Goes(h, j)
    PROVE  /\ job' \in [Handlers -> Jobs]
           /\ job'[h] = j
           /\ \A g \in Handlers : g # h => job'[g] = job[g]
BY DEF Goes

LEMMA OneEnd ==
    ASSUME job \in [Handlers -> Jobs], NEW h \in Handlers, Ends(h)
    PROVE  /\ job' \in [Handlers -> Jobs]
           /\ job'[h] = Idle
           /\ \A g \in Handlers : g # h => job'[g] = job[g]
<1>1. Idle \in Jobs
  BY DEF Jobs
<1>2. QED
  BY <1>1, OneJob DEF Ends

LEMMA OneProceeds ==
    ASSUME job \in [Handlers -> Jobs], NEW h \in Handlers,
           NEW do \in {"claim", "create", "look", "assign", "finish", "fail"},
           job[h] \in Approvals, Proceeds(h, do)
    PROVE  /\ job' \in [Handlers -> Jobs]
           /\ job'[h] \in Approvals /\ job'[h].do = do /\ job'[h].plan = job[h].plan
           /\ \A g \in Handlers : g # h => job'[g] = job[g]
<1>1. [job[h] EXCEPT !.do = do] \in Approvals
  BY DEF Approvals
<1>2. [job[h] EXCEPT !.do = do] \in Jobs
  BY <1>1 DEF Jobs
<1>3. QED
  BY <1>1, <1>2, OneJob DEF Proceeds, Approvals

-----------------------------------------------------------------------------
(* Types.                                                                  *)

LEMMA InsertedTyped ==
    ASSUME TypeOK, NEW p \in People, NEW role \in Roles, NEW limit \in Nat
    PROVE  Inserted(p, role, limit) \in [People -> Rows \cup {NoRow}]
BY DEF TypeOK, ApplicationTypeOK, Inserted, Rows

LEMMA UpdatedTyped ==
    ASSUME TypeOK, NEW p \in People, NEW row \in Rows
    PROVE  Updated(p, row) \in [People -> Rows \cup {NoRow}]
BY DEF TypeOK, ApplicationTypeOK, Updated

LEMMA LimitTyped == TypeOK => Limit \in Nat
BY DEF TypeOK, ApplicationTypeOK, Limit

LEMMA FaultTyped == ASSUME TypeOK, Fault PROVE faults' \in 0..MaxFaults
BY DEF TypeOK, ApplicationTypeOK, Fault

LEMMA CallsTyped == ASSUME TypeOK, Calls PROVE calls' \in 0..MaxCalls
BY DEF TypeOK, Calls

LEMMA ApplicationTyped ==
    ASSUME TypeOK, ApplicationNext, UNCHANGED <<invite, calls>>
    PROVE  TypeOK'
<1> USE DEF TypeOK, ApplicationTypeOK
<1>1. CASE Submit \/ RequestInformation
  BY <1>1 DEF Submit, RequestInformation, Workspace, Reviews, Undecided, UnderReview
<1>2. SUFFICES ASSUME NEW h \in Handlers,
                      \/ \E as \in {"rejected", "withdrawn"} : StartDecide(h, as)
                      \/ Decide(h) \/ \E v \in Plans : StartApprove(h, v)
                      \/ Claim(h) \/ Create(h) \/ Look(h) \/ Assign(h) \/ Fails(h)
                      \/ RecordFailure(h) \/ Finish(h) \/ Die(h)
               PROVE  TypeOK'
  BY <1>1 DEF ApplicationNext
<1>3. ASSUME NEW as \in {"rejected", "withdrawn"}, StartDecide(h, as) PROVE TypeOK'
  <2>1. [do |-> "decide", as |-> as] \in Jobs
    BY DEF Jobs, Decisions
  <2>2. QED
    BY <1>3, <2>1, OneJob DEF StartDecide, Workspace
<1>4. CASE Decide(h)
  <2>1. job[h].as \in {"rejected", "withdrawn"}
    BY <1>4, Kinds DEF Decide, Decisions
  <2>2. QED
    BY <1>4, <2>1, OneEnd DEF Decide, Workspace, Reviews
<1>5. ASSUME NEW v \in Plans, StartApprove(h, v) PROVE TypeOK'
  <2>1. [do |-> IF review = "approved" THEN "create" ELSE "claim", plan |-> v] \in Jobs
    BY DEF Jobs, Approvals
  <2>2. QED
    BY <1>5, <2>1, OneJob DEF StartApprove, Workspace
<1>6. CASE Claim(h)
  <2>1. job[h] \in Approvals
    BY <1>6, Kinds DEF Claim
  <2>2. QED
    BY <1>6, <2>1, OneProceeds DEF Claim, Workspace, Reviews
<1>7. CASE Create(h)
  <2>1. job[h] \in Approvals
    BY <1>7, Kinds DEF Create
  <2>2. Owner \in Rows
    BY DEF Owner, Rows, Roles
  <2>3. QED
    BY <1>7, <2>1, <2>2, OneProceeds DEF Create
<1>8. CASE Look(h)
  <2>1. job[h] \in Approvals
    BY <1>8, Kinds DEF Look
  <2>2. QED
    BY <1>8, <2>1, OneProceeds DEF Look, Workspace
<1>9. CASE Assign(h)
  <2>1. job[h] \in Approvals /\ job[h].plan \in Plans
    BY <1>9, Kinds DEF Assign, Approvals
  <2>2. QED
    BY <1>9, <2>1, OneProceeds DEF Assign
<1>10. CASE Fails(h)
  <2>1. job[h] \in Approvals
    BY <1>10, Kinds DEF Fails
  <2>2. QED
    BY <1>10, <2>1, OneProceeds, FaultTyped DEF Fails, Workspace, AfterFailure
<1>11. CASE RecordFailure(h) \/ Finish(h)
  BY <1>11, OneEnd DEF RecordFailure, Finish, Workspace
<1>12. CASE Die(h)
  BY <1>12, OneEnd, FaultTyped DEF Die, Workspace
<1>13. QED
  BY <1>2, <1>3, <1>4, <1>5, <1>6, <1>7, <1>8, <1>9, <1>10, <1>11, <1>12

(* Whoever joins does it by an invitation that was sent.                   *)
BySent == \A h \in Handlers : job[h].do = "join" => invite[job[h].i] # Unsent

LEMMA MarkTyped ==
    ASSUME TypeOK, NEW i \in Invites, invite[i] \in Invitations, NEW s \in {"revoked", "accepted"}
    PROVE  /\ Marked(i, s) \in [Invites -> Invitations \cup {Unsent}]
           /\ \A k \in Invites : invite[k] # Unsent => Marked(i, s)[k] # Unsent
<1>1. [invite[i] EXCEPT !.status = s] \in Invitations
  BY DEF Invitations
<1>2. [invite[i] EXCEPT !.status = s] # Unsent
  BY DEF Invitations, Unsent
<1>3. QED
  BY <1>1, <1>2 DEF TypeOK, Marked

LEMMA LateTyped ==
    ASSUME TypeOK, NEW i \in Invites, Expire(i)
    PROVE  /\ invite' \in [Invites -> Invitations \cup {Unsent}]
           /\ \A k \in Invites : invite[k] # Unsent => invite'[k] # Unsent
<1>1. invite[i] \in Invitations
  BY DEF TypeOK, Expire, Pending
<1>2. [invite[i] EXCEPT !.late = TRUE] \in Invitations
  BY <1>1 DEF Invitations
<1>3. [invite[i] EXCEPT !.late = TRUE] # Unsent
  BY <1>1 DEF Invitations, Unsent
<1>4. invite' = [invite EXCEPT ![i] = [invite[i] EXCEPT !.late = TRUE]]
  BY DEF Expire
<1>5. QED
  BY <1>2, <1>3, <1>4 DEF TypeOK

LEMMA RevokedTyped ==
    ASSUME TypeOK, NEW p \in People
    PROVE  Revoked(p) \in [Invites -> Invitations \cup {Unsent}]
<1>1. ASSUME NEW i \in Invites, invite[i].to = p
      PROVE  [invite[i] EXCEPT !.status = "revoked"] \in Invitations
  <2>1. p # None
    OBVIOUS
  <2>2. invite[i] \in Invitations
    BY <1>1, <2>1 DEF TypeOK, Unsent
  <2>3. QED
    BY <2>2 DEF Invitations
<1>2. QED
  BY <1>1 DEF TypeOK, Revoked

LEMMA TeamTyped ==
    ASSUME TypeOK, BySent, TeamNext
    PROVE  TypeOK' /\ BySent'
<1> USE DEF TypeOK, ApplicationTypeOK, BySent
<1>1. ASSUME NEW i \in Invites, Revoke(i) \/ Expire(i) PROVE TypeOK' /\ BySent'
  <2>1. invite[i] \in Invitations
    BY <1>1 DEF Revoke, Expire, Pending
  <2>2. /\ invite' \in [Invites -> Invitations \cup {Unsent}]
        /\ \A k \in Invites : invite[k] # Unsent => invite'[k] # Unsent
    BY <1>1, <2>1, MarkTyped, LateTyped DEF Revoke
  <2>3. calls' \in 0..MaxCalls
    BY <1>1, CallsTyped DEF Revoke, Expire
  <2>4. \A h \in Handlers : job[h].do = "join" => job[h].i \in Invites
    BY Kinds DEF JoinJobs
  <2>5. UNCHANGED <<Application, Workspace, job, faults>>
    BY <1>1 DEF Revoke, Expire
  <2>6. QED
    BY <2>2, <2>3, <2>4, <2>5 DEF Application, Workspace
<1>2. ASSUME NEW s \in {"active", "suspended"}, SetStatus(s) PROVE TypeOK' /\ BySent'
  BY <1>2, CallsTyped DEF SetStatus, Application
<1>3. ASSUME NEW v \in Plans, ChangePlan(v) PROVE TypeOK' /\ BySent'
  BY <1>3, CallsTyped DEF ChangePlan, Application
<1>4. ASSUME NEW h \in Handlers, NEW i \in Invites, NEW p \in People,
             NEW role \in {"admin", "staff"}, StartInvite(h, i, p, role)
      PROVE  TypeOK' /\ BySent'
  <2>1. [do |-> "invite", i |-> i, who |-> p, role |-> role] \in Jobs
    BY DEF Jobs, TeamJobs, InviteJobs
  <2>2. QED
    BY <1>4, <2>1, OneJob, CallsTyped DEF StartInvite, Application, Workspace
<1>5. ASSUME NEW h \in Handlers, NEW i \in Invites, StartJoin(h, i)
      PROVE  TypeOK' /\ BySent'
  <2> DEFINE j == [do |-> "join", i |-> i, who |-> invite[i].to,
                   known |-> Stored(invite[i].to), row |-> Stored(invite[i].to),
                   full |-> Full, limit |-> Limit]
  <2>1. invite[i] \in Invitations
    BY <1>5 DEF StartJoin, Pending
  <2>2. invite[i].to \in People
    BY <2>1 DEF Invitations
  <2>3. Stored(invite[i].to) \in BOOLEAN /\ Full \in BOOLEAN
    BY DEF Stored, Full
  <2>4. j \in JoinJobs
    BY <2>2, <2>3, LimitTyped DEF JoinJobs
  <2>5. j \in Jobs
    BY <2>4 DEF Jobs, TeamJobs
  <2>6. Goes(h, j)
    BY <1>5 DEF StartJoin
  <2>7. calls' \in 0..MaxCalls /\ UNCHANGED <<Application, Workspace, faults, invite>>
    BY <1>5, CallsTyped DEF StartJoin
  <2>8. j.i = i /\ invite[i] # Unsent
    BY <1>5 DEF StartJoin, Pending
  <2> HIDE DEF j
  <2>9. QED
    BY <2>5, <2>6, <2>7, <2>8, OneJob DEF Application, Workspace
<1>6. ASSUME NEW h \in Handlers, Invite(h) PROVE TypeOK' /\ BySent'
  <2>1. job[h].i \in Invites /\ job[h].who \in People /\ job[h].role \in {"admin", "staff"}
    BY <1>6, Kinds DEF Invite, InviteJobs
  <2> DEFINE new == [to |-> job[h].who, role |-> job[h].role, status |-> "pending", late |-> FALSE]
  <2>2. new \in Invitations
    BY <2>1 DEF Invitations
  <2>3. new # Unsent
    BY <2>1 DEF Unsent
  <2>4. invite' = [Revoked(job[h].who) EXCEPT ![job[h].i] = new]
    BY <1>6 DEF Invite
  <2> HIDE DEF new
  <2>5. invite' \in [Invites -> Invitations \cup {Unsent}]
    BY <2>1, <2>2, <2>4, RevokedTyped
  <2>6. ASSUME NEW k \in Invites, invite[k] # Unsent PROVE invite'[k] # Unsent
    <3>1. CASE k = job[h].i
      BY <2>1, <2>3, <2>4, <3>1, RevokedTyped
    <3>2. CASE k # job[h].i
      <4>1. invite'[k] = Revoked(job[h].who)[k]
        BY <2>1, <2>4, <3>2, RevokedTyped
      <4>2. invite'[k].to = invite[k].to
        BY <4>1, <2>6 DEF Revoked
      <4>3. invite[k] \in Invitations
        BY <2>6
      <4>4. QED
        BY <4>2, <4>3 DEF Invitations, Unsent
    <3>3. QED
      BY <3>1, <3>2
  <2>7. UNCHANGED <<Application, Workspace, faults, calls>> /\ Ends(h)
    BY <1>6 DEF Invite
  <2>8. \A g \in Handlers : job[g].do = "join" => job[g].i \in Invites
    BY Kinds DEF JoinJobs
  <2>9. QED
    BY <2>5, <2>6, <2>7, <2>8, OneEnd DEF Application, Workspace, Idle
<1>7. ASSUME NEW h \in Handlers, Join(h) PROVE TypeOK' /\ BySent'
  <2>1. job[h] \in JoinJobs
    BY <1>7, Kinds DEF Join
  <2> DEFINE j == job[h]
  <2>2. j.i \in Invites /\ j.who \in People /\ j.limit \in Nat /\ invite[j.i] \in Invitations
    BY <1>7, <2>1 DEF Join, JoinJobs
  <2>3. invite[j.i].role \in {"admin", "staff"}
    BY <2>2 DEF Invitations
  <2>4. Inserted(j.who, invite[j.i].role, j.limit) \in [People -> Rows \cup {NoRow}]
    BY <2>2, <2>3, InsertedTyped DEF Roles
  <2>5. Rejoined(j, invite[j.i].role) \in [People -> Rows \cup {NoRow}]
    BY <2>2, <2>3 DEF Rejoined, Rows, Roles
  <2>6. member' \in [People -> Rows \cup {NoRow}]
    BY <1>7, <2>4, <2>5 DEF Join
  <2>7. invite' = invite \/ invite' = Marked(j.i, "accepted")
    BY <1>7 DEF Join
  <2>8. invite' \in [Invites -> Invitations \cup {Unsent}]
    BY <2>2, <2>7, MarkTyped
  <2>9. \A k \in Invites : invite[k] # Unsent => invite'[k] # Unsent
    BY <2>2, <2>7, MarkTyped
  <2>10. UNCHANGED <<Application, org, plan, faults, calls>> /\ Ends(h)
    BY <1>7 DEF Join
  <2>11. \A g \in Handlers : job[g].do = "join" => job[g].i \in Invites
    BY Kinds DEF JoinJobs
  <2> HIDE DEF j
  <2>12. QED
    BY <2>6, <2>8, <2>9, <2>10, <2>11, OneEnd DEF Application, Idle
<1>8. ASSUME NEW h \in Handlers, NEW p \in People, NEW role \in Roles, StartAdd(h, p, role)
      PROVE  TypeOK' /\ BySent'
  <2>1. [do |-> "add", who |-> p, role |-> role, limit |-> Limit] \in Jobs
    BY LimitTyped DEF Jobs, TeamJobs, AddJobs
  <2>2. QED
    BY <1>8, <2>1, OneJob, CallsTyped DEF StartAdd, Application, Workspace
<1>9. ASSUME NEW h \in Handlers, NEW p \in People, NEW role \in Roles, StartChangeRole(h, p, role)
      PROVE  TypeOK' /\ BySent'
  <2>1. [do |-> "role", who |-> p, row |-> TRUE, role |-> role] \in Jobs
    BY DEF Jobs, TeamJobs, StaffJobs
  <2>2. QED
    BY <1>9, <2>1, OneJob, CallsTyped DEF StartChangeRole, Application, Workspace
<1>10. ASSUME NEW h \in Handlers, Add(h) PROVE TypeOK' /\ BySent'
  <2>1. job[h].who \in People /\ job[h].role \in Roles /\ job[h].limit \in Nat
    BY <1>10, Kinds DEF Add, AddJobs
  <2>2. member' \in [People -> Rows \cup {NoRow}]
    BY <1>10, <2>1, InsertedTyped DEF Add
  <2>3. QED
    BY <1>10, <2>2, OneEnd DEF Add, Application, Idle
<1>11. ASSUME NEW h \in Handlers, NEW p \in People, NEW row \in Rows, StartUpdate(h, p, row)
      PROVE  TypeOK' /\ BySent'
  <2>1. [do |-> "update", who |-> p, row |-> TRUE, want |-> row] \in Jobs
    BY DEF Jobs, TeamJobs, UpdateJobs
  <2>2. QED
    BY <1>11, <2>1, OneJob, CallsTyped DEF StartUpdate, Application, Workspace
<1>12. ASSUME NEW h \in Handlers, Update(h) PROVE TypeOK' /\ BySent'
  <2>1. job[h].who \in People /\ job[h].want \in Rows
    BY <1>12, Kinds DEF Update, UpdateJobs
  <2>2. member' \in [People -> Rows \cup {NoRow}]
    BY <1>12, <2>1, UpdatedTyped DEF Update
  <2>3. QED
    BY <1>12, <2>2, OneEnd DEF Update, Application, Idle
<1>13. ASSUME NEW h \in Handlers, ChangeRole(h) PROVE TypeOK' /\ BySent'
  <2>1. job[h].who \in People /\ job[h].role \in Roles
    BY <1>13, Kinds DEF ChangeRole, StaffJobs
  <2>2. [member[job[h].who] EXCEPT !.role = job[h].role] \in Rows
    BY <2>1 DEF Rows, NoRow
  <2>3. member' \in [People -> Rows \cup {NoRow}]
    BY <1>13, <2>1, <2>2, UpdatedTyped DEF ChangeRole
  <2>4. QED
    BY <1>13, <2>3, OneEnd DEF ChangeRole, Application, Idle
<1>14. ASSUME NEW h \in Handlers, NEW p \in People, StartRemove(h, p)
      PROVE  TypeOK' /\ BySent'
  <2>1. member[p].role \in Roles
    BY <1>14 DEF StartRemove, Stored, Rows, NoRow
  <2>2. [do |-> "remove", who |-> p, row |-> TRUE, role |-> member[p].role] \in Jobs
    BY <2>1 DEF Jobs, TeamJobs, StaffJobs
  <2>3. QED
    BY <1>14, <2>2, OneJob, CallsTyped DEF StartRemove, Application, Workspace
<1>15. ASSUME NEW h \in Handlers, Remove(h) PROVE TypeOK' /\ BySent'
  <2>1. UNCHANGED <<Application, org, plan, faults, invite, calls>>
    BY <1>15 DEF Remove
  <2>2. CASE Ends(h) /\ UNCHANGED member
    BY <2>1, <2>2, OneEnd DEF Application, Idle
  <2>3. CASE ~(Ends(h) /\ UNCHANGED member)
    <3> DEFINE Gone(g) == [job[g] EXCEPT !.row = FALSE]
    <3>1. /\ member' = [member EXCEPT ![job[h].who] = NoRow]
          /\ job' = [g \in Handlers |->
               IF g = h THEN Idle
               ELSE IF job[g].do \in {"join", "update", "role", "remove"} /\ job[g].who = job[h].who
               THEN Gone(g) ELSE job[g]]
      BY <1>15, <2>3 DEF Remove
    <3>2. ASSUME NEW g \in Handlers, job[g].do \in {"join", "update", "role", "remove"}
          PROVE  Gone(g) \in Jobs /\ Gone(g).do = job[g].do /\ (job[g].do = "join" => Gone(g).i = job[g].i)
      <4>1. job[g] \in JoinJobs \cup UpdateJobs \cup StaffJobs
        BY <3>2, Kinds
      <4>2. Gone(g) \in JoinJobs \cup UpdateJobs \cup StaffJobs
        BY <4>1 DEF JoinJobs, UpdateJobs, StaffJobs
      <4>3. QED
        BY <4>1, <4>2 DEF Jobs, TeamJobs, JoinJobs, UpdateJobs, StaffJobs
    <3> HIDE DEF Gone
    <3>3. job' \in [Handlers -> Jobs]
      BY <3>1, <3>2 DEF Jobs
    <3>4. \A g \in Handlers : job'[g].do = "join" => job[g].do = "join" /\ job'[g].i = job[g].i
      BY <3>1, <3>2 DEF Idle
    <3>5. member' \in [People -> Rows \cup {NoRow}]
      BY <3>1
    <3>6. QED
      BY <2>1, <3>3, <3>4, <3>5 DEF Application
  <2>4. QED
    BY <2>2, <2>3
<1>16. QED
  BY <1>1, <1>2, <1>3, <1>4, <1>5, <1>6, <1>7, <1>8, <1>9, <1>10, <1>11, <1>12, <1>13, <1>14, <1>15
     DEF TeamNext, Roles

LEMMA InitTyped == Init => TypeOK /\ BySent
<1> SUFFICES ASSUME Init PROVE TypeOK /\ BySent
  OBVIOUS
<1>1. Idle \in Jobs
  BY DEF Jobs
<1>2. job \in [Handlers -> Jobs] /\ \A h \in Handlers : job[h] = Idle
  BY <1>1 DEF Init, ApplicationInit
<1>3. QED
  BY <1>2 DEF Init, ApplicationInit, TypeOK, ApplicationTypeOK, BySent, Reviews, Undecided, Idle

(* The kinds of jobs of the team; an application's handler never takes one. *)
TeamKinds == {"invite", "join", "add", "update", "role", "remove"}

LEMMA OwnJobs ==
    ASSUME TypeOK, ApplicationNext, NEW g \in Handlers
    PROVE  job'[g] = job[g] \/ job'[g].do \notin TeamKinds
<1> USE DEF TypeOK, TeamKinds
<1>1. CASE Submit \/ RequestInformation
  BY <1>1 DEF Submit, RequestInformation
<1>2. ASSUME NEW h \in Handlers,
             \/ \E as \in {"rejected", "withdrawn"} : StartDecide(h, as)
             \/ \E v \in Plans : StartApprove(h, v)
      PROVE  job'[g] = job[g] \/ job'[g].do \notin TeamKinds
  BY <1>2 DEF StartDecide, StartApprove, Goes
<1>3. ASSUME NEW h \in Handlers, Claim(h) \/ Create(h) \/ Look(h) \/ Assign(h) \/ Fails(h)
      PROVE  job'[g] = job[g] \/ job'[g].do \notin TeamKinds
  <2>1. job[h] \in Approvals
    BY <1>3, Kinds DEF Claim, Create, Look, Assign, Fails
  <2>2. QED
    BY <1>3, <2>1, OneProceeds DEF Claim, Create, Look, Assign, Fails, AfterFailure
<1>4. ASSUME NEW h \in Handlers, Decide(h) \/ RecordFailure(h) \/ Finish(h) \/ Die(h)
      PROVE  job'[g] = job[g] \/ job'[g].do \notin TeamKinds
  BY <1>4, OneEnd DEF Decide, RecordFailure, Finish, Die, Idle
<1>5. QED
  BY <1>1, <1>2, <1>3, <1>4 DEF ApplicationNext

LEMMA SentKept ==
    ASSUME TypeOK, BySent, ApplicationNext, UNCHANGED <<invite, calls>>
    PROVE  BySent'
BY OwnJobs DEF BySent, TeamKinds

(* Every variable keeps its type, and a join stands on an invitation that  *)
(* was sent, whatever two requests do at once.                             *)
THEOREM TeamTypes == Spec => [](TypeOK /\ BySent)
<1>1. ASSUME TypeOK, BySent, [Next]_vars PROVE TypeOK' /\ BySent'
  <2>1. CASE UNCHANGED vars
    BY <1>1, <2>1 DEF vars, appVars, TypeOK, ApplicationTypeOK, BySent
  <2>2. CASE Next
    BY <1>1, <2>2, ApplicationTyped, SentKept, TeamTyped DEF Next
  <2>3. QED
    BY <1>1, <2>1, <2>2
<1>2. QED
  BY <1>1, InitTyped, PTL DEF Spec

-----------------------------------------------------------------------------
(* An organization has an owner.                                           *)

(* Before there is an organization it has no members, and nobody acts on   *)
(* its team.                                                               *)
Founded ==
    org = "none" =>
        /\ \A p \in People : member[p] = NoRow
        /\ \A h \in Handlers : job[h].do \notin TeamKinds

LEMMA InsertKeeps ==
    ASSUME TypeOK, AlwaysAnOwner, org # "none",
           NEW p \in People, NEW role \in Roles, NEW limit \in Nat
    PROVE  \E q \in People : IsOwner(Inserted(p, role, limit)[q])
BY DEF TypeOK, ApplicationTypeOK, AlwaysAnOwner, Inserted, IsOwner, Owner, Stored

LEMMA UpdateKeeps ==
    ASSUME TypeOK, AlwaysAnOwner, org # "none", NEW p \in People, NEW row \in Rows
    PROVE  \E q \in People : IsOwner(Updated(p, row)[q])
<1>1. PICK o \in People : IsOwner(member[o])
  BY DEF AlwaysAnOwner
<1>2. CASE LastOwner(p) /\ ~IsOwner(row)
  BY <1>1, <1>2 DEF Updated
<1>3. CASE IsOwner(row)
  BY <1>3 DEF Updated, TypeOK, ApplicationTypeOK
<1>4. CASE ~LastOwner(p) /\ ~IsOwner(row)
  <2>1. PICK q \in People \ {p} : IsOwner(member[q])
    BY <1>1, <1>4 DEF LastOwner
  <2>2. Updated(p, row)[q] = member[q]
    BY <1>4, <2>1 DEF Updated, TypeOK, ApplicationTypeOK
  <2>3. QED
    BY <2>1, <2>2
<1>5. QED
  BY <1>2, <1>3, <1>4

LEMMA RejoinKeeps ==
    ASSUME TypeOK, AlwaysAnOwner, org # "none", NEW j \in JoinJobs, NEW role \in Roles
    PROVE  \E q \in People : IsOwner(Rejoined(j, role)[q])
<1>1. PICK o \in People : IsOwner(member[o])
  BY DEF AlwaysAnOwner
<1>2. j.who \in People
  BY DEF JoinJobs
<1>3. IsOwner(Rejoined(j, role)[o])
  BY <1>1, <1>2 DEF Rejoined, TypeOK, ApplicationTypeOK, IsOwner, Owner
<1>4. QED
  BY <1>3

LEMMA TeamKeepsOwner ==
    ASSUME TypeOK, BySent, Founded, AlwaysAnOwner, TeamNext
    PROVE  AlwaysAnOwner'
<1> SUFFICES ASSUME org' # "none" PROVE \E q \in People : IsOwner(member'[q])
  BY DEF AlwaysAnOwner, IsOwner
<1>1. CASE member' = member /\ org # "none"
  BY <1>1 DEF AlwaysAnOwner
<1>2. ASSUME NEW h \in Handlers, Join(h) PROVE \E q \in People : IsOwner(member'[q])
  <2>1. job[h] \in JoinJobs
    BY <1>2, Kinds DEF Join, TypeOK
  <2>2. org # "none"
    BY <1>2 DEF Founded, Join, TeamKinds
  <2>3. invite[job[h].i] \in Invitations
    BY <1>2, <2>1 DEF Join, BySent, TypeOK, JoinJobs
  <2>4. invite[job[h].i].role \in Roles /\ job[h].who \in People /\ job[h].limit \in Nat
    BY <2>1, <2>3 DEF Invitations, Roles, JoinJobs
  <2>5. \/ member' = Rejoined(job[h], invite[job[h].i].role)
        \/ member' = Inserted(job[h].who, invite[job[h].i].role, job[h].limit)
    BY <1>2 DEF Join
  <2>6. QED
    BY <2>1, <2>2, <2>4, <2>5, RejoinKeeps, InsertKeeps
<1>3. ASSUME NEW h \in Handlers, Add(h) PROVE \E q \in People : IsOwner(member'[q])
  <2>1. job[h].who \in People /\ job[h].role \in Roles /\ job[h].limit \in Nat
    BY <1>3, Kinds DEF Add, AddJobs, TypeOK
  <2>2. QED
    BY <1>3, <2>1, InsertKeeps DEF Add, Founded, TeamKinds
<1>4. ASSUME NEW h \in Handlers, Update(h) PROVE \E q \in People : IsOwner(member'[q])
  <2>1. job[h].who \in People /\ job[h].want \in Rows
    BY <1>4, Kinds DEF Update, UpdateJobs, TypeOK
  <2>2. org # "none"
    BY <1>4 DEF Founded, Update, TeamKinds
  <2>3. member' = Updated(job[h].who, job[h].want) \/ member' = member
    BY <1>4 DEF Update
  <2>4. QED
    BY <1>1, <2>1, <2>2, <2>3, UpdateKeeps
<1>5. ASSUME NEW h \in Handlers, ChangeRole(h) PROVE \E q \in People : IsOwner(member'[q])
  <2>1. job[h].who \in People /\ job[h].role \in Roles
    BY <1>5, Kinds DEF ChangeRole, StaffJobs, TypeOK
  <2>2. [member[job[h].who] EXCEPT !.role = job[h].role] \in Rows
    BY <2>1 DEF Rows, NoRow, TypeOK, ApplicationTypeOK
  <2>3. org # "none"
    BY <1>5 DEF Founded, ChangeRole, TeamKinds
  <2>4. \/ member' = Updated(job[h].who, [member[job[h].who] EXCEPT !.role = job[h].role])
        \/ member' = member
    BY <1>5 DEF ChangeRole
  <2>5. QED
    BY <1>1, <2>1, <2>2, <2>3, <2>4, UpdateKeeps
<1>6. ASSUME NEW h \in Handlers, Remove(h) PROVE \E q \in People : IsOwner(member'[q])
  <2>1. org # "none"
    BY <1>6 DEF Founded, Remove, TeamKinds
  <2>2. PICK o \in People : IsOwner(member[o])
    BY <2>1 DEF AlwaysAnOwner
  <2>3. CASE member' = member
    BY <1>1, <2>1, <2>3
  <2>4. CASE ~LastOwner(job[h].who) /\ member' = [member EXCEPT ![job[h].who] = NoRow]
    <3>1. job[h].who \in People
      BY <1>6, Kinds DEF Remove, StaffJobs, TypeOK
    <3>2. PICK q \in People \ {job[h].who} : IsOwner(member[q])
      BY <2>2, <2>4, <3>1 DEF LastOwner
    <3>3. QED
      BY <2>4, <3>2 DEF TypeOK, ApplicationTypeOK
  <2>5. QED
    BY <1>6, <2>3, <2>4 DEF Remove
<1>7. CASE \/ \E i \in Invites : Revoke(i) \/ Expire(i)
           \/ \E s \in {"active", "suspended"} : SetStatus(s)
           \/ \E v \in Plans : ChangePlan(v)
  BY <1>1, <1>7 DEF Revoke, Expire, SetStatus, ChangePlan, Workspace
<1>8. ASSUME NEW h \in Handlers,
             \/ \E i \in Invites :
                  \/ \E p \in People, role \in {"admin", "staff"} : StartInvite(h, i, p, role)
                  \/ StartJoin(h, i)
             \/ Invite(h)
             \/ \E p \in People, role \in Roles : StartAdd(h, p, role) \/ StartChangeRole(h, p, role)
             \/ \E p \in People, row \in Rows : StartUpdate(h, p, row)
             \/ \E p \in People : StartRemove(h, p)
      PROVE  \E q \in People : IsOwner(member'[q])
  BY <1>1, <1>8 DEF StartInvite, StartJoin, Invite, StartAdd, StartChangeRole, StartUpdate, StartRemove, Workspace
<1>9. QED
  BY <1>2, <1>3, <1>4, <1>5, <1>6, <1>7, <1>8 DEF TeamNext

(* An application's step leaves the members alone, or it is Create.        *)
LEMMA ApplicationMembers ==
    ASSUME ApplicationNext
    PROVE  \/ UNCHANGED <<org, member>>
           \/ \E h \in Handlers : Create(h)
<1> USE DEF Workspace
<1>1. CASE Submit \/ RequestInformation
  BY <1>1 DEF Submit, RequestInformation
<1>2. ASSUME NEW h \in Handlers,
             \/ \E as \in {"rejected", "withdrawn"} : StartDecide(h, as)
             \/ \E v \in Plans : StartApprove(h, v)
             \/ Decide(h) \/ Claim(h) \/ Look(h) \/ Assign(h) \/ Fails(h)
             \/ RecordFailure(h) \/ Finish(h) \/ Die(h)
      PROVE  UNCHANGED <<org, member>>
  BY <1>2 DEF StartDecide, StartApprove, Decide, Claim, Look, Assign, Fails, RecordFailure, Finish, Die
<1>3. QED
  BY <1>1, <1>2 DEF ApplicationNext

LEMMA ApplicationKeepsOwner ==
    ASSUME TypeOK, Founded, AlwaysAnOwner, ApplicationNext
    PROVE  AlwaysAnOwner'
<1>1. CASE UNCHANGED <<org, member>>
  BY <1>1 DEF AlwaysAnOwner, IsOwner
<1>2. ASSUME NEW h \in Handlers, Create(h) PROVE AlwaysAnOwner'
  <2>1. CASE org = "none"
    <3>1. ~Stored(Applicant)
      BY <2>1 DEF Founded, Stored, NoRow
    <3>2. IsOwner(member'[Applicant])
      BY <1>2, <3>1 DEF Create, IsOwner, TypeOK, ApplicationTypeOK
    <3>3. QED
      BY <3>2 DEF AlwaysAnOwner, IsOwner
  <2>2. CASE org # "none"
    <3>1. PICK o \in People : IsOwner(member[o])
      BY <2>2 DEF AlwaysAnOwner
    <3>2. Stored(o)
      BY <3>1 DEF Stored, IsOwner, Owner
    <3>3. IsOwner(member'[o])
      BY <1>2, <3>1, <3>2 DEF Create, IsOwner, TypeOK, ApplicationTypeOK
    <3>4. QED
      BY <3>3 DEF AlwaysAnOwner, IsOwner
  <2>3. QED
    BY <2>1, <2>2
<1>3. QED
  BY <1>1, <1>2, ApplicationMembers

LEMMA FoundedKept ==
    ASSUME TypeOK, Founded, Next
    PROVE  Founded'
<1> SUFFICES ASSUME org' = "none"
             PROVE  /\ \A p \in People : member'[p] = NoRow
                    /\ \A h \in Handlers : job'[h].do \notin TeamKinds
  BY DEF Founded, NoRow
<1>1. CASE ApplicationNext
  <2>1. UNCHANGED <<org, member>>
    BY <1>1, ApplicationMembers DEF Create
  <2>2. QED
    BY <1>1, <2>1, OwnJobs DEF Founded
<1>2. CASE TeamNext
  <2>1. org = "none"
    BY <1>2 DEF TeamNext, Revoke, Expire, SetStatus, ChangePlan, StartInvite, StartJoin, Invite, Join,
                StartAdd, StartChangeRole, Add, StartUpdate, Update, ChangeRole, StartRemove, Remove, Workspace
  <2>2. /\ \A p \in People : ~Stored(p)
        /\ \A h \in Handlers : job[h].do \notin TeamKinds
    BY <2>1 DEF Founded, Stored, NoRow
  <2>3. UNCHANGED <<member, job>>
    BY <1>2, <2>1, <2>2 DEF TeamKinds, TeamNext, Revoke, Expire, SetStatus, ChangePlan, StartInvite, StartJoin,
       Invite, Join, StartAdd, StartChangeRole, Add, StartUpdate, Update, ChangeRole, StartRemove, Remove, Workspace
  <2>4. QED
    BY <2>1, <2>3 DEF Founded
<1>3. QED
  BY <1>1, <1>2 DEF Next

(* AlwaysAnOwner: from its first moment on an organization has an active   *)
(* owner, with every gap open (approveApplication, the triggers of         *)
(* 0002_organizations.sql).                                                *)
THEOREM OwnerAlways == Spec => []AlwaysAnOwner
<1>1. Init => Founded /\ AlwaysAnOwner
  BY DEF Init, ApplicationInit, Founded, AlwaysAnOwner, Idle, TeamKinds
<1>2. ASSUME TypeOK, BySent, Founded, AlwaysAnOwner, [Next]_vars
      PROVE  Founded' /\ AlwaysAnOwner'
  <2>1. CASE UNCHANGED vars
    BY <1>2, <2>1 DEF vars, appVars, Founded, AlwaysAnOwner, IsOwner
  <2>2. CASE Next
    BY <1>2, <2>2, FoundedKept, ApplicationKeepsOwner, TeamKeepsOwner DEF Next
  <2>3. QED
    BY <1>2, <2>1, <2>2
<1>3. QED
  BY <1>1, <1>2, TeamTypes, PTL DEF Spec

-----------------------------------------------------------------------------
(* A workspace is set up as approved, once the decisions check again.      *)

(* What a handler knows of the approval at each of its steps.              *)
ApprovalKnows ==
    \A h \in Handlers :
        /\ job[h].do \in {"create", "look", "assign", "finish", "fail"} => review = "approved"
        /\ job[h].do \in {"look", "assign", "finish"} => org # "none"
        /\ job[h].do = "finish" => plan # None

(* The approval's facts, and that they are not taken back.                 *)
Progress ==
    /\ review = "approved" => review' = "approved"
    /\ org # "none" => org' # "none"
    /\ plan # None => plan' # None

ApprovalKinds == {"create", "look", "assign", "finish", "fail"}

LEMMA TeamLeavesApproval ==
    ASSUME TypeOK, TeamNext
    PROVE  /\ UNCHANGED <<review, prov>> /\ Progress
           /\ org = "none" => org' = "none"
           /\ \A g \in Handlers : job'[g] = job[g] \/ job'[g].do \notin ApprovalKinds
<1> USE DEF TypeOK, Application, Workspace, ApprovalKinds
<1>1. UNCHANGED <<review, prov>> /\ (org # "none" <=> org' # "none")
  BY DEF TeamNext, Revoke, Expire, SetStatus, ChangePlan, StartInvite, StartJoin, Invite, Join,
         StartAdd, StartChangeRole, Add, StartUpdate, Update, ChangeRole, StartRemove, Remove
<1>2. plan # None => plan' # None
  BY DEF TeamNext, Revoke, Expire, SetStatus, ChangePlan, StartInvite, StartJoin, Invite, Join,
         StartAdd, StartChangeRole, Add, StartUpdate, Update, ChangeRole, StartRemove, Remove
<1>3. ASSUME NEW g \in Handlers PROVE job'[g] = job[g] \/ job'[g].do \notin ApprovalKinds
  <2>1. ASSUME NEW h \in Handlers,
               \/ \E i \in Invites :
                    \/ \E p \in People, role \in {"admin", "staff"} : StartInvite(h, i, p, role)
                    \/ StartJoin(h, i)
               \/ \E p \in People, role \in Roles : StartAdd(h, p, role) \/ StartChangeRole(h, p, role)
               \/ \E p \in People, row \in Rows : StartUpdate(h, p, row)
               \/ \E p \in People : StartRemove(h, p)
        PROVE  job'[g] = job[g] \/ job'[g].do \notin ApprovalKinds
    BY <2>1 DEF StartInvite, StartJoin, StartAdd, StartChangeRole, StartUpdate, StartRemove, Goes
  <2>2. ASSUME NEW h \in Handlers, Invite(h) \/ Join(h) \/ Add(h) \/ Update(h) \/ ChangeRole(h)
        PROVE  job'[g] = job[g] \/ job'[g].do \notin ApprovalKinds
    BY <2>2, OneEnd DEF Invite, Join, Add, Update, ChangeRole, Idle
  <2>3. ASSUME NEW h \in Handlers, Remove(h)
        PROVE  job'[g] = job[g] \/ job'[g].do \notin ApprovalKinds
    <3>1. CASE Ends(h)
      BY <3>1, OneEnd DEF Idle
    <3>2. CASE /\ job'[g] # job[g] /\ ~Ends(h) /\ g # h
      <4>1. /\ job'[g] = [job[g] EXCEPT !.row = FALSE]
            /\ job[g].do \in {"join", "update", "role", "remove"}
        BY <2>3, <3>2 DEF Remove
      <4>2. job[g] \in JoinJobs \cup UpdateJobs \cup StaffJobs
        BY <4>1, Kinds
      <4>3. job'[g].do = job[g].do
        BY <4>1, <4>2 DEF JoinJobs, UpdateJobs, StaffJobs
      <4>4. QED
        BY <4>1, <4>3
    <3>3. CASE g = h /\ ~Ends(h)
      BY <2>3, <3>3 DEF Remove, Idle
    <3>4. QED
      BY <3>1, <3>2, <3>3
  <2>4. CASE \/ \E i \in Invites : Revoke(i) \/ Expire(i)
             \/ \E s \in {"active", "suspended"} : SetStatus(s)
             \/ \E v \in Plans : ChangePlan(v)
    BY <2>4 DEF Revoke, Expire, SetStatus, ChangePlan
  <2>5. QED
    BY <2>1, <2>2, <2>3, <2>4 DEF TeamNext
<1>4. QED
  BY <1>1, <1>2, <1>3 DEF Progress

LEMMA ApprovalGoesOn ==
    ASSUME TypeOK, "decide" \notin Gaps, ApprovalKnows, SetUpAsApproved, ApplicationNext
    PROVE  ApprovalKnows' /\ SetUpAsApproved'
<1> USE DEF TypeOK, ApplicationTypeOK, Workspace
<1>1. ASSUME Progress, UNCHANGED <<org, prov>>,
             \A g \in Handlers : job'[g] = job[g] \/ job'[g].do \notin ApprovalKinds
      PROVE  ApprovalKnows' /\ SetUpAsApproved'
  BY <1>1 DEF ApprovalKnows, SetUpAsApproved, Progress, ApprovalKinds
<1>2. CASE Submit \/ RequestInformation
  BY <1>1, <1>2 DEF Submit, RequestInformation, Progress
<1>3. ASSUME NEW h \in Handlers, NEW as \in {"rejected", "withdrawn"}, StartDecide(h, as)
      PROVE  ApprovalKnows' /\ SetUpAsApproved'
  BY <1>1, <1>3 DEF StartDecide, Goes, Progress, ApprovalKinds
<1>4. ASSUME NEW h \in Handlers, Decide(h) PROVE ApprovalKnows' /\ SetUpAsApproved'
  BY <1>1, <1>4, OneEnd DEF Decide, Idle, Progress, ApprovalKinds, Undecided, UnderReview
<1>5. ASSUME NEW h \in Handlers, NEW v \in Plans, StartApprove(h, v)
      PROVE  ApprovalKnows' /\ SetUpAsApproved'
  BY <1>5 DEF StartApprove, Goes, ApprovalKnows, SetUpAsApproved
<1>6. ASSUME NEW h \in Handlers, Claim(h) PROVE ApprovalKnows' /\ SetUpAsApproved'
  <2>1. job[h] \in Approvals
    BY <1>6, Kinds DEF Claim
  <2>2. review' = "approved" /\ (prov' = "provisioned" => prov' = prov)
    BY <1>6 DEF Claim
  <2>3. QED
    BY <1>6, <2>1, <2>2, OneProceeds DEF Claim, ApprovalKnows, SetUpAsApproved
<1>7. ASSUME NEW h \in Handlers, Create(h) \/ Look(h) \/ Assign(h) \/ Fails(h)
      PROVE  ApprovalKnows' /\ SetUpAsApproved'
  <2>1. job[h] \in Approvals
    BY <1>7, Kinds DEF Create, Look, Assign, Fails
  <2>2. job[h].plan # None /\ review = "approved" /\ review' = "approved"
    BY <1>7, <2>1 DEF Approvals, ApprovalKnows, Create, Look, Assign, Fails
  <2>3. QED
    BY <1>7, <2>1, <2>2, OneProceeds
       DEF Create, Look, Assign, Fails, AfterFailure, ApprovalKnows, SetUpAsApproved
<1>8. ASSUME NEW h \in Handlers, RecordFailure(h) \/ Finish(h) \/ Die(h)
      PROVE  ApprovalKnows' /\ SetUpAsApproved'
  BY <1>8, OneEnd DEF RecordFailure, Finish, Die, Idle, ApprovalKnows, SetUpAsApproved
<1>9. QED
  BY <1>2, <1>3, <1>4, <1>5, <1>6, <1>7, <1>8 DEF ApplicationNext

(* SetUpAsApproved: unless a decision overwrites an approval (the gap      *)
(* "decide"), no failure, retry, dead worker or second approval leaves an  *)
(* organization of an application that was not approved, nor one shown as  *)
(* set up that is not (approveApplication).                                *)
THEOREM ApprovedThenSetUp == "decide" \notin Gaps => (Spec => []SetUpAsApproved)
<1> SUFFICES ASSUME "decide" \notin Gaps PROVE Spec => []SetUpAsApproved
  OBVIOUS
<1>1. Init => ApprovalKnows /\ SetUpAsApproved
  BY DEF Init, ApplicationInit, ApprovalKnows, SetUpAsApproved, Idle
<1>2. ASSUME TypeOK, BySent, ApprovalKnows, SetUpAsApproved, [Next]_vars
      PROVE  ApprovalKnows' /\ SetUpAsApproved'
  <2>1. CASE UNCHANGED vars
    BY <1>2, <2>1 DEF vars, appVars, ApprovalKnows, SetUpAsApproved
  <2>2. CASE TeamNext
    BY <1>2, <2>2, TeamLeavesApproval DEF ApprovalKnows, SetUpAsApproved, Progress, ApprovalKinds
  <2>3. QED
    BY <1>2, <2>1, <2>2, ApprovalGoesOn DEF Next
<1>3. QED
  BY <1>1, <1>2, TeamTypes, PTL DEF Spec

-----------------------------------------------------------------------------
(* Nobody joins beyond the plan, once what was counted stays so.           *)

(* What a handler's count of the seats still says.                         *)
SeatKnown(g) ==
    /\ job[g].do \in {"add", "join"} => job[g].limit = Limit
    /\ job[g].do = "join" /\ job[g].known /\ ~job[g].full => Used < Limit
    /\ job[g].do = "update" /\ job[g].want.status = "active" /\ job[g].row =>
         Active(job[g].who) \/ Used < Limit

SeatKinds == {"add", "join", "update"}
SameSeats == plan' = plan /\ \A p \in People : Active(p)' = Active(p)

LEMMA UsedTyped == TypeOK => Used \in Nat /\ Limit \in Nat
<1>1. IsFiniteSet({p \in People : Active(p)})
  BY FS_Subset DEF TeamAssumption
<1>2. QED
  BY <1>1, FS_CardinalityType, LimitTyped DEF Used

(* One more member takes one more seat at most.                            *)
LEMMA OneSeat ==
    ASSUME NEW p \in People, \A q \in People \ {p} : member'[q] = member[q]
    PROVE  /\ Used \in Nat /\ Used' \in Nat
           /\ Used' <= Used + 1
<1> DEFINE A == {q \in People : Active(q)}
           B == {q \in People : Active(q)'}
<1>1. IsFiniteSet(A) /\ IsFiniteSet(B)
  BY FS_Subset DEF TeamAssumption
<1>2. B \in SUBSET (A \cup {p})
  BY DEF Active
<1>3. /\ Cardinality(A) \in Nat /\ Cardinality(B) \in Nat
      /\ IsFiniteSet(A \cup {p})
      /\ Cardinality(A \cup {p}) = IF p \in A THEN Cardinality(A) ELSE Cardinality(A) + 1
  BY <1>1, FS_CardinalityType, FS_AddElement
<1>4. Cardinality(B) <= Cardinality(A \cup {p})
  BY <1>2, <1>3, FS_Subset
<1>5. Used = Cardinality(A) /\ Used' = Cardinality(B)
  BY DEF Used
<1> HIDE DEF A, B
<1>6. Cardinality(A \cup {p}) \in Nat
  BY <1>3, FS_CardinalityType
<1>7. QED
  BY <1>3, <1>4, <1>5, <1>6

LEMMA SameCount == ASSUME SameSeats PROVE Used' = Used /\ Limit' = Limit
<1>1. {p \in People : Active(p)'} = {p \in People : Active(p)}
  BY DEF SameSeats
<1>2. QED
  BY <1>1 DEF SameSeats, Used, Limit

(* When a handler's count stands after a step.                             *)
LEMMA StillKnown ==
    ASSUME TypeOK, NEW g \in Handlers, SeatKnown(g),
           \/ job'[g] = job[g] /\ SameSeats
           \/ job'[g] = job[g] /\ plan' = plan /\ ~Counted(g)
           \/ job'[g] = job[g] /\ ~Counted(g) /\ job[g].do \notin {"add", "join"}
           \/ job'[g].do \notin SeatKinds
    PROVE  SeatKnown(g)'
<1>1. CASE job'[g] = job[g] /\ SameSeats
  <2>1. job[g].do = "update" => job[g].who \in People
    BY Kinds DEF TypeOK, UpdateJobs
  <2>2. QED
    BY <1>1, <2>1, SameCount DEF SeatKnown, SameSeats
<1>2. CASE job'[g] = job[g] /\ plan' = plan /\ ~Counted(g)
  BY <1>2 DEF SeatKnown, Counted, Limit
<1>3. CASE job'[g] = job[g] /\ ~Counted(g) /\ job[g].do \notin {"add", "join"}
  BY <1>3 DEF SeatKnown, Counted
<1>4. CASE job'[g].do \notin SeatKinds
  BY <1>4 DEF SeatKnown, SeatKinds
<1>5. QED
  BY <1>1, <1>2, <1>3, <1>4

LEMMA ApplicationSeats ==
    ASSUME "seats" \notin Gaps, TypeOK, NEW g \in Handlers, SeatKnown(g),
           ApplicationNext, Workspace' # Workspace => MayChangePlan
    PROVE  SeatKnown(g)'
<1>1. CASE Workspace' = Workspace
  <2>1. SameSeats
    BY <1>1 DEF Workspace, SameSeats, Active
  <2>2. QED
    BY <2>1, OwnJobs, StillKnown DEF TeamKinds, SeatKinds
<1>2. CASE MayChangePlan
  BY <1>2, OwnJobs, StillKnown DEF TeamKinds, SeatKinds, MayChangePlan
<1>3. QED
  BY <1>1, <1>2

(* Handlers that look, and requests that change nobody's seat.             *)
LEMMA LooksSeats ==
    ASSUME "seats" \notin Gaps, TypeOK, NEW g \in Handlers, SeatKnown(g),
           \/ \E i \in Invites : Revoke(i) \/ Expire(i)
           \/ \E s \in {"active", "suspended"} : SetStatus(s)
           \/ \E v \in Plans : ChangePlan(v)
           \/ \E h \in Handlers :
                 \/ \E i \in Invites :
                      \/ \E p \in People, role \in {"admin", "staff"} : StartInvite(h, i, p, role)
                      \/ StartJoin(h, i)
                 \/ Invite(h)
                 \/ \E p \in People, role \in Roles : StartAdd(h, p, role) \/ StartChangeRole(h, p, role)
                 \/ \E p \in People, row \in Rows : StartUpdate(h, p, row)
                 \/ \E p \in People : StartRemove(h, p)
    PROVE  SeatKnown(g)'
<1> USE DEF Application, Workspace
<1>1. CASE \E v \in Plans : ChangePlan(v)
  BY <1>1, StillKnown DEF ChangePlan, MayChangePlan
<1>2. CASE \/ \E i \in Invites : Revoke(i) \/ Expire(i)
           \/ \E s \in {"active", "suspended"} : SetStatus(s)
  <2>1. job' = job /\ SameSeats
    BY <1>2 DEF Revoke, Expire, SetStatus, SameSeats, Active
  <2>2. QED
    BY <2>1, StillKnown
<1>3. ASSUME NEW h \in Handlers,
             \/ Invite(h)
             \/ \E i \in Invites, p \in People, role \in {"admin", "staff"} : StartInvite(h, i, p, role)
             \/ \E p \in People, role \in Roles : StartChangeRole(h, p, role)
             \/ \E p \in People : StartRemove(h, p)
      PROVE  SeatKnown(g)'
  <2>1. SameSeats
    BY <1>3 DEF Invite, StartInvite, StartChangeRole, StartRemove, SameSeats, Active
  <2>2. job'[g] = job[g] \/ job'[g].do \notin SeatKinds
    BY <1>3 DEF Invite, StartInvite, StartChangeRole, StartRemove, Goes, Ends, Idle, SeatKinds, TypeOK
  <2>3. QED
    BY <2>1, <2>2, StillKnown
<1>4. ASSUME NEW h \in Handlers, NEW j, Goes(h, j), SameSeats,
             \/ j.do = "add" /\ j.limit = Limit
             \/ j.do = "join" /\ j.limit = Limit /\ j.full = Full
             \/ j.do = "update" /\ (~Active(j.who) /\ j.want.status = "active" => ~Full) /\ j.who \in People
      PROVE  SeatKnown(g)'
  <2>1. CASE g # h
    <3>1. job'[g] = job[g]
      BY <1>4, <2>1 DEF Goes, TypeOK
    <3>2. QED
      BY <1>4, <3>1, StillKnown
  <2>2. CASE g = h
    <3>1. job'[g] = j
      BY <1>4, <2>2 DEF Goes, TypeOK
    <3>2. Used' = Used /\ Limit' = Limit
      BY <1>4, SameCount
    <3>3. ~Full => Used < Limit
      BY UsedTyped DEF Full
    <3>4. QED
      BY <1>4, <3>1, <3>2, <3>3 DEF SeatKnown, SameSeats
  <2>3. QED
    BY <2>1, <2>2
<1>5. ASSUME NEW h \in Handlers, NEW i \in Invites, StartJoin(h, i) PROVE SeatKnown(g)'
  <2>1. SameSeats
    BY <1>5 DEF StartJoin, SameSeats, Active
  <2>2. QED
    BY <1>4, <1>5, <2>1 DEF StartJoin
<1>6. ASSUME NEW h \in Handlers, NEW p \in People, NEW role \in Roles, StartAdd(h, p, role)
      PROVE  SeatKnown(g)'
  <2>1. SameSeats
    BY <1>6 DEF StartAdd, SameSeats, Active
  <2>2. QED
    BY <1>4, <1>6, <2>1 DEF StartAdd
<1>7. ASSUME NEW h \in Handlers, NEW p \in People, NEW row \in Rows, StartUpdate(h, p, row)
      PROVE  SeatKnown(g)'
  <2>1. SameSeats
    BY <1>7 DEF StartUpdate, SameSeats, Active
  <2>2. QED
    BY <1>4, <1>7, <2>1 DEF StartUpdate
<1>8. QED
  BY <1>1, <1>2, <1>3, <1>5, <1>6, <1>7

(* The writes of a membership: while another handler counts, none changes  *)
(* a seat.                                                                 *)
LEMMA WritesSeats ==
    ASSUME "seats" \notin Gaps, TypeOK, BySent, NEW g \in Handlers, SeatKnown(g), NEW h \in Handlers,
           Join(h) \/ Add(h) \/ Update(h) \/ ChangeRole(h) \/ Remove(h)
    PROVE  SeatKnown(g)'
<1> USE DEF SeatKinds, TypeOK, ApplicationTypeOK
<1>1. plan' = plan
  BY DEF Join, Add, Update, ChangeRole, Remove
<1>2. CASE Join(h) \/ Add(h)
  <2>1. MayChangeSeats(h) /\ Ends(h)
    BY <1>2 DEF Join, Add
  <2>2. g # h => job'[g] = job[g] /\ ~Counted(g)
    BY <2>1, OneEnd DEF MayChangeSeats
  <2>3. g = h => job'[g].do \notin SeatKinds
    BY <2>1, OneEnd DEF Idle
  <2>4. QED
    BY <1>1, <2>2, <2>3, StillKnown
<1>3. CASE Update(h)
  <2>1. Ends(h) /\ job[h].who \in People /\ job[h].want \in Rows
    BY <1>3, Kinds DEF Update, UpdateJobs
  <2>2. CASE job[h].want.status # member[job[h].who].status
    <3>1. g # h => job'[g] = job[g] /\ ~Counted(g)
      BY <1>3, <2>1, <2>2, OneEnd DEF Update, MayChangeSeats
    <3>2. g = h => job'[g].do \notin SeatKinds
      BY <2>1, OneEnd DEF Idle
    <3>3. QED
      BY <1>1, <3>1, <3>2, StillKnown
  <2>3. CASE job[h].want.status = member[job[h].who].status
    <3>1. SameSeats
      BY <1>1, <1>3, <2>1, <2>3 DEF Update, Updated, SameSeats, Active
    <3>2. job'[g] = job[g] \/ job'[g].do \notin SeatKinds
      BY <2>1, OneEnd DEF Idle
    <3>3. QED
      BY <3>1, <3>2, StillKnown
  <2>4. QED
    BY <2>2, <2>3
<1>4. CASE ChangeRole(h)
  <2>1. Ends(h) /\ job[h].who \in People
    BY <1>4, Kinds DEF ChangeRole, StaffJobs
  <2>2. SameSeats
    BY <1>1, <1>4, <2>1 DEF ChangeRole, Updated, SameSeats, Active, Rows, NoRow
  <2>3. job'[g] = job[g] \/ job'[g].do \notin SeatKinds
    BY <2>1, OneEnd DEF Idle
  <2>4. QED
    BY <2>2, <2>3, StillKnown
<1>5. CASE Remove(h)
  <2>1. CASE Ends(h) /\ UNCHANGED member
    <3>1. SameSeats
      BY <1>1, <2>1 DEF SameSeats, Active
    <3>2. job'[g] = job[g] \/ job'[g].do \notin SeatKinds
      BY <2>1, OneEnd DEF Idle
    <3>3. QED
      BY <3>1, <3>2, StillKnown
  <2>2. CASE ~(Ends(h) /\ UNCHANGED member)
    <3> DEFINE p == job[h].who
               Gone == [job[g] EXCEPT !.row = FALSE]
    <3>1. p \in People /\ member' = [member EXCEPT ![p] = NoRow]
      BY <1>5, <2>2, Kinds DEF Remove, StaffJobs
    <3>2. job'[g] = IF g = h THEN Idle
                    ELSE IF job[g].do \in {"join", "update", "role", "remove"} /\ job[g].who = p
                    THEN Gone ELSE job[g]
      BY <1>5, <2>2 DEF Remove
    <3>3. SameSeats \/ (g # h => ~Counted(g))
      <4>1. CASE Active(p)
        BY <1>5, <4>1 DEF Remove, MayChangeSeats
      <4>2. CASE ~Active(p)
        BY <1>1, <3>1, <4>2 DEF SameSeats, Active, NoRow
      <4>3. QED
        BY <4>1, <4>2
    <3>4. CASE job'[g] = job[g] \/ g = h
      <4>1. CASE g = h
        <5>1. job'[g].do \notin SeatKinds
          BY <3>2, <4>1 DEF Idle
        <5>2. QED
          BY <5>1, StillKnown
      <4>2. CASE g # h /\ job'[g] = job[g]
        <5>1. SameSeats \/ (plan' = plan /\ ~Counted(g))
          BY <1>1, <3>3, <4>2
        <5>2. QED
          BY <4>2, <5>1, StillKnown
      <4>3. QED
        BY <3>4, <4>1, <4>2
    <3>5. CASE g # h /\ job'[g] = Gone /\ job[g].do \in {"join", "update", "role", "remove"}
      <4>1. CASE job[g].do = "join"
        <5>1. job[g] \in JoinJobs
          BY <4>1, Kinds
        <5>2. /\ Gone.do = "join" /\ Gone.known = job[g].known
              /\ Gone.full = job[g].full /\ Gone.limit = job[g].limit
          BY <5>1 DEF JoinJobs
        <5>3. Limit' = Limit /\ (SameSeats => Used' = Used)
          BY <1>1, SameCount DEF Limit
        <5> HIDE DEF Gone
        <5>4. QED
          BY <3>3, <3>5, <4>1, <5>2, <5>3 DEF SeatKnown, Counted
      <4>2. CASE job[g].do = "update"
        <5>1. Gone.do = "update" /\ ~Gone.row
          BY <4>2, Kinds DEF UpdateJobs
        <5>2. QED
          BY <3>5, <5>1 DEF SeatKnown
      <4>3. CASE job[g].do \in {"role", "remove"}
        <5>1. Gone.do \notin SeatKinds
          BY <4>3, Kinds DEF StaffJobs
        <5>2. QED
          BY <3>5, <5>1, StillKnown
      <4>4. QED
        BY <3>5, <4>1, <4>2, <4>3
    <3>6. QED
      BY <3>2, <3>4, <3>5
  <2>3. QED
    BY <2>1, <2>2
<1>6. QED
  BY <1>2, <1>3, <1>4, <1>5

(* A step by which someone other than the applicant becomes a member finds *)
(* a seat.                                                                 *)
Fit == Cardinality({p \in People : member'[p].status = "active"}) <= Limit'

LEMMA FitByOne ==
    ASSUME TypeOK, plan' = plan, NEW p \in People, \A q \in People \ {p} : member'[q] = member[q],
           Used < Limit
    PROVE  Fit
<1>1. Used \in Nat /\ Used' \in Nat /\ Limit \in Nat /\ Used' <= Used + 1
  BY OneSeat, UsedTyped
<1>2. Limit' = Limit
  BY DEF Limit
<1>3. Used' = Cardinality({q \in People : member'[q].status = "active"})
  BY DEF Used, Active
<1>4. QED
  BY <1>1, <1>2, <1>3 DEF Fit

LEMMA NewcomersFit ==
    ASSUME TypeOK, BySent, \A g \in Handlers : SeatKnown(g), TeamNext,
           NEW p \in People, ~Active(p), member'[p].status = "active"
    PROVE  Fit
<1> USE DEF TypeOK, ApplicationTypeOK, Active
<1>1. PICK h \in Handlers : Join(h) \/ Add(h) \/ Update(h) \/ ChangeRole(h) \/ Remove(h)
  BY DEF TeamNext, Revoke, Expire, SetStatus, ChangePlan, StartInvite, StartJoin, Invite,
         StartAdd, StartChangeRole, StartUpdate, StartRemove, Workspace
<1>2. plan' = plan
  BY <1>1 DEF Join, Add, Update, ChangeRole, Remove
<1>3. ASSUME NEW q \in People, NEW role \in Roles, NEW limit, limit = Limit,
             member' = Inserted(q, role, limit)
      PROVE  Fit
  <2>1. Used < Limit /\ \A x \in People \ {q} : member'[x] = member[x]
    BY <1>3 DEF Inserted, Fits
  <2>2. QED
    BY <1>2, <2>1, FitByOne
<1>4. CASE Join(h)
  <2>1. job[h] \in JoinJobs
    BY <1>4, Kinds DEF Join
  <2>2. job[h].who \in People /\ invite[job[h].i].role \in Roles
    <3>1. invite[job[h].i] \in Invitations
      BY <1>4, <2>1 DEF Join, BySent, JoinJobs
    <3>2. QED
      BY <2>1, <3>1 DEF Invitations, Roles, JoinJobs
  <2>3. CASE ~job[h].known
    BY <1>3, <1>4, <2>2, <2>3 DEF Join, SeatKnown
  <2>4. CASE job[h].known
    <3>1. member' = Rejoined(job[h], invite[job[h].i].role)
      BY <1>4, <2>4 DEF Join
    <3>2. \A x \in People \ {job[h].who} : member'[x] = member[x]
      BY <2>2, <3>1 DEF Rejoined
    <3>3. p = job[h].who /\ ~job[h].full
      BY <3>1, <3>2 DEF Rejoined
    <3>4. Used < Limit
      BY <1>4, <2>4, <3>3 DEF SeatKnown, Join
    <3>5. QED
      BY <1>2, <3>2, <3>3, <3>4, FitByOne
  <2>5. QED
    BY <2>3, <2>4
<1>5. CASE Add(h)
  <2>1. job[h].who \in People /\ job[h].role \in Roles
    BY <1>5, Kinds DEF Add, AddJobs
  <2>2. QED
    BY <1>3, <1>5, <2>1 DEF Add, SeatKnown
<1>6. CASE Update(h)
  <2>1. job[h].who \in People /\ job[h].want \in Rows
    BY <1>6, Kinds DEF Update, UpdateJobs
  <2>2. member' = Updated(job[h].who, job[h].want) /\ job[h].row
    BY <1>6 DEF Update
  <2>3. \A x \in People \ {job[h].who} : member'[x] = member[x]
    BY <2>1, <2>2 DEF Updated
  <2>4. p = job[h].who /\ job[h].want.status = "active"
    BY <2>1, <2>2, <2>3 DEF Updated
  <2>5. Used < Limit
    BY <1>6, <2>2, <2>4 DEF SeatKnown, Update
  <2>6. QED
    BY <1>2, <2>3, <2>4, <2>5, FitByOne
<1>7. CASE ChangeRole(h) \/ Remove(h)
  <2>1. job[h].who \in People
    BY <1>7, Kinds DEF ChangeRole, Remove, StaffJobs
  <2>2. FALSE
    BY <1>7, <2>1 DEF ChangeRole, Remove, Updated, Rows, NoRow
  <2>3. QED
    BY <2>2
<1>8. QED
  BY <1>1, <1>4, <1>5, <1>6, <1>7

(* NewMembersFitPlan: unless a member comes back or the plan changes       *)
(* between a count of the seats and the write (the gap "seats"), whoever   *)
(* joins finds a seat, several at once for the last one included           *)
(* (insertMemberWithinSeatLimit, rejoinStatement, requireSeat).            *)
THEOREM JoinersFit == "seats" \notin Gaps => (Spec => NewMembersFitPlan)
<1> SUFFICES ASSUME "seats" \notin Gaps PROVE Spec => NewMembersFitPlan
  OBVIOUS
<1> DEFINE Known == \A g \in Handlers : SeatKnown(g)
<1>1. Init => Known
  BY DEF Init, ApplicationInit, SeatKnown, Idle
<1>2. ASSUME TypeOK, BySent, Known, [Next]_vars PROVE Known'
  <2>1. SUFFICES ASSUME NEW g \in Handlers PROVE SeatKnown(g)'
    OBVIOUS
  <2>2. CASE UNCHANGED vars
    <3>1. job' = job /\ SameSeats
      BY <2>2 DEF vars, appVars, SameSeats, Active
    <3>2. QED
      BY <1>2, <3>1, StillKnown
  <2>3. CASE TeamNext
    BY <1>2, <2>3, LooksSeats, WritesSeats DEF TeamNext
  <2>4. QED
    BY <1>2, <2>2, <2>3, ApplicationSeats DEF Next
<1>3. TypeOK /\ BySent /\ Known /\ [Next]_vars =>
        [(\E p \in People \ {Applicant} : ~Active(p) /\ member'[p].status = "active")
           => Cardinality({p \in People : member'[p].status = "active"}) <= Limit']_vars
  <2> SUFFICES ASSUME TypeOK, BySent, Known, Next,
                      NEW p \in People \ {Applicant}, ~Active(p), member'[p].status = "active"
               PROVE  Fit
    BY DEF Fit
  <2>1. CASE ApplicationNext
    <3>1. member'[p] = member[p]
      BY <2>1, ApplicationMembers DEF Create, TypeOK, ApplicationTypeOK
    <3>2. QED
      BY <3>1 DEF Active
  <2>2. CASE TeamNext
    BY <2>2, NewcomersFit
  <2>3. QED
    BY <2>1, <2>2 DEF Next
<1> HIDE DEF Known
<1>4. QED
  BY <1>1, <1>2, <1>3, TeamTypes, PTL DEF Spec, NewMembersFitPlan
=============================================================================
