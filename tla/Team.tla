--------------------------------- MODULE Team ---------------------------------
(***************************************************************************)
(* The team of the organization that an application becomes: invitations   *)
(* (platform/invitations.ts), the control centre's members                 *)
(* (platform/orgs.ts), the admins' changes (orgTeam.ts), the plan's limit  *)
(* of members (platform/plans.ts), and the triggers that keep an owner     *)
(* (migrations/0002_organizations.sql).                                    *)
(*                                                                         *)
(* A job keeps in "row" whether the membership it read is still the one    *)
(* stored: a row that is removed and made again has another id. The reads  *)
(* of a handler are one step: what counts is how old they are when it      *)
(* writes.                                                                 *)
(***************************************************************************)
EXTENDS Applications

CONSTANTS
    Invites,
    DefaultLimit,   \* the members allowed before there is a plan
    MaxCalls        \* bound: requests about the team

ASSUME TeamAssumption == DefaultLimit \in Nat /\ MaxCalls \in Nat /\ IsFiniteSet(People)

VARIABLES
    invite,  \* invitation -> its row
    calls

vars == <<appVars, invite, calls>>

Unsent      == [to |-> None]
Invitations == [to : People, role : {"admin", "staff"},
                status : {"pending", "accepted", "revoked"}, late : BOOLEAN]

InviteJobs == [do : {"invite"}, i : Invites, who : People, role : {"admin", "staff"}]
JoinJobs   == [do : {"join"}, i : Invites, who : People, known : BOOLEAN, row : BOOLEAN,
               full : BOOLEAN, limit : Nat]
AddJobs    == [do : {"add"}, who : People, role : Roles, limit : Nat]
UpdateJobs == [do : {"update"}, who : People, row : BOOLEAN, want : Rows]
StaffJobs  == [do : {"role", "remove"}, who : People, row : BOOLEAN, role : Roles]
TeamJobs   == InviteJobs \cup JoinJobs \cup AddJobs \cup UpdateJobs \cup StaffJobs
Jobs       == {Idle} \cup Approvals \cup Decisions \cup TeamJobs

TypeOK ==
    /\ ApplicationTypeOK
    /\ job \in [Handlers -> Jobs]
    /\ invite \in [Invites -> Invitations \cup {Unsent}]
    /\ calls \in 0..MaxCalls

Init ==
    /\ ApplicationInit
    /\ invite = [i \in Invites |-> Unsent]
    /\ calls = 0

Active(p) == member[p].status = "active"
Used      == Cardinality({p \in People : Active(p)})
Limit     == IF plan = None THEN DefaultLimit ELSE plan
Full      == Used >= Limit

Calls == calls < MaxCalls /\ calls' = calls + 1
Application == <<review, prov>>

(* The gap "seats": a member comes back, or a plan changes, between a      *)
(* handler's count of the seats and its write.                             *)
Counted(g) ==
    \/ job[g].do = "join" /\ job[g].known
    \/ job[g].do = "update" /\ job[g].want.status = "active"
MayChangeSeats(h) ==
    "seats" \in Gaps \/ \A g \in Handlers \ {h} : ~Counted(g)
MayChangePlan ==
    "seats" \in Gaps \/ \A g \in Handlers : ~Counted(g) /\ job[g].do \notin {"add", "join"}

(* memberships_keep_an_owner: an owner may not be the last one. Mutant: an *)
(* owner who is disabled counts.                                           *)
IsOwner(row) == row = Owner
LastOfAnyOwner(p) == IsOwner(member[p]) /\ \A q \in People \ {p} : member[q].role # "owner"
LastOwner(p) == IsOwner(member[p]) /\ \A q \in People \ {p} : ~IsOwner(member[q])

(* An UPDATE of a membership, with the trigger.                            *)
Updated(p, row) ==
    IF LastOwner(p) /\ ~IsOwner(row) THEN member ELSE [member EXCEPT ![p] = row]

(* The WHERE of insertMemberWithinSeatLimit. Mutant: one too many.         *)
FitsOneMore(limit) == Used <= limit
Fits(limit) == Used < limit

(* insertMemberWithinSeatLimit: UNIQUE (org_id, user_id) aborts the batch. *)
Inserted(p, role, limit) ==
    IF Stored(p) \/ ~Fits(limit) THEN member
    ELSE [member EXCEPT ![p] = [role |-> role, status |-> "active"]]

-----------------------------------------------------------------------------
(* Invitations.                                                            *)

StartInvite(h, i, p, role) ==
    /\ Free(h) /\ invite[i] = Unsent
    /\ \A g \in Handlers : job[g].do = "invite" => job[g].i # i
    /\ org = "active" /\ ~Active(p) /\ ~Full
    /\ Calls
    /\ Goes(h, [do |-> "invite", i |-> i, who |-> p, role |-> role])
    /\ UNCHANGED <<Application, Workspace, faults, invite>>

(* Inviting again replaces the open invitation.                            *)
Revoked(p) ==
    [j \in Invites |-> IF invite[j].to = p /\ invite[j].status = "pending"
                       THEN [invite[j] EXCEPT !.status = "revoked"] ELSE invite[j]]
Invite(h) ==
    /\ job[h].do = "invite"
    /\ invite' = [Revoked(job[h].who) EXCEPT ![job[h].i] =
                    [to |-> job[h].who, role |-> job[h].role, status |-> "pending", late |-> FALSE]]
    /\ Ends(h)
    /\ UNCHANGED <<Application, Workspace, faults, calls>>

Pending(i) == invite[i] # Unsent /\ invite[i].status = "pending"
Marked(i, s) == [invite EXCEPT ![i] = [@ EXCEPT !.status = s]]

Revoke(i) ==
    /\ Pending(i) /\ Calls
    /\ invite' = Marked(i, "revoked")
    /\ UNCHANGED <<Application, Workspace, job, faults>>

(* Seven days pass.                                                        *)
Expire(i) ==
    /\ Pending(i) /\ ~invite[i].late
    /\ invite' = [invite EXCEPT ![i] = [@ EXCEPT !.late = TRUE]]
    /\ UNCHANGED <<Application, Workspace, job, faults, calls>>

(* acceptInvitation: the invitation is open; the membership, if any, and   *)
(* the seats are read.                                                     *)
StartJoin(h, i) ==
    /\ Free(h) /\ Pending(i) /\ ~invite[i].late /\ org = "active"
    /\ Calls
    /\ Goes(h, [do |-> "join", i |-> i, who |-> invite[i].to,
                known |-> Stored(invite[i].to), row |-> Stored(invite[i].to),
                full |-> Full, limit |-> Limit])
    /\ UNCHANGED <<Application, Workspace, faults, invite>>

(* rejoinStatement: of the row that was read, if it is still there; an     *)
(* owner stays owner.                                                      *)
Rejoined(j, role) ==
    LET r == member[j.who]
    IN  IF ~j.row \/ (j.full /\ r.status # "active") THEN member
        ELSE [member EXCEPT ![j.who] =
                [role |-> IF r.role = "owner" THEN "owner" ELSE role, status |-> "active"]]

(* The gap "reread": the invitation was used or revoked meanwhile; only    *)
(* its own row is checked again, not the join.                             *)
Join(h) ==
    LET j == job[h]
        p == j.who
    IN  /\ j.do = "join"
        /\ "reread" \notin Gaps => Pending(j.i)
        /\ MayChangeSeats(h)
        /\ member' = IF j.known THEN Rejoined(j, invite[j.i].role)
                     ELSE Inserted(p, invite[j.i].role, j.limit)
        /\ invite' = IF /\ Pending(j.i) /\ member'[p].status = "active"
                        /\ j.known \/ ~Stored(p) \/ ~Fits(j.limit)
                     THEN Marked(j.i, "accepted") ELSE invite
        /\ Ends(h)
        /\ UNCHANGED <<Application, org, plan, faults, calls>>

-----------------------------------------------------------------------------
(* Members, from the control centre.                                       *)

StartAdd(h, p, role) ==
    /\ Free(h) /\ org # "none"
    /\ Calls
    /\ Goes(h, [do |-> "add", who |-> p, role |-> role, limit |-> Limit])
    /\ UNCHANGED <<Application, Workspace, faults, invite>>

Add(h) ==
    /\ job[h].do = "add"
    /\ MayChangeSeats(h)
    /\ member' = Inserted(job[h].who, job[h].role, job[h].limit)
    /\ Ends(h)
    /\ UNCHANGED <<Application, org, plan, faults, invite, calls>>

(* updateMember: what the request leaves out is written as it was read. To *)
(* enable someone takes a seat.                                            *)
StartUpdate(h, p, row) ==
    /\ Free(h) /\ Stored(p) /\ row # member[p]
    /\ ~Active(p) /\ row.status = "active" => ~Full
    /\ Calls
    /\ Goes(h, [do |-> "update", who |-> p, row |-> TRUE, want |-> row])
    /\ UNCHANGED <<Application, Workspace, faults, invite>>

Update(h) ==
    /\ job[h].do = "update"
    /\ job[h].want.status # member[job[h].who].status => MayChangeSeats(h)
    /\ member' = IF job[h].row THEN Updated(job[h].who, job[h].want) ELSE member
    /\ Ends(h)
    /\ UNCHANGED <<Application, org, plan, faults, invite, calls>>

SetStatus(s) ==
    /\ org # "none" /\ org # s /\ Calls
    /\ org' = s
    /\ UNCHANGED <<Application, plan, member, job, faults, invite>>

(* setSubscription, or setOverride of the limit.                           *)
ChangePlan(v) ==
    /\ org # "none" /\ plan # v /\ Calls /\ MayChangePlan
    /\ plan' = v
    /\ UNCHANGED <<Application, org, member, job, faults, invite>>

-----------------------------------------------------------------------------
(* Members, by the organization's admins.                                  *)

(* syncPlatformRole, of the role that was read: never an owner's.          *)
StartChangeRole(h, p, role) ==
    /\ Free(h) /\ Stored(p) /\ member[p].role \notin {"owner", role} /\ role # "owner"
    /\ Calls
    /\ Goes(h, [do |-> "role", who |-> p, row |-> TRUE, role |-> role])
    /\ UNCHANGED <<Application, Workspace, faults, invite>>

ChangeRole(h) ==
    /\ job[h].do = "role"
    /\ member' = IF job[h].row
                 THEN Updated(job[h].who, [member[job[h].who] EXCEPT !.role = job[h].role]) ELSE member
    /\ Ends(h)
    /\ UNCHANGED <<Application, org, plan, faults, invite, calls>>

(* usersDelete: never someone who was read as an owner.                    *)
StartRemove(h, p) ==
    /\ Free(h) /\ Stored(p) /\ member[p].role # "owner"
    /\ Calls
    /\ Goes(h, [do |-> "remove", who |-> p, row |-> TRUE, role |-> member[p].role])
    /\ UNCHANGED <<Application, Workspace, faults, invite>>

(* The row goes, with the trigger; others that read it hold a row that is  *)
(* gone.                                                                   *)
Remove(h) ==
    LET p == job[h].who
    IN  /\ job[h].do = "remove"
        /\ Active(p) => MayChangeSeats(h)
        /\ IF job[h].row /\ ~LastOwner(p)
           THEN /\ member' = [member EXCEPT ![p] = NoRow]
                /\ job' = [g \in Handlers |->
                     IF g = h THEN Idle
                     ELSE IF job[g].do \in {"join", "update", "role", "remove"} /\ job[g].who = p
                     THEN [job[g] EXCEPT !.row = FALSE]
                     ELSE job[g]]
           ELSE Ends(h) /\ UNCHANGED member
        /\ UNCHANGED <<Application, org, plan, faults, invite, calls>>

TeamNext ==
    \/ \E i \in Invites : Revoke(i) \/ Expire(i)
    \/ \E s \in {"active", "suspended"} : SetStatus(s)
    \/ \E v \in Plans : ChangePlan(v)
    \/ \E h \in Handlers :
         \/ \E i \in Invites :
              \/ \E p \in People, role \in {"admin", "staff"} : StartInvite(h, i, p, role)
              \/ StartJoin(h, i)
         \/ Invite(h)
         \/ Join(h)
         \/ \E p \in People, role \in Roles :
              \/ StartAdd(h, p, role)
              \/ StartChangeRole(h, p, role)
         \/ Add(h)
         \/ \E p \in People, row \in Rows : StartUpdate(h, p, row)
         \/ Update(h)
         \/ ChangeRole(h)
         \/ \E p \in People : StartRemove(h, p)
         \/ Remove(h)

Next ==
    \/ /\ ApplicationNext
       /\ Workspace' # Workspace => MayChangePlan
       /\ UNCHANGED <<invite, calls>>
    \/ TeamNext

Spec == Init /\ [][Next]_vars

-----------------------------------------------------------------------------
(* Properties.                                                             *)

(* An organization has an active owner from its first moment and for good, *)
(* whatever two people change of the team at once, with what they read     *)
(* before (approveApplication, updateMember, syncPlatformRole, usersDelete *)
(* and the triggers of 0002_organizations.sql).                            *)
AlwaysAnOwner == org # "none" => \E p \in People : IsOwner(member[p])

(* Whoever joins, by an invitation, is added or enabled again, finds a     *)
(* seat in the plan, also when two take the last one at once; only the     *)
(* applicant's own membership, which approval makes, needs none            *)
(* (insertMemberWithinSeatLimit, rejoinStatement, requireSeat).            *)
NewMembersFitPlan ==
    [][(\E p \in People \ {Applicant} : ~Active(p) /\ member'[p].status = "active")
         => Cardinality({p \in People : member'[p].status = "active"}) <= Limit']_vars

(* Not so with the gap "reread": an invitation lets in only while it is    *)
(* open (invitations.ts:10, single use; its join does not check it again). *)
OpenInvitationsOnly ==
    [][\A h \in Handlers : job[h].do = "join" /\ job'[h] = Idle /\ member' # member
         => Pending(job[h].i)]_vars
=============================================================================
