----------------------------- MODULE Applications -----------------------------
(***************************************************************************)
(* One business application, from its submission to a working organization *)
(* (platform/applications.ts): the review, and the approval that sets the  *)
(* organization up statement by statement and may be given again. The      *)
(* organization has the application's own id, so it is one as well.        *)
(*                                                                         *)
(* A handler that reads before it writes is a job in "job", with what it   *)
(* read; a batch is one step. An update whose WHERE repeats the check made *)
(* before it is one step too. The team's handlers are in module Team.      *)
(***************************************************************************)
EXTENDS Naturals, FiniteSets

CONSTANTS
    People,
    Applicant,   \* who applied, and becomes the owner
    Plans,       \* plan versions, each known by the members it allows
    Handlers,
    None,
    MaxFaults,   \* bound: failed statements and workers that die
    Gaps         \* known gaps of the code that may happen, see Claim

ASSUME ApplicationsAssumption ==
    /\ Applicant \in People /\ None \notin People
    /\ Plans \subseteq Nat /\ Plans # {} /\ None \notin Nat
    /\ MaxFaults \in Nat
    /\ Gaps \subseteq {"decide", "seats", "reread"}

VARIABLES
    review,  \* applications.review_status
    prov,    \* applications.provisioning_status
    org,     \* the organization's status
    plan,    \* the plan version of its subscription
    member,  \* person -> row of memberships
    job,     \* what each handler is doing
    faults

appVars == <<review, prov, org, plan, member, job, faults>>

Roles == {"owner", "admin", "staff"}
Rows  == [role : Roles, status : {"active", "disabled"}]
NoRow == [role |-> "none", status |-> "disabled"]
Idle  == [do |-> "none"]

UnderReview == {"pending_review", "needs_information"}
Undecided   == UnderReview \cup {"draft"}
Reviews     == Undecided \cup {"approved", "rejected", "withdrawn"}
Approvals   == [do : {"claim", "create", "look", "assign", "finish", "fail"}, plan : Plans]
Decisions   == [do : {"decide"}, as : {"rejected", "withdrawn"}]

ApplicationTypeOK ==
    /\ review \in Reviews
    /\ prov \in {"none", "provisioning", "failed", "provisioned"}
    /\ org \in {"none", "active", "suspended"}
    /\ plan \in Plans \cup {None}
    /\ member \in [People -> Rows \cup {NoRow}]
    /\ faults \in 0..MaxFaults

ApplicationInit ==
    /\ review = "draft" /\ prov = "none"
    /\ org = "none" /\ plan = None
    /\ member = [p \in People |-> NoRow]
    /\ job = [h \in Handlers |-> Idle]
    /\ faults = 0

Stored(p) == member[p].role # "none"
Free(h)    == job[h] = Idle
Goes(h, j) == job' = [job EXCEPT ![h] = j]
Ends(h)    == Goes(h, Idle)
Proceeds(h, do) == Goes(h, [job[h] EXCEPT !.do = do])
Fault      == faults < MaxFaults /\ faults' = faults + 1

Workspace == <<org, plan, member>>

-----------------------------------------------------------------------------
(* The review.                                                             *)

Submit ==
    /\ review \in {"draft", "needs_information"}
    /\ review' = "pending_review"
    /\ UNCHANGED <<prov, Workspace, job, faults>>

RequestInformation ==
    /\ review = "pending_review"
    /\ review' = "needs_information"
    /\ UNCHANGED <<prov, Workspace, job, faults>>

(* rejectApplication, withdrawMyApplication: the write does not repeat the *)
(* check.                                                                  *)
StartDecide(h, as) ==
    /\ Free(h)
    /\ review \in IF as = "rejected" THEN UnderReview ELSE Undecided
    /\ Goes(h, [do |-> "decide", as |-> as])
    /\ UNCHANGED <<review, prov, Workspace, faults>>

(* The gap "decide": the application may have been approved meanwhile.     *)
Decide(h) ==
    /\ job[h].do = "decide"
    /\ "decide" \notin Gaps => review \in Undecided
    /\ review' = job[h].as
    /\ Ends(h)
    /\ UNCHANGED <<prov, Workspace, faults>>

-----------------------------------------------------------------------------
(* The approval.                                                           *)

(* What may be approved, and approved again.                               *)
Approvable == UnderReview \cup {"approved"}

StartApprove(h, v) ==
    /\ Free(h)
    /\ review \in Approvable /\ ~(review = "approved" /\ prov = "provisioned")
    /\ Goes(h, [do |-> IF review = "approved" THEN "create" ELSE "claim", plan |-> v])
    /\ UNCHANGED <<review, prov, Workspace, faults>>

(* claimApproval. The gap "decide": it was rejected or withdrawn meanwhile *)
(* and there is nothing to claim; the handler goes on all the same.        *)
Claim(h) ==
    /\ job[h].do = "claim"
    /\ IF review \in UnderReview
       THEN review' = "approved" /\ prov' = "provisioning"
       ELSE ("decide" \notin Gaps => review = "approved") /\ UNCHANGED <<review, prov>>
    /\ Proceeds(h, "create")
    /\ UNCHANGED <<Workspace, faults>>

(* The organization and its owner, each if it is not there already.        *)
Owner == [role |-> "owner", status |-> "active"]
Create(h) ==
    /\ job[h].do = "create"
    /\ prov' = "provisioning"
    /\ org' = IF org = "none" THEN "active" ELSE org
    /\ member' = IF Stored(Applicant) THEN member ELSE [member EXCEPT ![Applicant] = Owner]
    /\ Proceeds(h, "look")
    /\ UNCHANGED <<review, plan, faults>>

(* Whether it has a subscription already.                                  *)
Look(h) ==
    /\ job[h].do = "look"
    /\ Proceeds(h, IF plan = None THEN "assign" ELSE "finish")
    /\ UNCHANGED <<review, prov, Workspace, faults>>

(* setSubscription, without keepPeriod.                                    *)
Assign(h) ==
    /\ job[h].do = "assign"
    /\ plan' = job[h].plan
    /\ Proceeds(h, "finish")
    /\ UNCHANGED <<review, prov, org, member, faults>>

(* A statement of the set-up fails, or the version is not published any    *)
(* more. Mutant: the failure is not the end of the handler.                *)
AfterFailureGoesOn == "finish"
AfterFailure == "fail"
Fails(h) ==
    /\ job[h].do \in {"create", "look", "assign"}
    /\ Fault /\ Proceeds(h, AfterFailure)
    /\ UNCHANGED <<review, prov, Workspace>>

RecordFailure(h) ==
    /\ job[h].do = "fail"
    /\ prov' = "failed"
    /\ Ends(h)
    /\ UNCHANGED <<review, Workspace, faults>>

Finish(h) ==
    /\ job[h].do = "finish"
    /\ prov' = "provisioned"
    /\ Ends(h)
    /\ UNCHANGED <<review, Workspace, faults>>

Die(h) ==
    /\ ~Free(h)
    /\ Fault /\ Ends(h)
    /\ UNCHANGED <<review, prov, Workspace>>

ApplicationNext ==
    \/ Submit
    \/ RequestInformation
    \/ \E h \in Handlers :
         \/ \E as \in {"rejected", "withdrawn"} : StartDecide(h, as)
         \/ Decide(h)
         \/ \E v \in Plans : StartApprove(h, v)
         \/ Claim(h)
         \/ Create(h)
         \/ Look(h)
         \/ Assign(h)
         \/ Fails(h)
         \/ RecordFailure(h)
         \/ Finish(h)
         \/ Die(h)

-----------------------------------------------------------------------------
(* Properties.                                                             *)

(* A workspace exists only of an application that was approved, and an     *)
(* application is shown as provisioned only when its organization and its  *)
(* subscription are there, however the steps of several approvals, their   *)
(* failures and retries and other decisions interleave                     *)
(* (approveApplication, rejectApplication, withdrawMyApplication).         *)
SetUpAsApproved ==
    /\ org # "none" => review = "approved"
    /\ prov = "provisioned" => org # "none" /\ plan # None
=============================================================================
