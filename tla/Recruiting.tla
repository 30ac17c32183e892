------------------------------ MODULE Recruiting ------------------------------
(***************************************************************************)
(* One organization: its members, its recruiting verification, its jobs    *)
(* and the applications to them.                                           *)
(*                                                                         *)
(* Every handler that writes takes the organization's row lock, then the   *)
(* job's, then the application's, and is one step from there to its        *)
(* commit; decide_application is two, with the lock held in between.       *)
(* Three handlers read rows before that lock.  The session keeps           *)
(* the first read of a row (expire_on_commit is off and the locking SELECT *)
(* does not ask to refresh it), so what they test under the lock are the   *)
(* values of that first read; these handlers are split in two steps and    *)
(* their transaction keeps what was read.  Everything another SELECT loads *)
(* first under the lock is current.                                        *)
(*                                                                         *)
(* A block has no lock that these handlers take, and it changes nothing    *)
(* they write: a handler of one step that has not found it may commit      *)
(* after it, which leaves what the opposite order leaves.                  *)
(*                                                                         *)
(* If-Match of an organization, a job or a review is compared under the    *)
(* lock with the current row: a stale one is refused and changes nothing.  *)
(* The evidence and the snapshot of an application are artifacts; how they *)
(* become durable is ArtifactDurability.                                   *)
(***************************************************************************)
EXTENDS Naturals, FiniteSets

CONSTANTS
    Founder,            \* the organization's owner
    People,             \* everybody else
    Jobs,
    RecruitingSlots,    \* transactions that can be open at one time
    NoRecord,           \* no row, no transaction
    ApplicationLimit,   \* applications of an owner in a day
    MaxMaterial,        \* bound: verification_material_version
    MaxJobVersion,      \* bound: version of a job
    RecruitingEvents           \* bound: lapses, new days, blocks and new settings

VARIABLES
    org,                \* the Organization row
    members,            \* OrganizationMembership rows
    verification,       \* the latest OrganizationVerificationEvent with its evidence
    jobs,               \* Job rows
    applications,       \* Application rows, unique per job and applicant
    applied,            \* ApplicationRateBucket of today
    blocks,             \* people with a ConnectionBlock between them and the founder
    released,           \* settings.recruiting_enabled
    recruitingTx,                 \* what each slot's open transaction has read
    recruitingEvents

recruitingVars ==
    <<org, members, verification, jobs, applications, applied, blocks, released,
      recruitingTx, recruitingEvents>>

Owners == People \cup {Founder}

VerificationStates ==
    {"submitted", "under_review", "active", "rejected", "expired", "suspended", "revoked"}

Organization == [visibility: {"private", "public"}, material: 1..MaxMaterial]
OrganizationMembership == [role: {"admin", "member"}, status: {"invited", "active"}]
Verification == [state: VerificationStates, claims: 1..MaxMaterial, lapsed: BOOLEAN, retained: BOOLEAN, current: BOOLEAN]
Job == [status: {"draft", "published", "closed"}, version: 1..MaxJobVersion]
Statuses == {"submitted", "under_review", "accepted", "rejected", "withdrawn"}
Application == [status: Statuses, expired: BOOLEAN]
RecruitingTransaction ==
    [op: {"submit"}, org: Organization]
        \cup [op: {"apply"}, by: People, job: Jobs, org: Organization, status: {"draft", "published", "closed"}]
        \cup [op: {"withdraw"}, by: People, job: Jobs, row: Application]
        \cup [op: {"decide"}, by: Owners, job: Jobs, applicant: People, action: {"review", "accept", "reject"}]

ASSUME RecruitingAssumption ==
    /\ Founder \notin People
    /\ NoRecord \notin Organization \cup OrganizationMembership \cup Verification
    /\ NoRecord \notin Job \cup Application \cup RecruitingTransaction
    /\ ApplicationLimit \in Nat /\ RecruitingEvents \in Nat
    /\ MaxMaterial \in Nat \ {0} /\ MaxJobVersion \in Nat \ {0}

RecruitingTypeOK ==
    /\ org \in Organization \cup {NoRecord}
    /\ members \in [People -> OrganizationMembership \cup {NoRecord}]
    /\ verification \in Verification \cup {NoRecord}
    /\ jobs \in [Jobs -> Job \cup {NoRecord}]
    /\ applications \in [Jobs \X People -> Application \cup {NoRecord}]
    /\ applied \in [People -> 0..ApplicationLimit]
    /\ blocks \subseteq People
    /\ released \in BOOLEAN
    /\ recruitingTx \in [RecruitingSlots -> RecruitingTransaction \cup {NoRecord}]
    /\ recruitingEvents \in 0..RecruitingEvents

RecruitingInit ==
    /\ org = NoRecord
    /\ members = [p \in People |-> NoRecord]
    /\ verification = NoRecord
    /\ jobs = [j \in Jobs |-> NoRecord]
    /\ applications = [a \in Jobs \X People |-> NoRecord]
    /\ applied = [p \in People |-> 0]
    /\ blocks = {}
    /\ released = TRUE
    /\ recruitingTx = [s \in RecruitingSlots |-> NoRecord]
    /\ recruitingEvents = 0

-----------------------------------------------------------------------------
(* Authority *)

\* organization_role: an active admin is the only member with authority.
Employers ==
    {Founder} \cup {p \in People : members[p] = [role |-> "admin", status |-> "active"]}

\* verification_effective_state
EffectiveState ==
    IF verification = NoRecord THEN "none"
    ELSE IF verification.state = "active" /\ verification.lapsed THEN "expired"
    ELSE verification.state

\* verify_recruiting_evidence: retained, intact, and its digest is the one of
\* the claims the organization row shows.
VerifiedEvidence(claimed) == verification.retained /\ verification.claims = claimed.material

\* active_recruiting_verification of the organization row the session holds: the
\* event is also one of the reviewer who is configured now.
ActiveVerification(row) == EffectiveState = "active" /\ verification.current /\ VerifiedEvidence(row)

\* assert_active_employer_application_authority
EmployerInControl(o) == o \in Employers /\ org.visibility = "public" /\ ActiveVerification(org)

Blocked(x, y) == Founder \in {x, y} /\ {x, y} \cap blocks # {}

AlwaysUnlocked == TRUE      \* mutant: the organization is read without FOR UPDATE

\* organization_by_slug with for_update: no decision of an application is under way.
OrganizationUnlocked ==
    \A s \in RecruitingSlots : recruitingTx[s] # NoRecord => recruitingTx[s].op # "decide"

-----------------------------------------------------------------------------
(* The organization *)

\* create_organization: never public, because it is unverified.
CreateOrganization ==
    /\ org = NoRecord
    /\ org' = [visibility |-> "private", material |-> 1]
    /\ UNCHANGED <<members, verification, jobs, applications, applied, blocks, released, recruitingTx, recruitingEvents>>

\* can_read_organization and can_read_job for everybody, list_organizations.
PublicOrganization == released /\ org # NoRecord /\ org.visibility = "public" /\ ActiveVerification(org)

\* search_jobs
PublicJobs == {j \in Jobs : PublicOrganization /\ jobs[j] # NoRecord /\ jobs[j].status = "published"}

\* list_employer_organizations
Manages(o) == org # NoRecord /\ o \in Employers

\* list_employer_jobs
EmployerJobs(o) == {j \in Jobs : Manages(o) /\ jobs[j] # NoRecord}

\* update_organization: the visibility is supplied or kept; another name or website
\* is another material version.
UpdateOrganization(o, visibility, renamed) ==
    /\ Manages(o) /\ OrganizationUnlocked
    /\ visibility = "public" => released /\ ActiveVerification(org)
    /\ renamed => org.material < MaxMaterial
    /\ org' = [visibility |-> IF visibility = "kept" THEN org.visibility ELSE visibility,
               material |-> IF renamed THEN org.material + 1 ELSE org.material]
    /\ UNCHANGED <<members, verification, jobs, applications, applied, blocks, released, recruitingTx, recruitingEvents>>

-----------------------------------------------------------------------------
(* Verification *)

\* submit_organization_verification up to its lock.
BeginSubmit(s) ==
    /\ org # NoRecord /\ recruitingTx[s] = NoRecord
    /\ recruitingTx' = [recruitingTx EXCEPT ![s] = [op |-> "submit", org |-> org]]
    /\ UNCHANGED <<org, members, verification, jobs, applications, applied, blocks, released, recruitingEvents>>

\* list_recruiting_verification_queue
Pending == EffectiveState \in {"submitted", "under_review"}

\* An application that is pending or really active is a conflict.
Submittable(row) == ~Pending /\ ~ActiveVerification(row)

\* Its digest is of the organization row read first.
FinishSubmit(s) ==
    /\ recruitingTx[s] # NoRecord /\ recruitingTx[s].op = "submit" /\ OrganizationUnlocked
    /\ verification' =
        IF Submittable(recruitingTx[s].org)
        THEN [state |-> "submitted", claims |-> recruitingTx[s].org.material,
              lapsed |-> FALSE, retained |-> TRUE, current |-> FALSE]
        ELSE verification
    /\ recruitingTx' = [recruitingTx EXCEPT ![s] = NoRecord]
    /\ UNCHANGED <<org, members, jobs, applications, applied, blocks, released, recruitingEvents>>

\* The transitions of decide_recruiting_verification.
Transition ==
    [review   |-> [from |-> {"submitted"},         to |-> "under_review"],
     activate |-> [from |-> {"under_review"},      to |-> "active"],
     reject   |-> [from |-> {"under_review"},      to |-> "rejected"],
     expire   |-> [from |-> {"active", "expired"}, to |-> "expired"],
     suspend  |-> [from |-> {"active"},            to |-> "suspended"],
     revoke   |-> [from |-> {"active"},            to |-> "revoked"],
     restore  |-> [from |-> {"suspended"},         to |-> "active"]]

\* inspect_recruiting_verification and its evidence: what the reviewer can open,
\* and what the decisions about the claims need again.
Inspectable == verification # NoRecord /\ VerifiedEvidence(org)

\* decide_recruiting_verification, and apply_verification_transition of the
\* operator, who is held to the same table, evidence and lock.
DecideVerification(action) ==
    /\ EffectiveState \in Transition[action].from /\ OrganizationUnlocked
    /\ Transition[action].to = "active" => released
    /\ action \in {"review", "activate", "reject", "restore"} => Inspectable
    /\ verification' = [verification EXCEPT
            !.state = Transition[action].to,
            !.lapsed = @ /\ Transition[action].to # "active",
            !.current = TRUE]
    /\ UNCHANGED <<org, members, jobs, applications, applied, blocks, released, recruitingTx, recruitingEvents>>

-----------------------------------------------------------------------------
(* Members *)

\* list_organization_members
Members == {p \in People : members[p] # NoRecord}

\* list_organization_membership_invitations
Invited == {p \in Members : members[p].status = "invited" /\ ~Blocked(Founder, p)}

\* add_organization_admin
Invite(p, role) ==
    /\ org # NoRecord /\ p \notin Members /\ ~Blocked(Founder, p) /\ OrganizationUnlocked
    /\ members' = [members EXCEPT ![p] = [role |-> role, status |-> "invited"]]
    /\ UNCHANGED <<org, verification, jobs, applications, applied, blocks, released, recruitingTx, recruitingEvents>>

\* accept_organization_membership
AcceptMembership(p) ==
    /\ p \in Invited /\ OrganizationUnlocked
    /\ members' = [members EXCEPT ![p].status = "active"]
    /\ UNCHANGED <<org, verification, jobs, applications, applied, blocks, released, recruitingTx, recruitingEvents>>

\* remove_organization_admin
RemoveMember(p) ==
    /\ p \in Members /\ OrganizationUnlocked
    /\ members' = [members EXCEPT ![p] = NoRecord]
    /\ UNCHANGED <<org, verification, jobs, applications, applied, blocks, released, recruitingTx, recruitingEvents>>

-----------------------------------------------------------------------------
(* Jobs *)

\* create_job
CreateJob(o, j) ==
    /\ Manages(o) /\ jobs[j] = NoRecord /\ OrganizationUnlocked
    /\ jobs' = [jobs EXCEPT ![j] = [status |-> "draft", version |-> 1]]
    /\ UNCHANGED <<org, members, verification, applications, applied, blocks, released, recruitingTx, recruitingEvents>>

Revised(j, status) ==
    /\ OrganizationUnlocked
    /\ jobs[j].version < MaxJobVersion
    /\ jobs' = [jobs EXCEPT ![j] = [status |-> status, version |-> @.version + 1]]

\* update_job: an agent may update a draft only.
UpdateJob(o, j, human) ==
    /\ j \in EmployerJobs(o)
    /\ jobs[j].status = "draft" \/ human
    /\ Revised(j, jobs[j].status)
    /\ UNCHANGED <<org, members, verification, applications, applied, blocks, released, recruitingTx, recruitingEvents>>

\* change_job_lifecycle
PublishJob(o, j) ==
    /\ j \in EmployerJobs(o) /\ jobs[j].status = "draft"
    /\ released /\ ActiveVerification(org)
    /\ Revised(j, "published")
    /\ UNCHANGED <<org, members, verification, applications, applied, blocks, released, recruitingTx, recruitingEvents>>

CloseJob(o, j) ==
    /\ j \in EmployerJobs(o) /\ jobs[j].status = "published"
    /\ Revised(j, "closed")
    /\ UNCHANGED <<org, members, verification, applications, applied, blocks, released, recruitingTx, recruitingEvents>>

-----------------------------------------------------------------------------
(* Applications *)

\* submit_application up to its locks.
BeginApply(s, p, j) ==
    /\ released /\ org # NoRecord /\ jobs[j] # NoRecord /\ recruitingTx[s] = NoRecord
    /\ recruitingTx' = [recruitingTx EXCEPT ![s] =
            [op |-> "apply", by |-> p, job |-> j, org |-> org, status |-> jobs[j].status]]
    /\ UNCHANGED <<org, members, verification, jobs, applications, applied, blocks, released, recruitingEvents>>

\* The visibility, the claims and the job's status are those read first; the
\* verification, the membership and the block are read under the locks.
Admissible(t) ==
    /\ t.org.visibility = "public" /\ ActiveVerification(t.org) /\ t.status = "published"
    /\ t.by \notin Members
    /\ ~Blocked(t.by, Founder)
    /\ applications[<<t.job, t.by>>] = NoRecord
    /\ applied[t.by] < ApplicationLimit

FinishApply(s) ==
    LET t == recruitingTx[s] IN
    /\ t # NoRecord /\ t.op = "apply" /\ OrganizationUnlocked
    /\ IF Admissible(t)
       THEN /\ applications' = [applications EXCEPT ![<<t.job, t.by>>] =
                    [status |-> "submitted", expired |-> FALSE]]
            /\ applied' = [applied EXCEPT ![t.by] = @ + 1]
       ELSE UNCHANGED <<applications, applied>>
    /\ recruitingTx' = [recruitingTx EXCEPT ![s] = NoRecord]
    /\ UNCHANGED <<org, members, verification, jobs, blocks, released, recruitingEvents>>

\* list_my_applications and get_my_application_detail
MyApplications(p) ==
    {j \in Jobs : applications[<<j, p>>] # NoRecord /\ ~applications[<<j, p>>].expired}

\* get_job_application_detail and employer_application_snapshot
Readable(o, j, p) ==
    /\ EmployerInControl(o)
    /\ j \in MyApplications(p) /\ applications[<<j, p>>].status # "withdrawn"
    /\ ~Blocked(p, Founder) /\ ~Blocked(p, o)

\* list_job_applications
ReceivedApplications(o, j) == {p \in People : Readable(o, j, p)}

\* withdraw_application up to its locks.
BeginWithdraw(s, p, j) ==
    /\ applications[<<j, p>>] # NoRecord /\ recruitingTx[s] = NoRecord
    /\ recruitingTx' = [recruitingTx EXCEPT ![s] = [op |-> "withdraw", by |-> p, job |-> j, row |-> applications[<<j, p>>]]]
    /\ UNCHANGED <<org, members, verification, jobs, applications, applied, blocks, released, recruitingEvents>>

\* The status it tests is the one read first; retention does not change.
FinishWithdraw(s) ==
    LET t == recruitingTx[s]  a == <<t.job, t.by>> IN
    /\ t # NoRecord /\ t.op = "withdraw" /\ OrganizationUnlocked
    /\ applications' =
        IF t.row.status \in {"submitted", "under_review"} /\ ~applications[a].expired
        THEN [applications EXCEPT ![a].status = "withdrawn"]
        ELSE applications
    /\ recruitingTx' = [recruitingTx EXCEPT ![s] = NoRecord]
    /\ UNCHANGED <<org, members, verification, jobs, applied, blocks, released, recruitingEvents>>

\* mutant: only the employer's own decisions are final
NotYetDecided(row, action) ==
    row.status \notin IF action = "review" THEN {"under_review"} ELSE {"accepted", "rejected"}

\* What a review, and what an acceptance or a rejection, may follow.
ApplicationUndecided(row, action) ==
    row.status \in IF action = "review" THEN {"submitted"} ELSE {"submitted", "under_review"}

\* decide_application up to its write: under the locks of the organization, the job
\* and the application, which keep what is tested but a block and the clock.
BeginDecide(s, o, j, p, action) ==
    /\ recruitingTx[s] = NoRecord /\ OrganizationUnlocked
    /\ j \in EmployerJobs(o) /\ EmployerInControl(o)
    /\ action = "accept" => released
    /\ j \in MyApplications(p)
    /\ ApplicationUndecided(applications[<<j, p>>], action)
    /\ o # p /\ ~Blocked(Founder, p) /\ ~Blocked(o, p)
    /\ recruitingTx' = [recruitingTx EXCEPT ![s] =
            [op |-> "decide", by |-> o, job |-> j, applicant |-> p, action |-> action]]
    /\ UNCHANGED <<org, members, verification, jobs, applications, applied, blocks, released, recruitingEvents>>

\* Its write and commit.
FinishDecide(s) ==
    LET t == recruitingTx[s]
        status == [review |-> "under_review", accept |-> "accepted", reject |-> "rejected"]
    IN /\ t # NoRecord /\ t.op = "decide"
       /\ applications' = [applications EXCEPT ![<<t.job, t.applicant>>].status = status[t.action]]
       /\ recruitingTx' = [recruitingTx EXCEPT ![s] = NoRecord]
       /\ UNCHANGED <<org, members, verification, jobs, applied, blocks, released, recruitingEvents>>

-----------------------------------------------------------------------------
(* The environment *)

RecruitingEvent == recruitingEvents < RecruitingEvents /\ recruitingEvents' = recruitingEvents + 1

\* The decision's expires_at passes, or the retention of its evidence, which it
\* never outlives.
Lapse(ends) ==
    /\ RecruitingEvent
    /\ verification # NoRecord /\ verification.retained
    /\ ~verification.lapsed \/ ends
    /\ verification' = [verification EXCEPT !.lapsed = TRUE, !.retained = ~ends]
    /\ UNCHANGED <<org, members, jobs, applications, applied, blocks, released, recruitingTx>>

ExpireApplication(j, p) ==
    /\ RecruitingEvent
    /\ j \in MyApplications(p)
    /\ applications' = [applications EXCEPT ![<<j, p>>].expired = TRUE]
    /\ UNCHANGED <<org, members, verification, jobs, applied, blocks, released, recruitingTx>>

NewDay ==
    /\ RecruitingEvent
    /\ applied' = [p \in People |-> 0]
    /\ UNCHANGED <<org, members, verification, jobs, applications, blocks, released, recruitingTx>>

\* block_connection of the founder or by the founder.
Block(p) ==
    /\ RecruitingEvent
    /\ blocks' = blocks \cup {p}
    /\ UNCHANGED <<org, members, verification, jobs, applications, applied, released, recruitingTx>>

\* New settings mean a new process, with another flag or another reviewer; open
\* transactions are rolled back.
Redeploy(current) ==
    /\ RecruitingEvent
    /\ \/ released' = ~released /\ UNCHANGED verification
       \/ /\ verification # NoRecord /\ verification.current = ~current
          /\ verification' = [verification EXCEPT !.current = current]
          /\ UNCHANGED released
    /\ recruitingTx' = [s \in RecruitingSlots |-> NoRecord]
    /\ UNCHANGED <<org, members, jobs, applications, applied, blocks>>

RecruitingNext ==
    \/ CreateOrganization
    \/ \E o \in Owners, visibility \in {"private", "public", "kept"}, renamed \in BOOLEAN :
        UpdateOrganization(o, visibility, renamed)
    \/ \E s \in RecruitingSlots :
        \/ BeginSubmit(s) \/ FinishSubmit(s) \/ FinishApply(s) \/ FinishWithdraw(s) \/ FinishDecide(s)
        \/ \E p \in People, j \in Jobs : BeginApply(s, p, j) \/ BeginWithdraw(s, p, j)
    \/ \E action \in DOMAIN Transition : DecideVerification(action)
    \/ \E p \in People :
        \/ \E role \in {"admin", "member"} : Invite(p, role)
        \/ AcceptMembership(p) \/ RemoveMember(p) \/ Block(p)
    \/ \E o \in Owners, j \in Jobs :
        \/ CreateJob(o, j) \/ PublishJob(o, j) \/ CloseJob(o, j)
        \/ \E human \in BOOLEAN : UpdateJob(o, j, human)
        \/ \E s \in RecruitingSlots, p \in People, action \in {"review", "accept", "reject"} :
            BeginDecide(s, o, j, p, action)
    \/ \E j \in Jobs, p \in People : ExpireApplication(j, p)
    \/ \E ends \in BOOLEAN : Lapse(ends)
    \/ \E current \in BOOLEAN : Redeploy(current)
    \/ NewDay

RecruitingSpec == RecruitingInit /\ [][RecruitingNext]_recruitingVars

-----------------------------------------------------------------------------
(* Properties *)

Decisions == {"under_review", "accepted", "rejected"}

\* A row that takes another decision takes it from an employer in control.
DecisionIsControlled ==
    \A a \in Jobs \X People :
        /\ applications[a] # NoRecord /\ applications'[a] # applications[a]
        /\ applications'[a].status \in Decisions \ {applications[a].status}
        => /\ \E s \in RecruitingSlots :
                recruitingTx[s] # NoRecord /\ recruitingTx[s].op = "decide"
                /\ recruitingTx[s].by \in Employers \ {a[2]}
           /\ org.visibility = "public"
           /\ verification.state = "active" /\ verification.current /\ verification.claims = org.material

\* When the decision of an application commits, the one who decides is still an
\* employer and the organization still public and verified, by the reviewer who is
\* configured, on the claims it shows: what was renamed, withdrawn, revoked,
\* suspended, submitted again or removed while the decision was under way has
\* waited for it.  A block or an expiry may come in between (decide_application).
DecidedUnderControl == [][DecisionIsControlled]_recruitingVars

\* A row with an outcome keeps it, or is withdrawn.
OutcomeIsRespected ==
    \A a \in Jobs \X People :
        applications[a] # NoRecord /\ applications[a].status \in {"accepted", "rejected", "withdrawn"}
        => applications'[a].status \in {applications[a].status, "withdrawn"}

\* No employer changes an application that was decided or that the applicant
\* has withdrawn, in whatever order two employers and the applicant act
\* (decide_application).
EmployerRespectsOutcome == [][OutcomeIsRespected]_recruitingVars

\* An application that an employer accepted or rejected stays so: the applicant
\* who acts at the same time is told that it "cannot be withdrawn".
DecisionIsFinal ==
    [][\A a \in Jobs \X People :
        applications[a] # NoRecord /\ applications[a].status \in {"accepted", "rejected"}
        => applications'[a].status = applications[a].status]_recruitingVars
=============================================================================
