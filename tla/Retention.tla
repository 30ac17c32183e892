----------------------------- MODULE Retention -----------------------------
(***************************************************************************)
(* The retention executor: expired records are queued as tasks, leased by  *)
(* workers and disposed of one by one, and an operator's holds preserve a  *)
(* record with everything below it.  Disposal and the admission or release *)
(* of a hold are serialized by one guard row.  A file is unlinked inside   *)
(* the transaction that deletes its row, so a crash or a failed commit can *)
(* leave the row without its file.                                         *)
(*                                                                         *)
(* A worker holds one claim at a time, so its name stands for the claim's  *)
(* token.  Of a moderation case the row here is its sensitive content.  A  *)
(* closed case past its retention is past its appeal's deadline, so the    *)
(* cancellation of a reopened case's task cannot happen and is left out.   *)
(***************************************************************************)
EXTENDS Naturals, FiniteSets

CONSTANTS
    Records,            \* records with their parents, down to what holds name
    Parent,             \* function from Records to Records or None
    Disposable,         \* records with a retention period
    Filed,              \* records with a file: applications and evidence
    Evidence,           \* verification evidence
    ExpiresAt,          \* function from Evidence to its place in the order of expiry
    Limit,              \* the LIMIT of run_once: rows of one kind that a discovery reads
    Workers, None,
    MaxAttempts,
    MaxFaults,          \* bound: crashes, failures of the store or a commit, slow workers
    MaxHolds            \* bound: holds accepted

LifecycleTask ==
    [state: {"queued", "leased", "completed", "dead_letter"}, attempts: Nat,
     token: Workers \cup {None}, lapsed: BOOLEAN]
Claim == [record: Disposable, stage: {"claimed", "disposing", "failed", "dependent"}]

ASSUME RetentionAssumption ==
    /\ Parent \in [Records -> Records \cup {None}]
    /\ None \notin Records \cup Workers \cup LifecycleTask \cup Claim
    /\ Evidence \subseteq Filed /\ Filed \subseteq Disposable /\ Disposable \subseteq Records
    /\ ExpiresAt \in [Evidence -> Nat] /\ Limit \in Nat \ {0}
    /\ MaxAttempts \in Nat \ {0} /\ MaxFaults \in Nat /\ MaxHolds \in Nat

VARIABLES
    rows, files,        \* records and files that exist
    expired,            \* records whose retention_expires_at passes while the workers run
    over,               \* evidence of a verification that is not open when it expires
    task,               \* LifecycleTask rows
    tombstones,         \* RetentionTombstone rows
    holds,              \* records named by an active RetentionHold
    guard,              \* the worker in whose transaction the guard row is locked
    claim,              \* what each worker is doing
    faults, accepted

vars == <<rows, files, expired, over, task, tombstones, holds, guard, claim, faults, accepted>>

TypeOK ==
    /\ rows \subseteq Records /\ files \subseteq Filed
    /\ expired \subseteq Disposable /\ tombstones \subseteq Disposable /\ holds \subseteq Records
    /\ over \subseteq Evidence
    /\ task \in [Disposable -> LifecycleTask \cup {None}]
    /\ guard \in Workers \cup {None}
    /\ claim \in [Workers -> Claim \cup {None}]
    /\ faults \in 0..MaxFaults /\ accepted \in 0..MaxHolds

Init ==
    /\ rows = Records /\ files = Filed
    /\ expired \in SUBSET Disposable /\ over \in SUBSET Evidence
    /\ tombstones = {} /\ holds = {}
    /\ task = [r \in Disposable |-> None]
    /\ guard = None
    /\ claim = [w \in Workers |-> None]
    /\ faults = 0 /\ accepted = 0

-----------------------------------------------------------------------------
(* Lineage and holds *)

Lineage[r \in Records] ==
    IF Parent[r] = None THEN {} ELSE {Parent[r]} \cup Lineage[Parent[r]]

\* hold_ancestors and hold_descendants walk the rows that exist.
HoldAncestors(r) == Lineage[r] \cap rows
HoldDescendants(h) == {h} \cup {r \in rows : h \in Lineage[r]}

OwnHold(r) == r \in holds       \* mutant: only a hold that names the record

\* The active hold that _process looks for.
ActiveHold(r) == ({r} \cup HoldAncestors(r)) \cap holds # {}

\* mutant: only a disposal that runs
Leased(r) == task[r] # None /\ task[r].state = "leased"

\* A disposal that may have destroyed something.
Progressed(r) == task[r] # None /\ (task[r].state # "queued" \/ task[r].attempts > 0)

\* create_retention_hold
CreateRetentionHold(h) ==
    /\ guard = None /\ accepted < MaxHolds
    /\ \A r \in HoldDescendants(h) \cap Disposable : ~Progressed(r)
    /\ holds' = holds \cup {h}
    /\ accepted' = accepted + 1
    /\ UNCHANGED <<rows, files, expired, over, task, tombstones, guard, claim, faults>>

\* release_retention_hold; that the tasks below it become available at once
\* is a matter of time.
ReleaseRetentionHold(h) ==
    /\ guard = None /\ h \in holds
    /\ holds' = holds \ {h}
    /\ UNCHANGED <<rows, files, expired, over, task, tombstones, guard, claim, faults, accepted>>

-----------------------------------------------------------------------------
(* Discovery and claims *)

\* _verification_evidence_disposable: rejected, expired or revoked, or active,
\* which ends no later than its evidence; not submitted, under review or
\* suspended, which no transition can leave without evidence that is retained.
VerificationOver(r) == r \in Evidence => r \in over

\* _expired_candidates: an expired row without task and tombstone.
Candidate(r) == r \in rows \cap expired /\ task[r] = None /\ r \notin tombstones

\* Evidence that comes before r in the order in which discover reads it.
Ahead(r) == {e \in Evidence : Candidate(e) /\ ExpiresAt[e] < ExpiresAt[r]}

\* discover reads the oldest evidence up to its limit and drops what is not
\* disposable only then.
Listed(r) == r \in Evidence => Cardinality(Ahead(r)) < Limit

\* _insert_task, which does nothing when the record has a task
InsertTask(r) ==
    task' = [task EXCEPT ![r] = [state |-> "queued", attempts |-> 0, token |-> None, lapsed |-> FALSE]]

\* discover.  Of the other kinds everything read is queued, so
\* their limit only orders the discoveries.
Discover(r) ==
    /\ Candidate(r) /\ Listed(r) /\ VerificationOver(r)
    /\ InsertTask(r)
    /\ UNCHANGED <<rows, files, expired, over, tombstones, holds, guard, claim, faults, accepted>>

\* The task row is locked by the transaction that disposes of its record.
TaskLocked(r) == \E w \in Workers : claim[w] # None /\ claim[w].record = r /\ claim[w].stage = "disposing"

QueuedOnly(r) == task[r].state = "queued"       \* mutant: no lease is taken over

\* A task in the queue, or leased to a worker whose lease ran out.
Due(r) == task[r].state = "queued" \/ (task[r].state = "leased" /\ task[r].lapsed)

\* _claim_one, in the order of available_at, skipping locked rows
ClaimOne(w, r) ==
    /\ claim[w] = None
    /\ task[r] # None /\ Due(r) /\ ~TaskLocked(r)
    /\ task' = [task EXCEPT ![r] = [state |-> "leased", attempts |-> @.attempts + 1, token |-> w, lapsed |-> FALSE]]
    /\ claim' = [claim EXCEPT ![w] = [record |-> r, stage |-> "claimed"]]
    /\ UNCHANGED <<rows, files, expired, over, tombstones, holds, guard, faults, accepted>>

-----------------------------------------------------------------------------
(* _process *)

At(w, stage) == claim[w] # None /\ claim[w].stage = stage
Owns(w) == task[claim[w].record].state = "leased" /\ task[claim[w].record].token = w
Drop(w) == claim' = [claim EXCEPT ![w] = None]
Fault == faults < MaxFaults /\ faults' = faults + 1

\* The task as it goes back to the queue.
Requeued(r, attempts) == [state |-> "queued", attempts |-> attempts, token |-> None, lapsed |-> FALSE]

\* Another worker took the lease over.
LostClaim(w) ==
    /\ claim[w] # None /\ claim[w].stage # "disposing"
    /\ ~Owns(w)
    /\ Drop(w)
    /\ UNCHANGED <<rows, files, expired, over, task, tombstones, holds, guard, faults, accepted>>

\* A hold puts the task back until its review, and the attempt does not count.
DeferToHold(w) ==
    LET r == claim[w].record IN
    /\ At(w, "claimed") /\ guard = None /\ Owns(w)
    /\ ActiveHold(r)
    /\ task' = [task EXCEPT ![r] = Requeued(r, @.attempts - 1)]
    /\ Drop(w)
    /\ UNCHANGED <<rows, files, expired, over, tombstones, holds, guard, faults, accepted>>

\* What must be disposed of before: messages, conversations, connections.
Dependent(r) == \E c \in rows : Parent[c] = r

\* dependency_pending, which ends the transaction
MeetDependency(w) ==
    /\ At(w, "claimed") /\ guard = None /\ Owns(w)
    /\ ~ActiveHold(claim[w].record) /\ Dependent(claim[w].record)
    /\ claim' = [claim EXCEPT ![w].stage = "dependent"]
    /\ UNCHANGED <<rows, files, expired, over, task, tombstones, holds, guard, faults, accepted>>

\* _defer_dependency
DeferDependency(w) ==
    LET r == claim[w].record IN
    /\ At(w, "dependent") /\ Owns(w)
    /\ task' = [task EXCEPT ![r] = Requeued(r, @.attempts - 1)]
    /\ Drop(w)
    /\ UNCHANGED <<rows, files, expired, over, tombstones, holds, guard, faults, accepted>>

\* _dispose_resource up to its commit: the file is gone, the row is not.
DisposeResource(w) ==
    LET r == claim[w].record IN
    /\ At(w, "claimed") /\ guard = None /\ Owns(w)
    /\ ~ActiveHold(r) /\ ~Dependent(r)
    /\ files' = files \ {r}
    /\ guard' = w
    /\ claim' = [claim EXCEPT ![w].stage = "disposing"]
    /\ UNCHANGED <<rows, expired, over, task, tombstones, holds, faults, accepted>>

\* The row, its receipts and events, the tombstone and the task in one commit.
CommitDisposal(w) ==
    LET r == claim[w].record IN
    /\ At(w, "disposing")
    /\ rows' = rows \ {r}
    /\ tombstones' = tombstones \cup {r}
    /\ task' = [task EXCEPT ![r].state = "completed", ![r].token = None, ![r].lapsed = FALSE]
    /\ guard' = None
    /\ Drop(w)
    /\ UNCHANGED <<files, expired, over, holds, faults, accepted>>

\* The store fails before the file is gone, or the commit after.
DisposalFails(w) ==
    /\ Fault
    /\ \/ At(w, "claimed") /\ guard = None /\ Owns(w) /\ ~ActiveHold(claim[w].record)
       \/ At(w, "disposing")
    /\ claim' = [claim EXCEPT ![w].stage = "failed"]
    /\ guard' = IF guard = w THEN None ELSE guard
    /\ UNCHANGED <<rows, files, expired, over, task, tombstones, holds, accepted>>

\* _retry_or_dead_letter
RetryOrDeadLetter(w) ==
    LET r == claim[w].record IN
    /\ At(w, "failed") /\ Owns(w)
    /\ task' = [task EXCEPT ![r] =
            IF @.attempts >= MaxAttempts
            THEN [@ EXCEPT !.state = "dead_letter", !.token = None, !.lapsed = FALSE]
            ELSE Requeued(r, @.attempts)]
    /\ Drop(w)
    /\ UNCHANGED <<rows, files, expired, over, tombstones, holds, guard, faults, accepted>>

\* The process ends and its transaction is rolled back.
Crash(w) ==
    /\ Fault
    /\ claim[w] # None
    /\ Drop(w)
    /\ guard' = IF guard = w THEN None ELSE guard
    /\ UNCHANGED <<rows, files, expired, over, task, tombstones, holds, accepted>>

-----------------------------------------------------------------------------
(* The clock *)

Abandoned(r) ==
    /\ task[r] # None
    /\ \A w \in Workers : claim[w] # None => claim[w].record # r \/ task[r].token # w

\* lease_expires_at passes, a fault while its worker still runs.  That
\* available_at of a queued task passes takes no step: when a task may be
\* claimed is left open.
LeaseExpires(r) ==
    /\ task[r] # None /\ task[r].state = "leased" /\ ~task[r].lapsed
    /\ IF Abandoned(r) THEN UNCHANGED faults ELSE Fault
    /\ task' = [task EXCEPT ![r].lapsed = TRUE]
    /\ UNCHANGED <<rows, files, expired, over, tombstones, holds, guard, claim, accepted>>

WorkerStep(w) ==
    \/ LostClaim(w) \/ DeferToHold(w) \/ MeetDependency(w) \/ DeferDependency(w)
    \/ DisposeResource(w) \/ CommitDisposal(w) \/ RetryOrDeadLetter(w)

Next ==
    \/ \E h \in Records : CreateRetentionHold(h) \/ ReleaseRetentionHold(h)
    \/ \E r \in Disposable :
        Discover(r) \/ LeaseExpires(r) \/ \E w \in Workers : ClaimOne(w, r)
    \/ \E w \in Workers : WorkerStep(w) \/ DisposalFails(w) \/ Crash(w)

\* The command runs again and again, and discovers something as long as there is
\* anything to discover; it claims the oldest available task first,
\* so every task that is available again and again is claimed, and the guard's
\* row lock is granted in the order of the waiting transactions.
FairnessFor(S) ==
    /\ WF_vars(\E r \in Disposable : Discover(r))
    /\ WF_vars(\E r \in Disposable : Abandoned(r) /\ LeaseExpires(r))
    /\ \A r \in S : SF_vars(\E w \in Workers : ClaimOne(w, r))
    /\ \A w \in Workers : SF_vars(WorkerStep(w))

Fairness == FairnessFor(Disposable)

Spec == Init /\ [][Next]_vars
FairSpec == Spec /\ Fairness

-----------------------------------------------------------------------------
(* Properties *)

HeldBy(h, r) == h = r \/ h \in Lineage[r]

\* A record under an accepted hold, its own or one above it, still has its
\* file: a hold is refused when a disposal that failed may have unlinked it.
HeldIsWhole == \A h \in holds, r \in rows \cap Filed : HeldBy(h, r) => r \in files

\* A step keeps the row and the file of what a hold covers.
HeldSurvives ==
    \A h \in holds, r \in Records :
        HeldBy(h, r) => (r \in rows => r \in rows') /\ (r \in files => r \in files')

\* No step of any worker removes a record or a file under an accepted hold.
HoldPreserves == [][HeldSurvives]_vars

\* Evidence of open verifications fills every list that discover reads.
CrowdedOut(r) ==
    r \in Evidence /\ Cardinality({e \in Ahead(r) : ~VerificationOver(e)}) >= Limit

\* What keeps a record beyond its retention.
Kept(r) ==
    \/ r \notin expired \/ ~VerificationOver(r) \/ CrowdedOut(r)
    \/ \E h \in holds : HeldBy(h, r)
    \/ task[r] # None /\ task[r].state = "dead_letter"

\* A record is disposed of at last unless something keeps it or a record below
\* it, whatever workers crash, lose their lease, or meet a hold on the way: its
\* retention, a hold, an open verification, a dead letter, or as many older
\* pieces of evidence of open verifications as discover reads at a time.
ExpiredIsDisposed ==
    \A r \in Disposable :
        []<>(r \notin rows \/ \E c \in rows \cap Disposable : (c = r \/ r \in Lineage[c]) /\ Kept(c))
=============================================================================
