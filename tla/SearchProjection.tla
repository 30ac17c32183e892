--------------------------- MODULE SearchProjection ---------------------------
(***************************************************************************)
(* The durable search projection of the reference API: canonical document  *)
(* writes commit an outbox task, leased by projection workers, which       *)
(* replay the canonical current version into Meilisearch; account erasure  *)
(* conceals, unindexes and hard-deletes documents and leaves a tombstone   *)
(* task behind; an operator retries dead letters and rebuilds the index.   *)
(*                                                                         *)
(* Time is abstract: a lease may have expired, and a backoff may be over,  *)
(* at any moment.  A transaction that only waits for its locks and then    *)
(* commits is one action, guarded by the locks being free.  A worker       *)
(* inside _project holds its task row and the document's advisory lock     *)
(* across the remote call, so those steps are separate actions.            *)
(***************************************************************************)
EXTENDS Integers, Sequences, FiniteSets

CONSTANTS
    Docs,           \* document ids
    Workers,        \* search-projection worker processes
    Tokens,         \* claim tokens (uuid4); fresh = not referenced any more
    NoToken,        \* the NULL claim_token
    Eraser,         \* the account-erasure worker process
    NoClient,       \* "nobody is waiting for this Meilisearch task any more"
    MaxVersion,     \* bound: canonical versions of one document
    MaxAttempts,    \* SearchProjectionWorker.max_attempts
    MaxTries,       \* AccountErasureWorker.max_attempts
    MaxFaults       \* bound: failures, crashes and overrun leases

ASSUME BoundsAssumption ==
    /\ MaxVersion \in Nat \ {0}
    /\ MaxAttempts \in Nat \ {0}
    /\ MaxTries \in Nat \ {0}
    /\ MaxFaults \in Nat

ASSUME NamesAssumption ==
    /\ NoToken \notin Tokens
    /\ Eraser \notin Workers
    /\ NoClient \notin Workers \cup {Eraser} \cup Docs

Versions == 1..MaxVersion
Clients == Workers \cup {Eraser}

VARIABLES
    phase,      \* [Docs -> "new" | "live" | "concealed" | "erased"]
    version,    \* Document.current_version (kept after the row is erased)
    vis,        \* Document.visibility
    vrows,      \* versions with a DocumentVersion row and its file
    held,       \* an unreleased RetentionHold covers the document
    unindex,    \* the "unindex" AccountErasureItem ("queued" covers its leases)
    tries,      \* AccountErasureItem.attempts of that item
    task,       \* SearchProjectionTask.state by document and version
    attempts,   \* SearchProjectionTask.attempts
    token,      \* SearchProjectionTask.claim_token
    pc,         \* where each worker is in run_once
    claim,      \* the ProjectionClaim each worker works on
    retryable,  \* ProjectionFailure.retryable of the failure being recorded
    erasing,    \* the document whose unindex request the eraser awaits
    queue,      \* Meilisearch's task queue
    reply,      \* the outcome of the request each client waits for
    index,      \* the version Meilisearch holds, 0 for none
    mode,       \* the rebuild barrier: "serving" | "stopped" | "indexing"
    rebuilt,    \* public documents re-indexed by the running rebuild
    faults      \* failures so far

docVars == <<phase, version, vis, vrows, held, unindex, tries>>
taskVars == <<task, attempts, token>>
workerVars == <<pc, claim, retryable>>
meiliVars == <<queue, reply, index>>
adminVars == <<mode, rebuilt>>
vars == <<docVars, taskVars, workerVars, erasing, meiliVars, adminVars, faults>>

NoDoc == NoClient

PCs == {"idle", "claimed", "index", "putting", "remove", "deleting", "failed"}
TaskStates == {"none", "pending", "leased", "dead_letter"}
Op == [kind: {"put", "delete"}, doc: Docs, ver: Versions, from: Clients \cup {NoClient}]
Claim == [doc: Docs, ver: Versions, token: Tokens]
NoClaim == <<>>

DocTypes ==
    /\ phase \in [Docs -> {"new", "live", "concealed", "erased"}]
    /\ version \in [Docs -> 0..MaxVersion]
    /\ \A d \in Docs : phase[d] # "new" => version[d] \in Versions
    /\ vis \in [Docs -> {"public", "private"}]
    /\ vrows \in [Docs -> SUBSET Versions]
    /\ held \in [Docs -> BOOLEAN]
    /\ unindex \in [Docs -> {"none", "queued", "done", "dead_letter"}]
    /\ tries \in [Docs -> 0..MaxTries]
    /\ \A d \in Docs : unindex[d] = "queued" => phase[d] = "concealed"

TaskTypes ==
    /\ task \in [Docs -> [Versions -> TaskStates]]
    /\ attempts \in [Docs -> [Versions -> 0..MaxAttempts]]
    /\ token \in [Docs -> [Versions -> Tokens \cup {NoToken}]]

WorkerTypes ==
    /\ pc \in [Workers -> PCs]
    /\ claim \in [Workers -> Claim \cup {NoClaim}]
    /\ \A w \in Workers : pc[w] # "idle" => claim[w] \in Claim
    /\ retryable \in [Workers -> BOOLEAN]

MeiliTypes ==
    /\ queue \in Seq(Op)
    /\ reply \in [Clients -> {"none", "ok", "rejected"}]
    /\ index \in [Docs -> 0..MaxVersion]

AdminTypes ==
    /\ erasing \in Docs \cup {NoDoc}
    /\ erasing # NoDoc => unindex[erasing] = "queued"
    /\ mode \in {"serving", "stopped", "indexing"}
    /\ rebuilt \in SUBSET Docs
    /\ faults \in 0..MaxFaults

\* Every variable holds what its column, field or request may hold, and the
\* fields that are set together are set together.
TypeOK == DocTypes /\ TaskTypes /\ WorkerTypes /\ MeiliTypes /\ AdminTypes

Init ==
    /\ phase = [d \in Docs |-> "new"]
    /\ version = [d \in Docs |-> 0]
    /\ vis = [d \in Docs |-> "private"]
    /\ vrows = [d \in Docs |-> {}]
    /\ held = [d \in Docs |-> FALSE]
    /\ unindex = [d \in Docs |-> "none"]
    /\ tries = [d \in Docs |-> 0]
    /\ task = [d \in Docs |-> [v \in Versions |-> "none"]]
    /\ attempts = [d \in Docs |-> [v \in Versions |-> 0]]
    /\ token = [d \in Docs |-> [v \in Versions |-> NoToken]]
    /\ pc = [w \in Workers |-> "idle"]
    /\ claim = [w \in Workers |-> NoClaim]
    /\ retryable = [w \in Workers |-> TRUE]
    /\ erasing = NoDoc
    /\ queue = <<>>
    /\ reply = [c \in Clients |-> "none"]
    /\ index = [d \in Docs |-> 0]
    /\ mode = "serving"
    /\ rebuilt = {}
    /\ faults = 0

-----------------------------------------------------------------------------
(* Locks, claims and derived facts *)

\* A worker inside _project holds its task row and the advisory lock.
Projecting == {"index", "putting", "remove", "deleting"}

RowLocked(d, v) ==
    \E w \in Workers : pc[w] \in Projecting /\ claim[w].doc = d /\ claim[w].ver = v

NoAdvisoryLock(d) == FALSE     \* mutant: the lock is not taken

AdvisoryLocked(d) ==
    \E w \in Workers : pc[w] \in Projecting /\ claim[w].doc = d

\* _leased_task: the row is still leased under this very claim token.
LeasedTask(w) ==
    LET d == claim[w].doc  v == claim[w].ver
    IN  task[d][v] = "leased" /\ token[d][v] = claim[w].token

TokensInUse ==
    {token[d][v] : d \in Docs, v \in Versions}
        \cup {claim[w].token : w \in {x \in Workers : pc[x] # "idle"}}

RowExists(d) == phase[d] \in {"live", "concealed"}

\* The claim is about a version that is no longer the current one.
NeverSuperseded(w) == FALSE    \* mutant: current_version is not compared

Superseded(w) == RowExists(claim[w].doc) /\ version[claim[w].doc] # claim[w].ver

\* What the index should hold for a document: its public current version.
Projection(d) == IF phase[d] = "live" /\ vis[d] = "public" THEN version[d] ELSE 0

\* Requests of a client that stopped waiting stay queued, unattended.
Abandon(c) ==
    [i \in DOMAIN queue |->
        IF queue[i].from = c THEN [queue[i] EXCEPT !.from = NoClient] ELSE queue[i]]

AbandonAll == [i \in DOMAIN queue |-> [queue[i] EXCEPT !.from = NoClient]]

\* A failure, a crash, an overrun lease or an operator's rebuild.
Fault == faults < MaxFaults /\ faults' = faults + 1

-----------------------------------------------------------------------------
(* Canonical document writes *)

\* DocumentService.create: row, version 1, file and task in one commit.
Create(d) ==
    /\ mode = "serving"
    /\ phase[d] = "new"
    /\ \E x \in {"public", "private"} : vis' = [vis EXCEPT ![d] = x]
    /\ phase' = [phase EXCEPT ![d] = "live"]
    /\ version' = [version EXCEPT ![d] = 1]
    /\ vrows' = [vrows EXCEPT ![d] = {1}]
    /\ task' = [task EXCEPT ![d][1] = "pending"]
    /\ UNCHANGED <<held, unindex, tries, attempts, token, workerVars, erasing, meiliVars,
                   adminVars, faults>>

\* DocumentService.update: the advisory lock is held to the commit, stale
\* dead letters are retired, the new version's task is inserted.
Update(d) ==
    LET n == version[d] + 1 IN
    /\ mode = "serving"
    /\ phase[d] = "live"
    /\ n \in Versions
    /\ ~AdvisoryLocked(d)
    /\ \E x \in {"public", "private"} : vis' = [vis EXCEPT ![d] = x]
    /\ version' = [version EXCEPT ![d] = n]
    /\ vrows' = [vrows EXCEPT ![d] = @ \cup {n}]
    /\ task' = [task EXCEPT ![d] =
                   [v \in Versions |->
                       IF v = n THEN "pending"
                       ELSE IF v < n /\ @[v] = "dead_letter" THEN "none" ELSE @[v]]]
    /\ attempts' = [attempts EXCEPT ![d] =
                       [v \in Versions |-> IF task'[d][v] = "none" THEN 0 ELSE @[v]]]
    /\ UNCHANGED <<phase, held, unindex, tries, token, workerVars, erasing, meiliVars,
                   adminVars, faults>>

-----------------------------------------------------------------------------
(* SearchProjectionWorker *)

OnlyPending(d, v) == task[d][v] = "pending"   \* mutant: leases never expire

Claimable(d, v) == task[d][v] \in {"pending", "leased"}

\* A running worker still counts on the lease of this task.
LeaseInUse(d, v) ==
    /\ task[d][v] = "leased"
    /\ \E x \in Workers : pc[x] # "idle" /\ claim[x].token = token[d][v]

\* _claim, FOR UPDATE SKIP LOCKED: a pending task, or one whose lease expired.
\* Taking over the lease of a worker that still runs is a fault.
ClaimTask(w) ==
    /\ mode = "serving"
    /\ pc[w] = "idle"
    /\ \E d \in Docs, v \in Versions, t \in Tokens \ TokensInUse :
        /\ ~RowLocked(d, v)
        /\ Claimable(d, v)
        /\ IF LeaseInUse(d, v) THEN Fault ELSE UNCHANGED faults
        /\ task' = [task EXCEPT ![d][v] = "leased"]
        /\ token' = [token EXCEPT ![d][v] = t]
        /\ attempts' = [attempts EXCEPT ![d][v] = IF @ < MaxAttempts THEN @ + 1 ELSE @]
        /\ claim' = [claim EXCEPT ![w] = [doc |-> d, ver |-> v, token |-> t]]
    /\ pc' = [pc EXCEPT ![w] = "claimed"]
    /\ UNCHANGED <<docVars, retryable, erasing, meiliVars, adminVars>>

Idle(w) ==
    /\ pc' = [pc EXCEPT ![w] = "idle"]
    /\ claim' = [claim EXCEPT ![w] = NoClaim]
    /\ retryable' = [retryable EXCEPT ![w] = TRUE]

\* session.delete(task) and commit.
DeleteTask(w) ==
    LET d == claim[w].doc  v == claim[w].ver IN
    /\ task' = [task EXCEPT ![d][v] = "none"]
    /\ token' = [token EXCEPT ![d][v] = NoToken]
    /\ attempts' = [attempts EXCEPT ![d][v] = 0]

\* _project up to the remote call: lock the leased row (or find the lease
\* lost), take the advisory lock, read the Document row without locking it.
BeginProject(w) ==
    LET d == claim[w].doc  v == claim[w].ver IN
    /\ pc[w] = "claimed"
    /\ ~RowLocked(d, v)
    /\ \/ /\ ~LeasedTask(w)                            \* lost_lease
          /\ Idle(w)
          /\ UNCHANGED taskVars
       \/ /\ LeasedTask(w)
          /\ ~AdvisoryLocked(d)
          /\ Superseded(w)
          /\ DeleteTask(w)
          /\ Idle(w)
       \/ /\ LeasedTask(w)
          /\ ~AdvisoryLocked(d)
          /\ ~Superseded(w)
          /\ pc' = [pc EXCEPT ![w] =
                       IF RowExists(d) /\ vis[d] = "public" THEN "index" ELSE "remove"]
          /\ UNCHANGED <<claim, retryable, taskVars>>
    /\ UNCHANGED <<docVars, erasing, meiliVars, adminVars, faults>>

Submit(c, kind, d, v) ==
    /\ queue' = Append(queue, [kind |-> kind, doc |-> d, ver |-> v, from |-> c])
    /\ reply' = [reply EXCEPT ![c] = "none"]
    /\ UNCHANGED index

\* The public branch: read the DocumentVersion row, then search.index.
IndexDocument(w) ==
    LET d == claim[w].doc  v == claim[w].ver IN
    /\ pc[w] = "index"
    /\ \/ /\ v \in vrows[d]
          /\ Submit(w, "put", d, v)
          /\ pc' = [pc EXCEPT ![w] = "putting"]
          /\ UNCHANGED retryable
       \/ /\ v \notin vrows[d]                     \* projection_version_missing
          /\ pc' = [pc EXCEPT ![w] = "failed"]
          /\ retryable' = [retryable EXCEPT ![w] = FALSE]
          /\ UNCHANGED meiliVars
    /\ UNCHANGED <<docVars, taskVars, claim, erasing, adminVars, faults>>

\* The missing and non-public branches: search.delete_document.
RemoveDocument(w) ==
    /\ pc[w] = "remove"
    /\ Submit(w, "delete", claim[w].doc, claim[w].ver)
    /\ pc' = [pc EXCEPT ![w] = "deleting"]
    /\ UNCHANGED <<docVars, taskVars, claim, retryable, erasing, adminVars, faults>>

\* The end of _project: the waited-for Meilisearch task succeeded and, for a
\* deletion, the residual GET finds nothing; the task row goes and commits.
FinishProject(w) ==
    LET ok == /\ reply[w] = "ok"
              /\ pc[w] = "deleting" => index[claim[w].doc] = 0
    IN
    /\ pc[w] \in {"putting", "deleting"}
    /\ reply[w] # "none"
    /\ \/ /\ ok
          /\ DeleteTask(w)
          /\ Idle(w)
       \/ /\ ~ok                                    \* SearchUnavailable
          /\ pc' = [pc EXCEPT ![w] = "failed"]
          /\ UNCHANGED <<claim, retryable, taskVars>>
    /\ reply' = [reply EXCEPT ![w] = "none"]
    /\ UNCHANGED <<docVars, erasing, queue, index, adminVars, faults>>

\* Any exception inside _project (refused or timed-out request, unreadable
\* file, failed commit): the transaction rolls back, its locks are released.
ProjectException(w) ==
    /\ pc[w] \in Projecting
    /\ Fault
    /\ pc' = [pc EXCEPT ![w] = "failed"]
    /\ queue' = Abandon(w)
    /\ reply' = [reply EXCEPT ![w] = "none"]
    /\ UNCHANGED <<docVars, taskVars, claim, retryable, erasing, index, adminVars>>

\* The state _fail writes: dead_letter when retrying is pointless or over.
NextTaskState(w) ==
    IF ~retryable[w] \/ attempts[claim[w].doc][claim[w].ver] >= MaxAttempts
    THEN "dead_letter" ELSE "pending"

\* _fail, one transaction under the row lock and the advisory lock.
RecordFailure(w) ==
    LET d == claim[w].doc  v == claim[w].ver IN
    /\ pc[w] = "failed"
    /\ ~RowLocked(d, v)
    /\ \/ /\ ~LeasedTask(w)                            \* lost_lease
          /\ UNCHANGED taskVars
       \/ /\ LeasedTask(w)
          /\ ~AdvisoryLocked(d)
          /\ Superseded(w)
          /\ DeleteTask(w)
       \/ /\ LeasedTask(w)
          /\ ~AdvisoryLocked(d)
          /\ ~Superseded(w)
          /\ task' = [task EXCEPT ![d][v] = NextTaskState(w)]
          /\ token' = [token EXCEPT ![d][v] = NoToken]
          /\ UNCHANGED attempts
    /\ Idle(w)
    /\ UNCHANGED <<docVars, erasing, meiliVars, adminVars, faults>>

\* The process dies; its lease stays until another claim finds it expired.
Crash(w) ==
    /\ pc[w] # "idle"
    /\ Fault
    /\ Idle(w)
    /\ queue' = Abandon(w)
    /\ reply' = [reply EXCEPT ![w] = "none"]
    /\ UNCHANGED <<docVars, taskVars, erasing, index, adminVars>>

\* The operator's retry_dead_letter.
RetryDeadLetter(d, v) ==
    /\ mode = "serving"
    /\ task[d][v] = "dead_letter"
    /\ task' = [task EXCEPT ![d][v] = "pending"]
    /\ attempts' = [attempts EXCEPT ![d][v] = 0]
    /\ UNCHANGED <<docVars, token, workerVars, erasing, meiliVars, adminVars, faults>>

-----------------------------------------------------------------------------
(* Meilisearch (external): one queue, processed in order *)

Applied(op) ==
    [index EXCEPT ![op.doc] = IF op.kind = "put" THEN op.ver ELSE 0]

Answer(op, outcome) ==
    reply' = [c \in Clients |-> IF c = op.from THEN outcome ELSE reply[c]]

MeiliApply ==
    /\ queue # <<>>
    /\ index' = Applied(Head(queue))
    /\ Answer(Head(queue), "ok")
    /\ queue' = Tail(queue)
    /\ UNCHANGED <<docVars, taskVars, workerVars, erasing, adminVars, faults>>

MeiliReject ==
    /\ queue # <<>>
    /\ Fault
    /\ Answer(Head(queue), "rejected")
    /\ queue' = Tail(queue)
    /\ UNCHANGED <<docVars, taskVars, workerVars, erasing, index, adminVars>>

-----------------------------------------------------------------------------
(* Account lifecycle: concealment, unindexing, hard deletion *)


PlannedUnindex(d) == "queued"

\* confirm_account_deletion_request, for one document: private at once, under
\* the row lock only: no advisory lock, no new version, no projection task.
Conceal(d) ==
    /\ mode = "serving"
    /\ phase[d] = "live"
    /\ phase' = [phase EXCEPT ![d] = "concealed"]
    /\ vis' = [vis EXCEPT ![d] = "private"]
    /\ unindex' = [unindex EXCEPT ![d] = PlannedUnindex(d)]
    /\ UNCHANGED <<version, vrows, held, tries, taskVars, workerVars, erasing, meiliVars,
                   adminVars, faults>>

\* _claim counts the attempt; _process_network_action for phase "unindex" sends
\* the request after the lease transaction ended, under no lock, and whether or
\* not a hold exists.
BeginUnindex(d) ==
    /\ mode = "serving"
    /\ erasing = NoDoc
    /\ unindex[d] = "queued"
    /\ tries' = [tries EXCEPT ![d] = IF @ < MaxTries THEN @ + 1 ELSE @]
    /\ Submit(Eraser, "delete", d, version[d])
    /\ erasing' = d
    /\ UNCHANGED <<phase, version, vis, vrows, held, unindex, taskVars, workerVars,
                   adminVars, faults>>

\* The state _fail leaves the item in: there is no operator's retry for it.
FailedUnindex(d) == IF tries[d] >= MaxTries THEN "dead_letter" ELSE "queued"

\* The deletion was waited for.  A refusal, or a residual found after it, is a
\* SearchUnavailable that _fail records.
FinishUnindex ==
    /\ erasing # NoDoc
    /\ reply[Eraser] # "none"
    /\ unindex' = [unindex EXCEPT ![erasing] =
                      IF reply[Eraser] = "ok" /\ index[erasing] = 0
                      THEN "done" ELSE FailedUnindex(erasing)]
    /\ erasing' = NoDoc
    /\ reply' = [reply EXCEPT ![Eraser] = "none"]
    /\ UNCHANGED <<phase, version, vis, vrows, held, tries, taskVars, workerVars, queue,
                   index, adminVars, faults>>

\* The request fails or times out and _fail records it, or the erasure worker
\* dies or overruns its lease: then the item is claimed again as it is.
UnindexException ==
    /\ erasing # NoDoc
    /\ Fault
    /\ \/ unindex' = [unindex EXCEPT ![erasing] = FailedUnindex(erasing)]
       \/ UNCHANGED unindex
    /\ erasing' = NoDoc
    /\ queue' = Abandon(Eraser)
    /\ reply' = [reply EXCEPT ![Eraser] = "none"]
    /\ UNCHANGED <<phase, version, vis, vrows, held, tries, taskVars, workerVars, index,
                   adminVars>>

\* delete_file then delete_row of one DocumentVersion.
EraseVersion(d) ==
    /\ mode = "serving"
    /\ phase[d] = "concealed"
    /\ ~held[d]
    /\ \E v \in vrows[d] : vrows' = [vrows EXCEPT ![d] = @ \ {v}]
    /\ UNCHANGED <<phase, version, vis, held, unindex, tries, taskVars, workerVars, erasing,
                   meiliVars, adminVars, faults>>

NoTombstone(d) == task[d][version[d]]   \* mutant: the task is left as it is

Tombstone(d) == "pending"

\* _delete_row of the Document: under the document row, the task row and the
\* advisory lock, re-arm the exact-version tombstone and delete the row.
EraseDocument(d) ==
    LET v == version[d] IN
    /\ mode = "serving"
    /\ phase[d] = "concealed"
    /\ ~held[d]
    /\ unindex[d] = "done"
    /\ vrows[d] = {}
    /\ ~RowLocked(d, v)
    /\ ~AdvisoryLocked(d)
    /\ phase' = [phase EXCEPT ![d] = "erased"]
    /\ task' = [task EXCEPT ![d][v] = Tombstone(d)]
    /\ attempts' = [attempts EXCEPT ![d][v] = 0]
    /\ token' = [token EXCEPT ![d][v] = NoToken]
    /\ UNCHANGED <<version, vis, vrows, held, unindex, tries, workerVars, erasing, meiliVars,
                   adminVars, faults>>

PlaceHold(d) ==
    /\ mode = "serving"
    /\ RowExists(d) /\ ~held[d]
    /\ held' = [held EXCEPT ![d] = TRUE]
    /\ UNCHANGED <<phase, version, vis, vrows, unindex, tries, taskVars, workerVars, erasing,
                   meiliVars, adminVars, faults>>

ReleaseHold(d) ==
    /\ mode = "serving"
    /\ held[d]
    /\ held' = [held EXCEPT ![d] = FALSE]
    /\ UNCHANGED <<phase, version, vis, vrows, unindex, tries, taskVars, workerVars, erasing,
                   meiliVars, adminVars, faults>>

-----------------------------------------------------------------------------
(* rebuild-search: all writers are stopped, and stay so until it succeeds *)

StopWriters ==
    /\ mode = "serving"
    /\ Fault
    /\ mode' = "stopped"
    /\ pc' = [w \in Workers |-> "idle"]
    /\ claim' = [w \in Workers |-> NoClaim]
    /\ retryable' = [w \in Workers |-> TRUE]
    /\ erasing' = NoDoc
    /\ queue' = AbandonAll
    /\ reply' = [c \in Clients |-> "none"]
    /\ UNCHANGED <<docVars, taskVars, index, rebuilt>>

\* reset_index waits for its own task, hence for everything queued before it.
ResetIndex ==
    /\ mode = "stopped"
    /\ mode' = "indexing"
    /\ rebuilt' = {}
    /\ queue' = <<>>
    /\ index' = [d \in Docs |-> 0]
    /\ UNCHANGED <<docVars, taskVars, workerVars, erasing, reply, faults>>

Reindex(d) ==
    /\ mode = "indexing"
    /\ d \notin rebuilt
    /\ RowExists(d) /\ vis[d] = "public"
    /\ version[d] \in vrows[d]
    /\ index' = [index EXCEPT ![d] = version[d]]
    /\ rebuilt' = rebuilt \cup {d}
    /\ UNCHANGED <<docVars, taskVars, workerVars, erasing, queue, reply, mode, faults>>

RebuildFails ==
    /\ mode = "indexing"
    /\ Fault
    /\ mode' = "stopped"
    /\ UNCHANGED <<docVars, taskVars, workerVars, erasing, meiliVars, rebuilt>>

\* The projection log is retired only after every remote write succeeded.
FinishRebuild ==
    /\ mode = "indexing"
    /\ {d \in Docs : RowExists(d) /\ vis[d] = "public"} \subseteq rebuilt
    /\ task' = [d \in Docs |-> [v \in Versions |-> "none"]]
    /\ attempts' = [d \in Docs |-> [v \in Versions |-> 0]]
    /\ token' = [d \in Docs |-> [v \in Versions |-> NoToken]]
    /\ mode' = "serving"
    /\ rebuilt' = {}
    /\ UNCHANGED <<docVars, workerVars, erasing, meiliVars, faults>>

-----------------------------------------------------------------------------
(* Specification *)

WorkerStep(w) ==
    \/ ClaimTask(w) \/ BeginProject(w) \/ IndexDocument(w) \/ RemoveDocument(w)
    \/ FinishProject(w) \/ RecordFailure(w)

EraserStep ==
    \/ \E d \in Docs : BeginUnindex(d) \/ EraseVersion(d) \/ EraseDocument(d)
    \/ FinishUnindex

RebuildStep == ResetIndex \/ FinishRebuild \/ \E d \in Docs : Reindex(d)

Next ==
    \/ \E d \in Docs :
        \/ Create(d) \/ Update(d) \/ Conceal(d) \/ PlaceHold(d) \/ ReleaseHold(d)
        \/ \E v \in Versions : RetryDeadLetter(d, v)
    \/ \E w \in Workers : WorkerStep(w) \/ ProjectException(w) \/ Crash(w)
    \/ EraserStep \/ UnindexException
    \/ MeiliApply \/ MeiliReject
    \/ StopWriters \/ RebuildStep \/ RebuildFails

Spec == Init /\ [][Next]_vars

\* The services restart on failure and poll for ever; Meilisearch drains its
\* queue; a started rebuild is carried through.  Nobody has to write, to
\* retry a dead letter or to release a hold.
Fairness ==
    /\ \A w \in Workers : WF_vars(WorkerStep(w))
    /\ WF_vars(EraserStep)
    /\ WF_vars(MeiliApply)
    /\ WF_vars(RebuildStep)

FairSpec == Spec /\ Fairness

-----------------------------------------------------------------------------
(* Properties *)

QueuedFor(d) == {i \in DOMAIN queue : queue[i].doc = d}
NoTask(d) == \A v \in Versions : task[d][v] = "none"

\* While the services run, a live document whose current version has no
\* outbox task left is mirrored: Meilisearch holds its public current version
\* (or nothing) and nothing still queued there can change that.  This is what
\* deleting a task at the end of _project claims.
ConsumedTaskMeansMirrored ==
    mode = "serving" =>
        \A d \in Docs :
            phase[d] = "live" /\ task[d][version[d]] = "none" =>
                index[d] = Projection(d) /\ QueuedFor(d) = {}

\* An erased document whose tasks, tombstone included, are all consumed is
\* absent from the index and no queued request can put it back: the fact
\* _reconcile relies on before it reports live or full erasure.
ErasedMeansAbsent ==
    \A d \in Docs :
        phase[d] = "erased" /\ NoTask(d) =>
            index[d] = 0 /\ \A i \in QueuedFor(d) : queue[i].kind = "delete"

\* A dead letter of an existing document is about its current version: a
\* stale failure never degrades the health of a newer version (_fail).
DeadLetterIsCurrent ==
    \A d \in Docs, v \in Versions :
        RowExists(d) /\ task[d][v] = "dead_letter" => v = version[d]

\* A step replaces an indexed version by a later one, or removes it.
IndexAdvances == \A d \in Docs : index'[d] # 0 => index'[d] >= index[d]

\* The indexed version of a document never goes back, whatever requests of
\* crashed or timed-out workers are still queued.
IndexNeverGoesBack == [][IndexAdvances]_index

\* Once writes stop, every live or erased document is mirrored for good, unless
\* one of its tasks is dead-lettered: retries, crashes and lost leases lose no
\* outbox work (run_once).
Converges ==
    <>[](\A d \in Docs :
            \/ index[d] = Projection(d)
            \/ \E v \in Versions : task[d][v] = "dead_letter"
            \/ phase[d] = "concealed")

=============================================================================
