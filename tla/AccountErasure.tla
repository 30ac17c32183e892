---------------------------- MODULE AccountErasure ----------------------------
(***************************************************************************)
(* The erasure of one confirmed account: its durable inventory of items,   *)
(* leased by account-erasure workers, against retention holds, the         *)
(* identity provider, the search tombstones and the backup generations.    *)
(*                                                                         *)
(* Time is abstract: a lease may have expired, and a backoff may be over,  *)
(* at any moment.  Transactions that take the backup-authority row (hold   *)
(* guard) are atomic.  A claim locks its item rows, as hold admission      *)
(* does, so the two are atomic with respect to each other.  A worker has   *)
(* one claim at a time: its identity stands for its claim token.           *)
(***************************************************************************)
EXTENDS Integers, FiniteSets

CONSTANTS
    Docs,           \* the account's documents
    Vers,           \* their versions: a row and a file each
    DocOf,          \* the document of each version
    Asks,           \* the account's contact requests
    Gens,           \* backup generations
    Workers,        \* account-erasure worker processes
    None,           \* no worker, item, hold or generation
    MaxAttempts,    \* AccountErasureExecutor.max_attempts
    MaxFaults       \* bound: failures, crashes and overrun leases; one hold per resource

ASSUME ConstantsAssumption ==
    /\ DocOf \in [Vers -> Docs]
    /\ None \notin Workers \cup Docs \cup Vers \cup Asks \cup Gens \cup {"policy"}
    /\ MaxAttempts \in Nat \ {0}
    /\ MaxFaults \in Nat

Resources == Docs \cup Vers \cup Asks

Item(phase, res) == [phase |-> phase, res |-> res]
Session == Item("provider", "session")
User == Item("provider", "user")
Cipher == Item("delete_row", "cipher")
PostCheck == Item("postcheck", "lifecycle")

RowItems == {Item("delete_row", x) : x \in Resources}
FileItems == {Item("delete_file", v) : v \in Vers}
UnindexItems == {Item("unindex", d) : d \in Docs}
DetachItems == {Item("detach", q) : q \in Asks}
BackupItems == {Item("backup", g) : g \in Gens}
ContentItems == RowItems \cup FileItems \cup UnindexItems \cup DetachItems
LocalItems == ContentItems \cup {Session, User, Cipher, PostCheck}
Items == LocalItems \cup BackupItems

ASSUME NamesAssumption ==
    /\ Docs \cap Vers = {} /\ (Docs \cup Vers) \cap Asks = {}
    /\ {"session", "user", "cipher"} \cap Resources = {}
    /\ None \notin Items

VARIABLES
    life,       \* AccountLifecycle.state
    liveErased, \* AccountLifecycle.live_erased_at is set
    state,      \* AccountErasureItem.state, "none" before it is planned
    attempts,   \* AccountErasureItem.attempts
    owner,      \* AccountErasureItem.claim_token, by the worker that holds it
    heldBy,     \* AccountErasureItem.hold_id, or "policy"
    hold,       \* RetentionHold by resource: "none" | "active" | "released"
    rows,       \* content rows in the database
    files,      \* version files in the store
    proven,     \* AccountErasureFileProof rows
    tombstone,  \* the SearchProjectionTask an erased document leaves
    verified,   \* AccountLifecycle.provider_state = "verified"
    cipher,     \* the encrypted provider subject and session are kept
    sessions,   \* the provider still has live sessions of the account
    user,       \* the provider still has the user
    gen,        \* AccountBackupManifest.state, "captured" before registration
    early,      \* generations captured before live_erased_at
    carries,    \* generations whose capture holds content of the account
    current,    \* AccountBackupAuthority.current_generation_id
    obligation, \* AccountBackupObligation.state
    pc,         \* where each worker is in run_once
    work,       \* the item each worker has claimed
    outcome,    \* what its remote call or its execution ended in
    faults

itemVars == <<state, attempts, owner, heldBy>>
contentVars == <<rows, files, proven, tombstone>>
providerVars == <<verified, cipher, sessions, user>>
backupVars == <<gen, early, carries, current, obligation>>
workerVars == <<pc, work, outcome>>
vars == <<life, liveErased, itemVars, hold, contentVars, providerVars, backupVars,
          workerVars, faults>>

LifeStates == {"pending", "concealed", "erasing", "held", "failed",
               "backup_expiry_pending", "fully_erased"}
ItemStates == {"none", "queued", "leased", "held", "completed", "dead_letter"}
PCs == {"idle", "pass", "claimed", "calling", "answered", "failed", "reconcile"}
Outcomes == {"none", "ok", "retryable", "permanent", "backup_expiry_pending"}

\* Every variable holds what its column may hold; an item is owned exactly
\* while it is leased and names a hold exactly while it is held.
TypeOK ==
    /\ life \in LifeStates
    /\ liveErased \in BOOLEAN
    /\ state \in [Items -> ItemStates]
    /\ attempts \in [Items -> Nat]
    /\ owner \in [Items -> Workers \cup {None}]
    /\ heldBy \in [Items -> Resources \cup {None, "policy"}]
    /\ \A i \in Items : state[i] = "leased" <=> owner[i] # None
    /\ \A i \in Items : state[i] = "held" <=> heldBy[i] # None
    /\ hold \in [Resources -> {"none", "active", "released"}]
    /\ rows \subseteq Resources
    /\ files \subseteq Vers
    /\ proven \subseteq Vers
    /\ tombstone \in [Docs -> {"none", "pending", "dead_letter"}]
    /\ verified \in BOOLEAN /\ cipher \in BOOLEAN /\ sessions \in BOOLEAN /\ user \in BOOLEAN
    /\ gen \in [Gens -> {"none", "captured", "active", "retired"}]
    /\ early \subseteq Gens /\ carries \subseteq Gens
    /\ current \in Gens \cup {None}
    /\ obligation \in [Gens -> {"none", "pending", "verified"}]
    /\ pc \in [Workers -> PCs]
    /\ work \in [Workers -> Items \cup {None}]
    /\ outcome \in [Workers -> Outcomes]
    /\ faults \in 0..MaxFaults

\* An account with content and a pending deletion request.
Init ==
    /\ life = "pending"
    /\ liveErased = FALSE
    /\ state = [i \in Items |-> "none"]
    /\ attempts = [i \in Items |-> 0]
    /\ owner = [i \in Items |-> None]
    /\ heldBy = [i \in Items |-> None]
    /\ hold = [x \in Resources |-> "none"]
    /\ rows = Resources
    /\ files = Vers
    /\ proven = {}
    /\ tombstone = [d \in Docs |-> "none"]
    /\ verified = FALSE /\ cipher = FALSE /\ sessions = TRUE /\ user = TRUE
    /\ gen = [g \in Gens |-> "none"]
    /\ early = {} /\ carries = {}
    /\ current = None
    /\ obligation = [g \in Gens |-> "none"]
    /\ pc = [w \in Workers |-> "idle"]
    /\ work = [w \in Workers |-> None]
    /\ outcome = [w \in Workers |-> "none"]
    /\ faults = 0

Fault == faults < MaxFaults /\ faults' = faults + 1
Confirmed == life # "pending"

-----------------------------------------------------------------------------
(* Holds and their lineage *)

OwnHoldOnly(x) == {x}       \* mutant: the document's hold is not looked up

\* hold_ancestors and the resource itself, from the rows that still exist.
Lineage(x) == {x} \cup (IF x \in Vers \cap rows THEN {DocOf[x]} ELSE {})

\* _active_hold: the unreleased holds that cover a resource.
ActiveHolds(x) == {h \in Lineage(x) \cap Resources : hold[h] = "active"}

\* hold_descendants, from the rows that still exist.
Descendants(x) == {x} \cup {v \in Vers \cap rows : DocOf[v] = x}

\* create_retention_hold, under the hold guard: refused once a destructive
\* item of a protected resource has a lease or is done.
CreateHold(x) ==
    /\ current # None
    /\ hold[x] = "none"
    /\ \A i \in RowItems \cup FileItems :
        i.res \in Descendants(x) => state[i] \notin {"leased", "completed"}
    /\ hold' = [hold EXCEPT ![x] = "active"]
    /\ UNCHANGED <<life, liveErased, itemVars, contentVars, providerVars, backupVars,
                   workerVars, faults>>

ReleaseHold(x) ==
    /\ hold[x] = "active"
    /\ hold' = [hold EXCEPT ![x] = "released"]
    /\ UNCHANGED <<life, liveErased, itemVars, contentVars, providerVars, backupVars,
                   workerVars, faults>>

-----------------------------------------------------------------------------
(* Confirmation: the inventory *)

\* plan: destructive work on a held resource starts held, the rest queued.
Planned(i) ==
    IF i.phase \in {"delete_row", "delete_file"} /\ ActiveHolds(i.res) # {} THEN "held" ELSE "queued"

OwedIfCurrent(g) == g = current     \* mutant: older generations are forgotten

\* The generations a confirmation owes.
OwedAtConfirm(g) == gen[g] = "active"

\* The state an item starts in.  A contact request is settled at once unless it
\* is held; then its detachment stays held by policy.
Inventory(i) ==
    IF i \in BackupItems THEN IF OwedAtConfirm(i.res) THEN "queued" ELSE "none"
    ELSE IF i.res \in Asks /\ ActiveHolds(i.res) = {} THEN "completed"
    ELSE IF i.phase = "detach" THEN "held"
    ELSE Planned(i)

\* The hold recorded with a held item: the resource's own before its document's.
Holder(x) == IF x \in ActiveHolds(x) THEN x ELSE CHOOSE h \in ActiveHolds(x) : TRUE

\* confirm_account_deletion_request, its commitment boundary aside: conceal,
\* plan everything, oblige every active backup generation.
Confirm ==
    /\ life = "pending"
    /\ current # None
    /\ life' = "concealed"
    /\ state' = [i \in Items |-> Inventory(i)]
    /\ heldBy' = [i \in Items |->
        IF Inventory(i) # "held" THEN None
        ELSE IF i.phase = "detach" THEN "policy" ELSE Holder(i.res)]
    /\ rows' = rows \ {q \in Asks : ActiveHolds(q) = {}}
    /\ obligation' = [g \in Gens |-> IF OwedAtConfirm(g) THEN "pending" ELSE "none"]
    /\ cipher' = TRUE
    /\ UNCHANGED <<liveErased, attempts, owner, hold, files, proven, tombstone, verified,
                   sessions, user, gen, early, carries, current, workerVars, faults>>

-----------------------------------------------------------------------------
(* A worker pass: run_once *)

At(w, from) == pc[w] = from
Goto(w, to) == pc' = [pc EXCEPT ![w] = to]

\* The item gets state s and loses its lease.
Settle(i, s) ==
    /\ state' = [state EXCEPT ![i] = s]
    /\ owner' = [owner EXCEPT ![i] = None]

MarkHeld(i) ==
    /\ Settle(i, "held")
    /\ heldBy' = [heldBy EXCEPT ![i] = Holder(i.res)]

RetentionHeld == {i \in Items : state[i] = "held" /\ heldBy[i] \in Resources}

FreedByOwnHold(i) == i.res \in Resources /\ hold[i.res] = "released"  \* mutant: not by its document's

\* The hold that is recorded with the item has been released.
Freed(i) == hold[heldBy[i]] = "released"

\* _requeue_explicitly_released_retention_holds: a released hold requeues its
\* items, a hold that no longer covers one makes it a dead letter.
RequeueReleased(w) ==
    /\ At(w, "idle")
    /\ Confirmed
    /\ LET uncovered == {i \in RetentionHeld : heldBy[i] \notin Lineage(i.res)}
           freed == {i \in RetentionHeld \ uncovered : Freed(i)}
       IN /\ state' = [i \in Items |-> IF i \in uncovered THEN "dead_letter"
                                       ELSE IF i \in freed THEN "queued" ELSE state[i]]
          /\ heldBy' = [i \in Items |-> IF i \in uncovered \cup freed THEN None ELSE heldBy[i]]
    /\ Goto(w, "pass")
    /\ UNCHANGED <<life, liveErased, attempts, owner, hold, contentVars, providerVars,
                   backupVars, work, outcome, faults>>

OnlyQueued(S) == \E i \in S : state[i] = "queued"   \* mutant: a lease counts as done

\* _incomplete_items
Incomplete(S) == \E i \in S : state[i] \notin {"none", "completed"}

\* What the postcheck waits for.
BeforePostcheck == ContentItems

\* _prerequisites_complete.  _CHILD_TYPES is by type: any version delays every document.
Prerequisites(i) ==
    \/ i.phase = "backup"
    \/ i = Session
    \/ /\ ~Incomplete({Session})
       /\ CASE i = PostCheck -> ~Incomplete(BeforePostcheck)
            [] i = User -> ~Incomplete({PostCheck})
            [] i = Cipher -> verified /\ ~Incomplete({User})
            [] i.phase = "delete_row" /\ i.res \in Vers -> ~Incomplete({Item("delete_file", i.res)})
            [] i.phase = "delete_row" /\ i.res \in Docs ->
                ~Incomplete({Item("unindex", i.res)}
                            \cup {j \in RowItems \cup FileItems : j.res \in Vers})
            [] OTHER -> TRUE

NeverReclaimed(i) == state[i] = "queued" /\ UNCHANGED faults     \* mutant: expired leases are not read

\* The item is due: queued, or leased and expired.  A lease that expires under
\* a worker still at work is a fault.
Due(i) ==
    \/ state[i] = "queued" /\ UNCHANGED faults
    \/ /\ state[i] = "leased"
       /\ IF work[owner[i]] = i THEN Fault ELSE UNCHANGED faults

\* _claim_one finds the item covered by a hold: it becomes held.
ClaimHeld(w, i) ==
    /\ At(w, "pass")
    /\ life # "fully_erased"
    /\ Due(i)
    /\ i.phase # "unindex" /\ ActiveHolds(i.res) # {}
    /\ MarkHeld(i)
    /\ Goto(w, "reconcile")
    /\ UNCHANGED <<life, liveErased, attempts, hold, contentVars, providerVars, backupVars,
                   work, outcome>>

\* _claim_one takes the lease.
Claim(w, i) ==
    /\ At(w, "pass")
    /\ life # "fully_erased"
    /\ Due(i)
    /\ i.phase = "unindex" \/ ActiveHolds(i.res) = {}
    /\ Prerequisites(i)
    /\ state' = [state EXCEPT ![i] = "leased"]
    /\ owner' = [owner EXCEPT ![i] = w]
    /\ attempts' = [attempts EXCEPT ![i] = @ + 1]
    /\ work' = [work EXCEPT ![w] = i]
    /\ outcome' = [outcome EXCEPT ![w] = "none"]
    /\ Goto(w, "claimed")
    /\ UNCHANGED <<life, liveErased, heldBy, hold, contentVars, providerVars, backupVars>>

\* _leased_item: the item is still leased under this claim.
LeasedItem(w) == work[w] # None /\ state[work[w]] = "leased" /\ owner[work[w]] = w

\* The lease went to someone else, the item is held or done: the claim is dropped.
LostLease(w) ==
    /\ pc[w] \in {"claimed", "answered", "failed"}
    /\ ~LeasedItem(w)
    /\ Goto(w, "pass")
    /\ work' = [work EXCEPT ![w] = None]
    /\ outcome' = [outcome EXCEPT ![w] = "none"]
    /\ UNCHANGED <<life, liveErased, itemVars, hold, contentVars, providerVars, backupVars, faults>>

-----------------------------------------------------------------------------
(* Executing the claimed item *)

\* The item is finished: _complete, and the reconciliation that follows.
Complete(w) ==
    /\ Settle(work[w], "completed")
    /\ work' = [work EXCEPT ![w] = None]
    /\ outcome' = [outcome EXCEPT ![w] = "none"]
    /\ Goto(w, "reconcile")
    /\ UNCHANGED <<attempts, heldBy>>

\* The execution raised: the transaction is rolled back and _fail comes next.
Raise(w, what) ==
    /\ outcome' = [outcome EXCEPT ![w] = what]
    /\ Goto(w, "failed")
    /\ UNCHANGED <<itemVars, work>>

\* _delete_file: the file goes and its proof is written.
DeleteFile(w) ==
    LET v == work[w].res IN
    /\ work[w] \in FileItems
    /\ files' = IF v \in rows THEN files \ {v} ELSE files
    /\ proven' = IF v \in rows THEN proven \cup {v} ELSE proven
    /\ Complete(w)
    /\ UNCHANGED <<rows, tombstone, verified, cipher, obligation, faults>>

\* _delete_row: the row goes; a document re-arms its search tombstone.  There is
\* no row plan for a contact request.
DeleteRow(w) ==
    LET x == work[w].res IN
    /\ work[w] \in RowItems
    /\ IF x \in Asks
       THEN Raise(w, "permanent") /\ UNCHANGED <<rows, tombstone>>
       ELSE /\ rows' = rows \ {x}
            /\ tombstone' = IF x \in Docs \cap rows THEN [tombstone EXCEPT ![x] = "pending"]
                            ELSE tombstone
            /\ Complete(w)
    /\ UNCHANGED <<files, proven, verified, cipher, obligation, faults>>

\* The encrypted provider identifiers go once the provider's answer is verified.
EraseCipher(w) ==
    /\ work[w] = Cipher
    /\ IF verified THEN cipher' = FALSE /\ Complete(w)
       ELSE Raise(w, "retryable") /\ UNCHANGED cipher
    /\ UNCHANGED <<contentVars, verified, obligation, faults>>

\* _postcheck: no row names the subject (a held contact request is detached),
\* every file item has its proof and no file is back.
Postcheck(w) ==
    /\ work[w] = PostCheck
    /\ IF /\ cipher
          /\ rows \subseteq Asks
          /\ \A i \in FileItems : state[i] = "completed" /\ i.res \in proven \ files
       THEN Complete(w)
       ELSE Raise(w, "permanent")
    /\ UNCHANGED <<contentVars, verified, cipher, obligation, faults>>

\* _verify_backup: only a retired generation settles its obligation.
VerifyBackup(w) ==
    LET g == work[w].res IN
    /\ work[w] \in BackupItems
    /\ IF gen[g] = "retired"
       THEN obligation' = [obligation EXCEPT ![g] = "verified"] /\ Complete(w)
       ELSE Raise(w, "backup_expiry_pending") /\ UNCHANGED obligation
    /\ UNCHANGED <<contentVars, verified, cipher, faults>>

\* The transaction fails: a file may already be unlinked, the rest rolls back.
ExecutionFails(w) ==
    /\ Fault
    /\ \/ UNCHANGED files
       \/ work[w] \in FileItems /\ files' = files \ {work[w].res}
    /\ Raise(w, "retryable")
    /\ UNCHANGED <<rows, proven, tombstone, verified, cipher, obligation>>

Local(i) == i.phase \notin {"unindex", "provider"}

\* _process, one transaction under the hold guard: the hold is looked up again
\* before anything is destroyed.
Process(w) ==
    /\ At(w, "claimed")
    /\ LeasedItem(w)
    /\ Local(work[w])
    /\ IF ActiveHolds(work[w].res) # {}
       THEN /\ MarkHeld(work[w])
            /\ Goto(w, "pass")
            /\ work' = [work EXCEPT ![w] = None]
            /\ UNCHANGED <<attempts, outcome, contentVars, verified, cipher, obligation, faults>>
       ELSE \/ DeleteFile(w)
            \/ DeleteRow(w)
            \/ EraseCipher(w)
            \/ Postcheck(w)
            \/ VerifyBackup(w)
            \/ ExecutionFails(w)
    /\ UNCHANGED <<life, liveErased, hold, sessions, user, gen, early, carries, current>>

\* _process_network_action, first transaction: read what the call needs, release.
BeginCall(w) ==
    /\ At(w, "claimed")
    /\ LeasedItem(w)
    /\ ~Local(work[w])
    /\ IF work[w].phase = "provider" /\ ~cipher
       THEN Raise(w, "permanent")
       ELSE Goto(w, "calling") /\ UNCHANGED <<itemVars, work, outcome>>
    /\ UNCHANGED <<life, liveErased, hold, contentVars, providerVars, backupVars, faults>>

\* The remote call takes effect.  An answer may be lost or refused.
Call(w) ==
    /\ At(w, "calling")
    /\ \/ /\ outcome' = [outcome EXCEPT ![w] = "ok"]
          /\ sessions' = (sessions /\ work[w] # Session)
          /\ user' = (user /\ work[w] # User)
          /\ UNCHANGED faults
       \/ /\ Fault
          /\ outcome' = [outcome EXCEPT ![w] = "retryable"]
          /\ sessions' \in {sessions, sessions /\ work[w] # Session}
          /\ user' \in {user, user /\ work[w] # User}
       \/ /\ Fault
          /\ work[w].phase = "provider"
          /\ outcome' = [outcome EXCEPT ![w] = "permanent"]
          /\ UNCHANGED <<sessions, user>>
    /\ Goto(w, "answered")
    /\ UNCHANGED <<life, liveErased, itemVars, hold, contentVars, verified, cipher, backupVars, work>>

\* The second transaction: the answer is recorded if the claim still holds.
FinishCall(w) ==
    /\ At(w, "answered")
    /\ LeasedItem(w)
    /\ IF outcome[w] = "ok"
       THEN verified' = (verified \/ work[w] = User) /\ Complete(w)
       ELSE Raise(w, outcome[w]) /\ UNCHANGED verified
    /\ UNCHANGED <<life, liveErased, hold, contentVars, cipher, sessions, user, backupVars, faults>>

\* _fail: requeue with backoff, or give up.  Waiting for a generation to expire
\* is not an attempt.
RecordFailure(w) ==
    LET i == work[w] IN
    /\ At(w, "failed")
    /\ LeasedItem(w)
    /\ IF outcome[w] = "backup_expiry_pending"
       THEN Settle(i, "queued") /\ attempts' = [attempts EXCEPT ![i] = IF @ > 0 THEN @ - 1 ELSE 0]
       ELSE /\ Settle(i, IF outcome[w] = "permanent" \/ attempts[i] >= MaxAttempts
                         THEN "dead_letter" ELSE "queued")
            /\ UNCHANGED attempts
    /\ work' = [work EXCEPT ![w] = None]
    /\ outcome' = [outcome EXCEPT ![w] = "none"]
    /\ Goto(w, "reconcile")
    /\ UNCHANGED <<life, liveErased, heldBy, hold, contentVars, providerVars, backupVars, faults>>

-----------------------------------------------------------------------------
(* Reconciling the lifecycle with its inventory *)

Has(S, s) == \E i \in S : state[i] = s

\* Every generation the account owes has been proved gone.
BackupsDone ==
    /\ ~Incomplete(BackupItems)
    /\ \A g \in Gens : obligation[g] # "pending"

\* mutant: search tombstones are not waited for
ReconciledWithoutTombstones ==
    IF Has(Items, "dead_letter") THEN "failed"
    ELSE IF Has(Items, "held") THEN "held"
    ELSE IF Incomplete(LocalItems) \/ ~verified \/ cipher THEN "erasing"
    ELSE "backup_expiry_pending"

\* The state the inventory, the tombstones and the obligations call for.
ReconciledLife ==
    IF life \in {"pending", "fully_erased"} THEN life
    ELSE IF Has(Items, "dead_letter") THEN "failed"
    ELSE IF Has(Items, "held") THEN "held"
    ELSE IF Incomplete(LocalItems) \/ ~verified \/ cipher THEN "erasing"
    ELSE IF \E d \in Docs : tombstone[d] = "dead_letter" THEN "failed"
    ELSE IF \E d \in Docs : tombstone[d] # "none" THEN "erasing"
    ELSE IF BackupsDone THEN "fully_erased" ELSE "backup_expiry_pending"

\* _reconcile, under the backup-authority row.
ReconcileLifecycle ==
    /\ life' = ReconciledLife
    /\ liveErased' = (liveErased \/ ReconciledLife \in {"backup_expiry_pending", "fully_erased"})

Reconcile(w) ==
    /\ At(w, "reconcile")
    /\ ReconcileLifecycle
    /\ Goto(w, "pass")
    /\ UNCHANGED <<itemVars, hold, contentVars, providerVars, backupVars, work, outcome, faults>>

\* The pass ends, its limit reached or nothing left to claim: _reconcile_all.
EndPass(w) ==
    /\ At(w, "pass")
    /\ ReconcileLifecycle
    /\ Goto(w, "idle")
    /\ UNCHANGED <<itemVars, hold, contentVars, providerVars, backupVars, work, outcome, faults>>

\* The process dies; its leases stay until they expire.
Crash(w) ==
    /\ pc[w] \in {"claimed", "calling", "answered", "failed", "reconcile"}
    /\ Fault
    /\ Goto(w, "idle")
    /\ work' = [work EXCEPT ![w] = None]
    /\ outcome' = [outcome EXCEPT ![w] = "none"]
    /\ UNCHANGED <<life, liveErased, itemVars, hold, contentVars, providerVars, backupVars>>

-----------------------------------------------------------------------------
(* The search tombstones, consumed by the projection worker *)

\* The projection worker attests the document's absence and deletes the task.
ConsumeTombstone(d) ==
    /\ tombstone[d] = "pending"
    /\ tombstone' = [tombstone EXCEPT ![d] = "none"]
    /\ UNCHANGED <<life, liveErased, itemVars, hold, rows, files, proven, providerVars,
                   backupVars, workerVars, faults>>

\* Its attempts are exhausted; an operator may retry it.
TombstoneDies(d) ==
    /\ tombstone[d] = "pending"
    /\ Fault
    /\ tombstone' = [tombstone EXCEPT ![d] = "dead_letter"]
    /\ UNCHANGED <<life, liveErased, itemVars, hold, rows, files, proven, providerVars,
                   backupVars, workerVars>>

RetryTombstone(d) ==
    /\ tombstone[d] = "dead_letter"
    /\ tombstone' = [tombstone EXCEPT ![d] = "pending"]
    /\ UNCHANGED <<life, liveErased, itemVars, hold, rows, files, proven, providerVars,
                   backupVars, workerVars, faults>>

-----------------------------------------------------------------------------
(* Backup generations *)

\* backup.sh takes the archives; they hold whatever of the account is there.
CaptureBackup(g) ==
    /\ gen[g] = "none"
    /\ gen' = [gen EXCEPT ![g] = "captured"]
    /\ early' = IF liveErased THEN early ELSE early \cup {g}
    /\ carries' = IF rows \cup files # {} \/ cipher THEN carries \cup {g} ELSE carries
    /\ UNCHANGED <<life, liveErased, itemVars, hold, contentVars, providerVars, current,
                   obligation, workerVars, faults>>

\* An erasure that is confirmed and not over owes every generation.
Open == Confirmed /\ life # "fully_erased"

\* register_backup_generation, under the backup-authority row: refused for a
\* capture older than a finished erasure, else owed by every open erasure.
RegisterBackup(g) ==
    /\ gen[g] = "captured"
    /\ ~(life = "fully_erased" /\ g \in early)
    /\ gen' = [gen EXCEPT ![g] = "active"]
    /\ current' = g
    /\ IF Open
       THEN /\ obligation' = [obligation EXCEPT ![g] = "pending"]
            /\ state' = [state EXCEPT ![Item("backup", g)] = "queued"]
       ELSE UNCHANGED <<obligation, state>>
    /\ UNCHANGED <<life, liveErased, attempts, owner, heldBy, hold, contentVars, providerVars,
                   early, carries, workerVars, faults>>

\* transition_backup_generation: an expired generation is deleted and retired;
\* the current one has to be replaced first.
RetireBackup(g) ==
    /\ gen[g] = "active"
    /\ current # g
    /\ gen' = [gen EXCEPT ![g] = "retired"]
    /\ UNCHANGED <<life, liveErased, itemVars, hold, contentVars, providerVars, early, carries,
                   current, obligation, workerVars, faults>>

-----------------------------------------------------------------------------
WorkerStep(w) ==
    \/ RequeueReleased(w)
    \/ \E i \in Items : ClaimHeld(w, i) \/ Claim(w, i)
    \/ LostLease(w)
    \/ Process(w)
    \/ BeginCall(w) \/ Call(w) \/ FinishCall(w)
    \/ RecordFailure(w)
    \/ Reconcile(w)
    \/ EndPass(w)

Next ==
    \/ Confirm
    \/ \E x \in Resources : CreateHold(x) \/ ReleaseHold(x)
    \/ \E w \in Workers : WorkerStep(w) \/ Crash(w)
    \/ \E d \in Docs : ConsumeTombstone(d) \/ TombstoneDies(d) \/ RetryTombstone(d)
    \/ \E g \in Gens : CaptureBackup(g) \/ RegisterBackup(g) \/ RetireBackup(g)

Spec == Init /\ [][Next]_vars

\* The scheduling the code gives: workers poll for ever in passes of bounded
\* length (limit); a due local item is
\* claimed before the backup items, which are put off until their generation
\* expires; the projection worker drains its tombstones; an expired generation
\* that is not current is retired.
Fairness ==
    /\ \A w \in Workers : WF_vars(WorkerStep(w)) /\ SF_vars(EndPass(w))
    /\ SF_vars(\E w \in Workers, i \in LocalItems : ClaimHeld(w, i) \/ Claim(w, i))
    /\ \A d \in Docs : WF_vars(ConsumeTombstone(d))
    /\ \A g \in Gens : WF_vars(RetireBackup(g))

FairSpec == Spec /\ Fairness

-----------------------------------------------------------------------------
(* Properties *)

\* live_erased_at is a claim about the live system: when _reconcile sets it, no
\* row, file, search task, provider identity or provider ciphertext is left, in
\* whatever order workers, retries, crashes and released holds got there.
LiveErasedIsClean ==
    liveErased =>
        /\ rows = {} /\ files = {}
        /\ \A d \in Docs : tombstone[d] = "none"
        /\ ~sessions /\ ~user /\ ~cipher

\* A step keeps the row and the file of what an active hold covers, a version
\* through its document too.
HeldSurvives ==
    \A x \in Resources, h \in Resources :
        hold[h] = "active" /\ h \in {x} \cup (IF x \in Vers THEN {DocOf[x]} ELSE {}) =>
            /\ x \in rows => x \in rows'
            /\ x \in files => x \in files'

\* Whatever an active hold covers no step destroys: not a claim made before the
\* hold, a retry, or a late reclaim.
HeldIsPreserved == [][HeldSurvives]_vars

\* The order of an erasure, whatever is retried, held or released: provider
\* sessions are revoked before anything of the account is destroyed; children
\* go before parents, a version before its document and a file before the row
\* that records its path; the encrypted subject, the only way to name the user
\* to the provider, goes when the provider has no sessions and no user left.
ErasureOrder ==
    /\ Confirmed /\ (~(Docs \cup Vers \subseteq rows) \/ files # Vers \/ ~user) => ~sessions
    /\ \A v \in Vers \cap rows : DocOf[v] \in rows
    /\ files \subseteq rows
    /\ Confirmed /\ ~cipher => ~sessions /\ ~user

\* An open erasure owes every active generation, whichever of capture,
\* confirmation and registration came first, and has an item waiting for it.
ActiveGenerationsAreOwed ==
    Open => \A g \in Gens : gen[g] = "active" =>
        /\ obligation[g] = "pending"
        /\ state[Item("backup", g)] \notin {"none", "completed"}

\* A confirmed erasure comes to rest, after each release of a hold again: held,
\* failed, or waiting only for backups.
Settles ==
    []<>(Confirmed => life \in {"held", "failed", "backup_expiry_pending", "fully_erased"})

\* No item stays held by a hold that has been released: again and again there is
\* none (_requeue_explicitly_released_retention_holds).
ReleaseIsNoticed ==
    []<>\A i \in RowItems \cup FileItems :
        ~(state[i] = "held" /\ heldBy[i] \in Resources /\ hold[heldBy[i]] = "released")
=============================================================================
