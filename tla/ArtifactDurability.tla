-------------------------- MODULE ArtifactDurability --------------------------
(***************************************************************************)
(* Writing the versions of one canonical document: immutable bytes in a    *)
(* file store, the authority graph (version row and idempotency receipt)   *)
(* in PostgreSQL, and the signed staging pair that ties the two together   *)
(* until the commit is known.                                              *)
(*                                                                         *)
(* There is one API process; calls on the file store do not suspend, so    *)
(* each is one step, and a crash may leave any prefix of its writes.  A    *)
(* commit whose acknowledgement is lost stays in doubt, with its locks,    *)
(* until the server resolves it.  The document is created with CreateKey   *)
(* and updated with the other keys; the fingerprint of a request is the    *)
(* version its If-Match names, 0 for the creation.  The readiness that     *)
(* reconciliation reports is not modelled.                                 *)
(***************************************************************************)
EXTENDS Naturals, FiniteSets

CONSTANTS
    Keys,           \* idempotency keys; each is one artifact intent
    CreateKey,      \* the key of the creating request
    Requests,       \* request slots of the API process
    None,
    MaxVersion,     \* bound: versions of the document
    ScanLimit,      \* ARTIFACT_SCAN_LIMIT: directory entries one scan may count
    MaxStages,      \* bound: fresh stagings
    MaxFaults       \* bound: crashes, cancellations, failures and lost answers

Versions == 1..MaxVersion
Payloads == Keys \X (1..MaxStages)      \* rendered bytes: they carry a timestamp
Descriptors == [ver: Versions, base: 0..MaxVersion, payload: Payloads]
Verdicts == {"committed", "absent", "uncertain"}
IdempotencyRecords == [ver: Versions, base: 0..MaxVersion]
RequestStates == [key: Keys, base: 0..MaxVersion, seen: 0..MaxVersion]
Listings == [key: Keys, desc: Descriptors]
ScanEntries == [key: Keys, desc: Descriptors, verdict: Verdicts]

ASSUME ConstantsAssumption ==
    /\ CreateKey \in Keys
    /\ None \notin Payloads \cup Descriptors \cup IdempotencyRecords \cup RequestStates \cup ScanEntries
    /\ MaxVersion \in Nat \ {0} /\ MaxStages \in Nat /\ ScanLimit \in Nat /\ MaxFaults \in Nat

VARIABLES
    current,    \* Document.current_version, 0 without a document
    rows,       \* the DocumentVersion rows, by their digest
    receipt,    \* the IdempotencyRecord of each key
    file,       \* the canonical file of each version
    stage,      \* the staging directory of each key: its descriptor
    whole,      \* keys whose staging has its descriptor file, not just the payload
    torn,       \* keys whose descriptor file was cut short by a crash
    empty,      \* keys whose payload file was created and not written
    dirs,       \* keys whose intent directory exists
    aged,       \* keys whose staging is older than ARTIFACT_STAGE_GRACE_NS
    staged,     \* how many stagings there have been
    doubt,      \* the transaction of each key that the server has not resolved
    pc, req,    \* where each request is, its key, fingerprint and the version it read
    desc,       \* the descriptor a request works with
    verdict,    \* what a request's classification found
    listed,     \* what the running pass of the reconciler has still to look at
    scan,       \* the reconciler's entry: key, descriptor and verdict
    answered,   \* keys whose client was told of success
    faults

dbVars == <<current, rows, receipt, doubt>>
dirVars == <<torn, empty, dirs>>
storeVars == <<file, stage, whole, dirVars, aged, staged>>
requestVars == <<pc, req, desc, verdict>>
passVars == <<listed, scan>>
vars == <<dbVars, storeVars, requestVars, passVars, answered, faults>>

PCs == {"idle", "admitted", "locked", "gated", "staged", "failed", "classified", "committed"}

\* Every variable holds what its row, file or request state may hold.
TypeOK ==
    /\ current \in 0..MaxVersion
    /\ rows \in [Versions -> Payloads \cup {None}]
    /\ receipt \in [Keys -> IdempotencyRecords \cup {None}]
    /\ file \in [Versions -> Payloads \cup {None}]
    /\ stage \in [Keys -> Descriptors \cup {None}]
    /\ whole \subseteq Keys /\ aged \subseteq Keys
    /\ torn \subseteq Keys /\ empty \subseteq Keys /\ dirs \subseteq Keys
    /\ staged \in 0..MaxStages
    /\ doubt \in [Keys -> Descriptors \cup {None}]
    /\ pc \in [Requests -> PCs]
    /\ req \in [Requests -> RequestStates \cup {None}]
    /\ desc \in [Requests -> Descriptors \cup {None}]
    /\ verdict \in [Requests -> Verdicts \cup {None}]
    /\ listed \subseteq Listings
    /\ scan \in ScanEntries \cup {None}
    /\ answered \subseteq Keys
    /\ faults \in 0..MaxFaults

Init ==
    /\ current = 0
    /\ rows = [v \in Versions |-> None]
    /\ receipt = [k \in Keys |-> None]
    /\ file = [v \in Versions |-> None]
    /\ stage = [k \in Keys |-> None]
    /\ whole = {} /\ aged = {}
    /\ torn = {} /\ empty = {} /\ dirs = {}
    /\ staged = 0
    /\ doubt = [k \in Keys |-> None]
    /\ pc = [r \in Requests |-> "idle"]
    /\ req = [r \in Requests |-> None]
    /\ desc = [r \in Requests |-> None]
    /\ verdict = [r \in Requests |-> None]
    /\ listed = {}
    /\ scan = None
    /\ answered = {}
    /\ faults = 0

Fault == faults < MaxFaults /\ faults' = faults + 1

Key(r) == req[r].key
Base(r) == req[r].base
Seen(r) == req[r].seen
Goto(r, to) == pc' = [pc EXCEPT ![r] = to]

\* The request is over; its session and its gate are released.
Done(r) ==
    /\ pc' = [pc EXCEPT ![r] = "idle"]
    /\ req' = [req EXCEPT ![r] = None]
    /\ desc' = [desc EXCEPT ![r] = None]
    /\ verdict' = [verdict EXCEPT ![r] = None]

-----------------------------------------------------------------------------
(* Locks *)

\* SELECT ... FOR UPDATE of the document: held to the end of the transaction.
DocumentLocked ==
    \/ \E r \in Requests : pc[r] \in {"locked", "gated", "staged"} /\ Key(r) # CreateKey
    \/ \E k \in Keys \ {CreateKey} : doubt[k] # None

\* The in-process gate of an intent.
GateHeld(k) ==
    \/ \E r \in Requests : pc[r] \in {"gated", "staged", "failed", "classified"} /\ Key(r) = k
    \/ scan # None /\ scan.key = k

NoIntentLock(k) == TRUE     \* mutant: classification does not wait for the transaction

\* acquire_artifact_intent_lock: an unresolved transaction still has it.
IntentFree(k) == doubt[k] = None

-----------------------------------------------------------------------------
(* A request *)

\* idempotency_replay finds a receipt: success again, or a conflicting use.
Replayed(k, b) ==
    answered' = IF receipt[k].base = b THEN answered \cup {k} ELSE answered

\* _create_document_write and _update_document_write up to the service call.  The
\* update reads the document here, and the session keeps what it read.
Admit(r, k, b) ==
    /\ pc[r] = "idle"
    /\ IF k = CreateKey THEN b = 0 ELSE b \in Versions /\ rows[b] # None
    /\ IF receipt[k] = None
       THEN /\ pc' = [pc EXCEPT ![r] = "admitted"]
            /\ req' = [req EXCEPT ![r] = [key |-> k, base |-> b, seen |-> current]]
            /\ UNCHANGED answered
       ELSE Replayed(k, b) /\ UNCHANGED <<pc, req>>
    /\ UNCHANGED <<dbVars, storeVars, desc, verdict, passVars, faults>>

\* The version a write makes.
NextVersion(r) == Seen(r) + 1

\* DocumentService.update: lock the document, then If-Match.  The locked row is
\* the object read before the lock, with the version it had then.  A failed
\* precondition answers a receipt that has appeared meanwhile.
LockDocument(r) ==
    /\ pc[r] = "admitted" /\ Key(r) # CreateKey
    /\ ~DocumentLocked
    /\ IF Base(r) = Seen(r)
       THEN /\ Seen(r) < MaxVersion
            /\ Goto(r, "locked")
            /\ UNCHANGED <<req, desc, verdict, answered>>
       ELSE /\ IF receipt[Key(r)] # None THEN Replayed(Key(r), Base(r)) ELSE UNCHANGED answered
            /\ Done(r)
    /\ UNCHANGED <<dbVars, storeVars, passVars, faults>>

\* The gate, then the advisory lock.  The creation looks for its receipt again.
EnterGate(r) ==
    /\ pc[r] \in {"admitted", "locked"}
    /\ pc[r] = "admitted" <=> Key(r) = CreateKey
    /\ ~GateHeld(Key(r))
    /\ IntentFree(Key(r))
    /\ IF Key(r) = CreateKey /\ receipt[CreateKey] # None
       THEN Replayed(CreateKey, Base(r)) /\ Done(r)
       ELSE Goto(r, "gated") /\ UNCHANGED <<req, desc, verdict, answered>>
    /\ UNCHANGED <<dbVars, storeVars, passVars, faults>>

\* A payload and descriptor for the request's version, not staged before.
Fresh(r) ==
    [ver |-> NextVersion(r), base |-> Base(r), payload |-> <<Key(r), staged + 1>>]

\* The staging of this key can be taken up by the request.
Reusable(r) ==
    LET k == Key(r) IN
    k \in whole /\ stage[k].ver = NextVersion(r) /\ stage[k].base = Base(r)

\* promote_staged_artifact: link without overwriting, then verify the bytes.
Promotable(d) == file[d.ver] \in {None, d.payload}

\* scan_staged_artifacts: the stagings with a descriptor, and without, and how
\* many directories and files there are to count.
Pairs == {k \in whole : stage[k] # None}
IncompletePayloads == {k \in Keys \ (whole \cup torn) : stage[k] # None}
Entries ==
    Cardinality(dirs) + 2 * Cardinality(Pairs \cup torn) + Cardinality(IncompletePayloads)

Overbound == Entries > ScanLimit

\* The staging of a key with or without its descriptor file, in its directory.
Staging(k, d, complete) ==
    /\ stage' = [stage EXCEPT ![k] = d]
    /\ whole' = IF complete THEN whole \cup {k} ELSE whole \ {k}
    /\ aged' = aged \ {k}
    /\ dirs' = dirs \cup {k}

\* stage_artifact: scan, take up the exact staging of an earlier try or write a
\* new pair, then promote.  More entries than the scan may count, or anything
\* else in the directory, is an error, and a pair that cannot be promoted stays.
Stage(r) ==
    LET k == Key(r)
        d == IF stage[k] = None THEN Fresh(r) ELSE stage[k]
    IN /\ pc[r] = "gated"
       /\ IF stage[k] = None /\ ~Overbound
          THEN /\ staged < MaxStages
               /\ Staging(k, d, TRUE)
               /\ staged' = staged + 1
          ELSE UNCHANGED <<stage, whole, aged, dirs, staged>>
       /\ IF ~Overbound /\ (stage[k] = None \/ Reusable(r)) /\ Promotable(d)
          THEN /\ file' = [file EXCEPT ![d.ver] = d.payload]
               /\ desc' = [desc EXCEPT ![r] = d]
               /\ Goto(r, "staged")
               /\ UNCHANGED <<req, verdict>>
          ELSE Done(r) /\ UNCHANGED file
       /\ UNCHANGED <<dbVars, torn, empty, passVars, answered, faults>>

\* The request fails or is cancelled with nothing staged: a payload written
\* without its descriptor is removed again, its directory is not.
Abandon(r) ==
    /\ pc[r] \in {"admitted", "locked", "gated"}
    /\ Fault
    /\ \/ UNCHANGED dirs
       \/ pc[r] = "gated" /\ dirs' = dirs \cup {Key(r)}
    /\ Done(r)
    /\ UNCHANGED <<dbVars, file, stage, whole, torn, empty, aged, staged, passVars, answered>>

\* mutant: the receipt is not part of the transaction
CommittedWithoutReceipt(k, d) ==
    /\ current' = d.ver
    /\ rows' = [rows EXCEPT ![d.ver] = d.payload]
    /\ UNCHANGED receipt

\* What a committed transaction leaves in the database.
Committed(k, d) ==
    /\ current' = d.ver
    /\ rows' = [rows EXCEPT ![d.ver] = d.payload]
    /\ receipt' = [receipt EXCEPT ![k] = [ver |-> d.ver, base |-> d.base]]

\* The rows a commit adds are unique: the receipt by its key, the version by its number.
Insertable(r) == receipt[Key(r)] = None /\ rows[desc[r].ver] = None

\* The commit is acknowledged, or refused because a row of it exists.
Commit(r) ==
    /\ pc[r] = "staged"
    /\ IF Insertable(r)
       THEN Committed(Key(r), desc[r]) /\ Goto(r, "committed")
       ELSE Goto(r, "failed") /\ UNCHANGED <<current, rows, receipt>>
    /\ UNCHANGED <<doubt, storeVars, req, desc, verdict, passVars, answered, faults>>

\* The transaction fails before its commit, or the commit's answer is lost.
CommitFails(r) ==
    /\ pc[r] = "staged"
    /\ Fault
    /\ \/ UNCHANGED doubt
       \/ Insertable(r) /\ doubt' = [doubt EXCEPT ![Key(r)] = desc[r]]
    /\ Goto(r, "failed")
    /\ UNCHANGED <<current, rows, receipt, storeVars, req, desc, verdict, passVars, answered>>

\* CancelledError: nothing more is reconciled or retired, the staging stays.
Cancelled(r) ==
    /\ pc[r] \in {"staged", "failed", "classified", "committed"}
    /\ Fault
    /\ \/ UNCHANGED doubt
       \/ /\ pc[r] = "staged" /\ Insertable(r)
          /\ doubt' = [doubt EXCEPT ![Key(r)] = desc[r]]
    /\ Done(r)
    /\ UNCHANGED <<current, rows, receipt, storeVars, passVars, answered>>

\* The server ends a transaction in doubt.
Resolve(k) ==
    /\ doubt[k] # None
    /\ doubt' = [doubt EXCEPT ![k] = None]
    /\ Committed(k, doubt[k]) \/ UNCHANGED <<current, rows, receipt>>
    /\ UNCHANGED <<storeVars, requestVars, passVars, answered, faults>>

-----------------------------------------------------------------------------
(* Reconciliation *)

Receipts(d) == {k \in Keys : receipt[k] = [ver |-> d.ver, base |-> d.base]}

\* mutant: the version after the staged one is expected to be missing
AbsentLater(k, d) ==
    /\ rows[d.ver] = None /\ Receipts(d) = {}
    /\ IF k = CreateKey THEN current = 0 ELSE current = d.ver

\* Proven total absence: no row, no receipt, and the document is still where
\* the staged version would follow.
Absent(k, d) ==
    /\ rows[d.ver] = None /\ Receipts(d) = {}
    /\ IF k = CreateKey THEN current = 0 ELSE current + 1 = d.ver

\* classify_artifact_descriptor: only a complete match is committed.
Classification(k, d) ==
    IF Absent(k, d) THEN "absent"
    ELSE IF rows[d.ver] = d.payload /\ Receipts(d) = {k} /\ file[d.ver] = d.payload
    THEN "committed" ELSE "uncertain"

\* delete_verified_exact: only the staged bytes are deleted.
DeleteExact(d) == [file EXCEPT ![d.ver] = IF @ = d.payload THEN None ELSE @]

\* retire_staged_artifact of this descriptor's pair: the directory stays.
Retire(k, d) ==
    IF stage[k] = d
    THEN /\ stage' = [stage EXCEPT ![k] = None]
         /\ whole' = whole \ {k} /\ aged' = aged \ {k}
    ELSE UNCHANGED <<stage, whole, aged>>

\* reconcile_descriptor with the classification at hand.  Other bytes at the
\* path are an error, which keeps the staging.
Reconcile(k, d, v) ==
    /\ \/ /\ v = "committed"
          /\ Retire(k, d)
          /\ UNCHANGED file
       \/ /\ v = "absent"
          /\ file' = DeleteExact(d)
          /\ IF Promotable(d) THEN Retire(k, d) ELSE UNCHANGED <<stage, whole, aged>>
       \/ /\ v = "uncertain"
          /\ UNCHANGED <<file, stage, whole, aged>>
    /\ UNCHANGED <<dirVars, staged>>

\* A failed request classifies its own staging, gate still held.
Classify(r) ==
    /\ pc[r] = "failed"
    /\ IntentFree(Key(r))
    /\ \/ /\ verdict' = [verdict EXCEPT ![r] = Classification(Key(r), desc[r])]
          /\ UNCHANGED faults
       \/ verdict' = [verdict EXCEPT ![r] = "uncertain"] /\ Fault
    /\ Goto(r, "classified")
    /\ UNCHANGED <<dbVars, storeVars, req, desc, passVars, answered>>

\* _reconcile_failed_artifact acts on the verdict and the error is raised: the
\* client hears of a commit only when it repeats the request.
ReconcileFailure(r) ==
    /\ pc[r] = "classified"
    /\ Reconcile(Key(r), desc[r], verdict[r])
    /\ Done(r)
    /\ UNCHANGED <<dbVars, passVars, answered, faults>>

\* After the commit: retire the staging and answer.  The gate is already free.
RetireCommitted(r) ==
    /\ pc[r] = "committed"
    /\ Retire(Key(r), desc[r])
    /\ answered' = answered \cup {Key(r)}
    /\ Done(r)
    /\ UNCHANGED <<dbVars, file, dirVars, staged, passVars, faults>>

Age(k) ==
    /\ stage[k] # None /\ k \notin aged
    /\ aged' = aged \cup {k}
    /\ UNCHANGED <<dbVars, file, stage, whole, dirVars, staged, requestVars, passVars, answered,
                   faults>>

\* A pass can begin: the entries can be counted and every descriptor parsed.
Scannable == ~Overbound /\ torn = {}

\* run_once gives the whole pass up unless the scan is good, and otherwise works
\* through the payloads without descriptor and then the pairs it has listed.
\* An entry that is younger than its grace by then is passed over: it is left
\* out here, which only orders Age before the pass that sees it.
BeginPass ==
    /\ listed = {} /\ scan = None
    /\ Scannable
    /\ listed' = {[key |-> k, desc |-> stage[k]] :
                   k \in (Pairs \cup IncompletePayloads) \cap aged}
    /\ UNCHANGED <<dbVars, storeVars, requestVars, scan, answered, faults>>

\* The listed entry is still there.
Present(e) == stage[e.key] = e.desc

PassOver(e) ==
    /\ scan = None
    /\ e \in listed /\ ~Present(e)
    /\ listed' = listed \ {e}
    /\ UNCHANGED <<dbVars, storeVars, requestVars, scan, answered, faults>>

\* reconcile_descriptor of a listed pair, up to its verdict.
ScanPair(e) ==
    /\ scan = None
    /\ e \in listed /\ Present(e) /\ e.key \in Pairs
    /\ \A x \in listed : x.key \in Pairs
    /\ ~GateHeld(e.key) /\ IntentFree(e.key)
    /\ \/ /\ scan' = [key |-> e.key, desc |-> e.desc, verdict |-> Classification(e.key, e.desc)]
          /\ UNCHANGED faults
       \/ scan' = [key |-> e.key, desc |-> e.desc, verdict |-> "uncertain"] /\ Fault
    /\ listed' = listed \ {e}
    /\ UNCHANGED <<dbVars, storeVars, requestVars, answered>>

ScanReconcile ==
    /\ scan # None
    /\ Reconcile(scan.key, scan.desc, scan.verdict)
    /\ scan' = None
    /\ UNCHANGED <<dbVars, requestVars, listed, answered, faults>>

\* classify_incomplete_artifact_stage looks for the resource that has the
\* intent's id, which only a creation has.
NoResource(k) == k = CreateKey => current = 0 /\ receipt[k] = None

\* A payload without descriptor.  When the database fails it is passed over; an
\* empty payload cannot be retired, and that error ends the pass, as any failure
\* of the store does.
ScanIncomplete(e) ==
    /\ scan = None
    /\ e \in listed /\ Present(e) /\ e.key \in IncompletePayloads
    /\ ~GateHeld(e.key) /\ IntentFree(e.key)
    /\ \/ /\ Fault
          /\ listed' \in {{}, listed \ {e}}
          /\ UNCHANGED <<stage, whole, aged>>
       \/ /\ NoResource(e.key)
          /\ IF e.key \in empty
             THEN listed' = {} /\ UNCHANGED <<stage, whole, aged>>
             ELSE listed' = listed \ {e} /\ Retire(e.key, e.desc)
          /\ UNCHANGED faults
       \/ /\ ~NoResource(e.key)
          /\ listed' = listed \ {e}
          /\ UNCHANGED <<stage, whole, aged, faults>>
    /\ UNCHANGED <<dbVars, file, dirVars, staged, requestVars, scan, answered>>

-----------------------------------------------------------------------------
(* Crashes *)

\* The process is gone; a transaction that was committing may be in doubt.
Die ==
    /\ pc' = [r \in Requests |-> "idle"]
    /\ req' = [r \in Requests |-> None]
    /\ desc' = [r \in Requests |-> None]
    /\ verdict' = [r \in Requests |-> None]
    /\ listed' = {}
    /\ scan' = None
    /\ \E S \in SUBSET {r \in Requests : pc[r] = "staged" /\ receipt[Key(r)] = None} :
        doubt' = [k \in Keys |->
            IF \E r \in S : Key(r) = k THEN desc[CHOOSE r \in S : Key(r) = k] ELSE doubt[k]]
    /\ UNCHANGED <<current, rows, receipt, answered>>

Crash ==
    /\ Fault /\ Die
    /\ UNCHANGED storeVars

\* Inside stage_artifact: the payload file is created, or written, the descriptor
\* file is created and not written to its end, or the pair is not promoted.
CrashInStage(r) ==
    LET k == Key(r) IN
    /\ pc[r] = "gated" /\ stage[k] = None /\ staged < MaxStages /\ ~Overbound
    /\ Fault /\ Die
    /\ \E end \in {"empty", "payload", "torn", "pair"} :
        /\ Staging(k, Fresh(r), end = "pair")
        /\ empty' = IF end = "empty" THEN empty \cup {k} ELSE empty
        /\ torn' = IF end = "torn" THEN torn \cup {k} ELSE torn
    /\ staged' = staged + 1
    /\ UNCHANGED file

\* mutant: the staging goes first
RetireFirst(k, d, v) ==
    Retire(k, d) /\ UNCHANGED file

\* What a crash may leave of reconcile_descriptor's writes: bytes deleted and
\* the pair there, or the descriptor file gone as well and the payload there.
Partial(k, d, v) ==
    /\ v \in {"committed", "absent"} /\ (v = "absent" => Promotable(d))
    /\ file' = IF v = "absent" THEN DeleteExact(d) ELSE file
    /\ \/ UNCHANGED whole
       \/ whole' = IF stage[k] = d THEN whole \ {k} ELSE whole
    /\ UNCHANGED <<stage, aged>>

CrashInReconcile ==
    /\ Fault /\ Die
    /\ \/ \E r \in Requests : pc[r] = "classified" /\ Partial(Key(r), desc[r], verdict[r])
       \/ \E r \in Requests : pc[r] = "committed" /\ Partial(Key(r), desc[r], "committed")
       \/ scan # None /\ Partial(scan.key, scan.desc, scan.verdict)
    /\ UNCHANGED <<dirVars, staged>>

RequestStep(r) ==
    \/ LockDocument(r) \/ EnterGate(r) \/ Stage(r)
    \/ Commit(r) \/ Classify(r) \/ ReconcileFailure(r) \/ RetireCommitted(r)

PassStep(e) == PassOver(e) \/ ScanPair(e) \/ ScanIncomplete(e)

Next ==
    \/ \E r \in Requests, k \in Keys, b \in 0..MaxVersion : Admit(r, k, b)
    \/ \E r \in Requests : RequestStep(r) \/ Abandon(r) \/ CommitFails(r) \/ Cancelled(r) \/ CrashInStage(r)
    \/ \E k \in Keys : Resolve(k) \/ Age(k)
    \/ BeginPass \/ \E e \in listed : PassStep(e)
    \/ ScanReconcile \/ Crash \/ CrashInReconcile

Spec == Init /\ [][Next]_vars

\* Requests proceed, the server resolves what is in doubt, time passes and
\* run_forever begins a pass every minute.  A pass that waits for the gate of an
\* intent, a FIFO lock, gets it.
Fairness ==
    /\ \A r \in Requests : WF_vars(RequestStep(r))
    /\ \A k \in Keys : WF_vars(Resolve(k)) /\ WF_vars(Age(k))
    /\ WF_vars(BeginPass) /\ SF_vars(\E e \in listed : PassStep(e)) /\ WF_vars(ScanReconcile)

FairSpec == Spec /\ Fairness

-----------------------------------------------------------------------------
(* Properties *)

\* A committed version always has exactly its bytes: no rollback, no stale
\* verdict of the reconciler and no other key's write removes or replaces them.
CommittedIsReadable ==
    \A v \in Versions : rows[v] # None => file[v] = rows[v]

\* Bytes without a row are never unowned: a complete staging names them, so the
\* reconciler can find them after any crash.
StrayIsStaged ==
    \A v \in Versions : file[v] # None /\ rows[v] = None =>
        \E k \in whole : stage[k] # None /\ stage[k].ver = v /\ stage[k].payload = file[v]

\* A client that was told of success finds its own version, and only one.
AnswerIsDurable ==
    \A k \in answered :
        /\ receipt[k] # None
        /\ {v \in Versions : rows[v] # None /\ rows[v][1] = k} = {receipt[k].ver}

\* Bytes without a row block every other write of that version; they are committed
\* after all or removed, as long as the reconciler can scan: the staging root is
\* within ScanLimit, and no crash has left a descriptor or payload that ends every
\* pass (run_once).
StrayIsResolved ==
    \A v \in Versions :
        (file[v] # None /\ rows[v] = None) /\ [](Scannable /\ empty = {})
            ~> (file[v] = None \/ rows[v] # None)
=============================================================================
