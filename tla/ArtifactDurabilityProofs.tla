---------------------- MODULE ArtifactDurabilityProofs ----------------------
(***************************************************************************)
(* Safety of the artifact store for any number of keys, requests, versions *)
(* and stagings, with any number of crashes.  The bytes of a payload name  *)
(* the intent that staged it; of an intent at most one request or the      *)
(* reconciler is at work, and none while its transaction is in doubt.      *)
(* What a classification has found therefore stays true until it is acted  *)
(* upon, without the lock of the document.                                 *)
(***************************************************************************)
EXTENDS ArtifactDurability, TLAPS

InGate(r) == pc[r] \in {"gated", "staged", "failed", "classified"}
HasDescriptor(r) == pc[r] \in {"staged", "failed", "classified", "committed"}

\* A request knows its key; what it staged, what is on disk, in doubt or being
\* reconciled for a key was rendered for that key.
Owned ==
    /\ \A r \in Requests : pc[r] # "idle" => req[r] # None
    /\ \A r \in Requests : HasDescriptor(r) => desc[r] # None /\ desc[r].payload[1] = Key(r)
    /\ \A k \in Keys : stage[k] # None => stage[k].payload[1] = k
    /\ \A k \in Keys : doubt[k] # None => doubt[k].payload[1] = k
    /\ scan # None => scan.desc.payload[1] = scan.key

\* Nothing is written before the creation, which is the first version.
CreatedFirst ==
    /\ receipt[CreateKey] = None =>
        /\ current = 0 /\ \A v \in Versions : rows[v] = None
        /\ \A r \in Requests : pc[r] # "idle" => Key(r) = CreateKey
        /\ \A k \in Keys \ {CreateKey} : doubt[k] = None
    /\ \A r \in Requests : pc[r] # "idle" /\ Key(r) = CreateKey => Seen(r) = 0
    /\ \A r \in Requests : pc[r] \in {"locked", "gated"} => Seen(r) < MaxVersion

\* The gate of an intent has one holder, and what is in doubt is left alone.
OneHolder ==
    /\ \A r, s \in Requests : InGate(r) /\ InGate(s) /\ Key(r) = Key(s) => r = s
    /\ \A r \in Requests : InGate(r) /\ scan # None => Key(r) # scan.key
    /\ \A r \in Requests : pc[r] \in {"gated", "staged", "classified"} => doubt[Key(r)] = None
    /\ scan # None => doubt[scan.key] = None

\* Bytes that may yet be committed are in place.
Promoted ==
    /\ \A r \in Requests : pc[r] = "staged" => file[desc[r].ver] = desc[r].payload
    /\ \A k \in Keys : doubt[k] # None =>
        /\ file[doubt[k].ver] = doubt[k].payload
        /\ receipt[k] = None /\ rows[doubt[k].ver] = None

Stands(d, v) ==
    /\ v = "absent" => rows[d.ver] # d.payload
    /\ v = "committed" => rows[d.ver] # None

\* A verdict is still true when it is acted upon.
VerdictStands ==
    /\ \A r \in Requests : pc[r] = "classified" => Stands(desc[r], verdict[r])
    /\ scan # None => Stands(scan.desc, scan.verdict)
    /\ \A r \in Requests : pc[r] = "committed" =>
        rows[desc[r].ver] # None /\ receipt[Key(r)] # None

\* A key has a receipt exactly when it has a version, the one the receipt names.
OneVersion ==
    \A k \in Keys :
        {v \in Versions : rows[v] # None /\ rows[v][1] = k} =
            IF receipt[k] = None THEN {} ELSE {receipt[k].ver}

Answered == \A k \in answered : receipt[k] # None

Inductive ==
    /\ TypeOK
    /\ Owned
    /\ CreatedFirst
    /\ OneHolder
    /\ Promoted
    /\ VerdictStands
    /\ OneVersion
    /\ Answered
    /\ CommittedIsReadable
    /\ StrayIsStaged
-----------------------------------------------------------------------------
(* Requests *)

RequestTypes ==
    /\ pc \in [Requests -> PCs]
    /\ req \in [Requests -> RequestStates \cup {None}]
    /\ desc \in [Requests -> Descriptors \cup {None}]
    /\ verdict \in [Requests -> Verdicts \cup {None}]

Same(s) == pc'[s] = pc[s] /\ req'[s] = req[s] /\ desc'[s] = desc[s] /\ verdict'[s] = verdict[s]
Quiet(s) == pc'[s] = "idle" \/ Same(s)

\* What is known of a request that a step takes on.
IsAdmitted(r) ==
    /\ pc'[r] = "admitted" /\ req'[r] # None
    /\ req'[r].key = CreateKey => req'[r].seen = 0
    /\ receipt[CreateKey] = None => req'[r].key = CreateKey
IsLocked(r) ==
    pc[r] = "admitted" /\ pc'[r] = "locked" /\ req'[r] = req[r] /\ Seen(r) < MaxVersion
IsGated(r) ==
    /\ pc[r] \in {"admitted", "locked"} /\ pc'[r] = "gated" /\ req'[r] = req[r]
    /\ Seen(r) < MaxVersion
    /\ ~GateHeld(Key(r)) /\ doubt[Key(r)] = None /\ UNCHANGED <<doubt, scan>>
IsStaged(r) ==
    /\ pc[r] = "gated" /\ pc'[r] = "staged" /\ req'[r] = req[r]
    /\ desc'[r] # None /\ desc'[r].payload[1] = Key(r)
    /\ file'[desc'[r].ver] = desc'[r].payload
    /\ UNCHANGED <<doubt, scan>>
IsFailed(r) ==
    pc[r] = "staged" /\ pc'[r] = "failed" /\ req'[r] = req[r] /\ desc'[r] = desc[r]
IsCommitted(r) ==
    /\ pc[r] = "staged" /\ pc'[r] = "committed" /\ req'[r] = req[r] /\ desc'[r] = desc[r]
    /\ rows'[desc[r].ver] # None /\ receipt'[Key(r)] # None
IsClassified(r) ==
    /\ pc[r] = "failed" /\ pc'[r] = "classified" /\ req'[r] = req[r] /\ desc'[r] = desc[r]
    /\ doubt[Key(r)] = None /\ UNCHANGED <<doubt, rows>>
    /\ Stands(desc[r], verdict'[r])

Moved(r) ==
    \/ IsAdmitted(r) \/ IsLocked(r) \/ IsGated(r) \/ IsStaged(r)
    \/ IsFailed(r) \/ IsCommitted(r) \/ IsClassified(r)

\* One request at most goes on; the others stay where they are or are over.
Progress ==
    /\ RequestTypes'
    /\ \/ \A s \in Requests : Quiet(s)
       \/ \E r \in Requests : Moved(r) /\ \A s \in Requests \ {r} : Same(s)

LEMMA DoneProgress ==
    ASSUME TypeOK, NEW r \in Requests, Done(r)
    PROVE  Progress
<1>1. RequestTypes'
    BY DEF TypeOK, RequestTypes, Done, PCs
<1>2. \A s \in Requests : Quiet(s)
    BY DEF TypeOK, Done, Quiet, Same
<1> QED
    BY <1>1, <1>2 DEF Progress

LEMMA DieProgress ==
    ASSUME TypeOK, Die
    PROVE  Progress
<1>1. RequestTypes'
    BY DEF RequestTypes, Die, PCs
<1>2. \A s \in Requests : Quiet(s)
    BY DEF Die, Quiet
<1> QED
    BY <1>1, <1>2 DEF Progress

LEMMA SameProgress ==
    ASSUME TypeOK, UNCHANGED requestVars
    PROVE  Progress
BY DEF TypeOK, requestVars, RequestTypes, Progress, Quiet, Same

\* Only the place of a request changes.
LEMMA GotoWrites ==
    ASSUME TypeOK, NEW r \in Requests, NEW to \in PCs, Goto(r, to), UNCHANGED <<req, desc, verdict>>
    PROVE  /\ RequestTypes'
           /\ pc'[r] = to /\ req'[r] = req[r] /\ desc'[r] = desc[r] /\ verdict'[r] = verdict[r]
           /\ \A s \in Requests \ {r} : Same(s)
BY DEF TypeOK, RequestTypes, Goto, Same

LEMMA RequestTyped ==
    ASSUME TypeOK, Owned, NEW r \in Requests, pc[r] # "idle"
    PROVE  Key(r) \in Keys /\ Base(r) \in 0..MaxVersion /\ Seen(r) \in 0..MaxVersion
<1>1. req[r] \in RequestStates
    BY DEF TypeOK, Owned
<1> QED
    BY <1>1 DEF RequestStates, Key, Base, Seen

LEMMA DescriptorTyped ==
    ASSUME TypeOK, Owned, NEW r \in Requests, HasDescriptor(r)
    PROVE  /\ desc[r] \in Descriptors /\ desc[r].ver \in Versions /\ desc[r].payload \in Payloads
           /\ desc[r].base \in 0..MaxVersion
           /\ Key(r) \in Keys /\ desc[r].payload[1] = Key(r)
<1>1. desc[r] \in Descriptors /\ desc[r].payload[1] = Key(r)
    BY DEF TypeOK, Owned
<1>2. Key(r) \in Keys
    BY RequestTyped DEF HasDescriptor
<1> QED
    BY <1>1, <1>2 DEF Descriptors

\* A classification says what the rows say.
LEMMA ClassificationStands ==
    ASSUME TypeOK, NEW k \in Keys, NEW d \in Descriptors
    PROVE  Stands(d, Classification(k, d)) /\ Classification(k, d) \in Verdicts
<1>1. d.ver \in Versions /\ d.payload \in Payloads
    BY DEF Descriptors
<1>2. d.payload # None
    BY <1>1, ConstantsAssumption DEF ConstantsAssumption
<1>3. Absent(k, d) => rows[d.ver] = None
    BY DEF Absent
<1> QED
    BY <1>2, <1>3 DEF Stands, Classification, Verdicts

LEMMA AdmitProgress ==
    ASSUME TypeOK, CreatedFirst, NEW r \in Requests, NEW k \in Keys, NEW b \in 0..MaxVersion, Admit(r, k, b)
    PROVE  Progress
<1>1. CASE receipt[k] = None
  <2> DEFINE q == [key |-> k, base |-> b, seen |-> current]
  <2>1. /\ pc' = [pc EXCEPT ![r] = "admitted"] /\ req' = [req EXCEPT ![r] = q]
        /\ UNCHANGED <<desc, verdict>>
        /\ IF k = CreateKey THEN b = 0 ELSE b \in Versions /\ rows[b] # None
    BY <1>1 DEF Admit
  <2>2. q \in RequestStates /\ q.key = k /\ q.seen = current
    BY DEF TypeOK, RequestStates
  <2> HIDE DEF q
  <2>3. RequestTypes'
    BY <2>1, <2>2 DEF TypeOK, RequestTypes, PCs
  <2>4. pc'[r] = "admitted" /\ req'[r] = q /\ q # None
    BY <2>1, <2>2, ConstantsAssumption DEF TypeOK, ConstantsAssumption
  <2>5. \A s \in Requests \ {r} : Same(s)
    BY <2>1 DEF TypeOK, Same
  <2>6. k = CreateKey => current = 0
    BY <1>1 DEF CreatedFirst
  <2>7. receipt[CreateKey] = None => k = CreateKey
    BY <2>1 DEF CreatedFirst
  <2>8. IsAdmitted(r)
    BY <2>2, <2>4, <2>6, <2>7 DEF IsAdmitted
  <2> QED
    BY <2>3, <2>5, <2>8 DEF Progress, Moved
<1>2. CASE receipt[k] # None
    BY <1>2, SameProgress DEF Admit, requestVars
<1> QED
    BY <1>1, <1>2

LEMMA LockProgress ==
    ASSUME TypeOK, NEW r \in Requests, LockDocument(r)
    PROVE  Progress
<1>1. CASE Base(r) = Seen(r)
  <2>1. pc[r] = "admitted" /\ Goto(r, "locked") /\ UNCHANGED <<req, desc, verdict>> /\ Seen(r) < MaxVersion
    BY <1>1 DEF LockDocument
  <2> QED
    BY <2>1, GotoWrites DEF Progress, Moved, IsLocked, PCs
<1>2. CASE Base(r) # Seen(r)
    BY <1>2, DoneProgress DEF LockDocument
<1> QED
    BY <1>1, <1>2

LEMMA EnterProgress ==
    ASSUME TypeOK, Owned, CreatedFirst, NEW r \in Requests, EnterGate(r)
    PROVE  Progress
<1>1. CASE Key(r) = CreateKey /\ receipt[CreateKey] # None
    BY <1>1, DoneProgress DEF EnterGate
<1>2. CASE ~(Key(r) = CreateKey /\ receipt[CreateKey] # None)
  <2>1. /\ pc[r] \in {"admitted", "locked"} /\ (pc[r] = "admitted" <=> Key(r) = CreateKey)
        /\ ~GateHeld(Key(r)) /\ doubt[Key(r)] = None /\ UNCHANGED <<doubt, scan>>
        /\ Goto(r, "gated") /\ UNCHANGED <<req, desc, verdict>>
    BY <1>2 DEF EnterGate, IntentFree, dbVars, passVars
  <2>2. Seen(r) < MaxVersion
    BY <2>1, ConstantsAssumption DEF CreatedFirst, ConstantsAssumption
  <2>3. /\ RequestTypes' /\ pc'[r] = "gated" /\ req'[r] = req[r]
        /\ \A s \in Requests \ {r} : Same(s)
    BY <2>1, GotoWrites DEF PCs
  <2>4. IsGated(r)
    BY <2>1, <2>2, <2>3 DEF IsGated
  <2> QED
    BY <2>3, <2>4 DEF Progress, Moved
<1> QED
    BY <1>1, <1>2

\* The descriptor a gated request works with belongs to its key.
LEMMA WorkingDescriptor ==
    ASSUME TypeOK, Owned, CreatedFirst, NEW r \in Requests, pc[r] = "gated"
    PROVE  /\ Key(r) \in Keys
           /\ staged < MaxStages =>
                Fresh(r) \in Descriptors /\ Fresh(r).payload[1] = Key(r) /\ Fresh(r) # None
           /\ stage[Key(r)] # None =>
                stage[Key(r)] \in Descriptors /\ stage[Key(r)].payload[1] = Key(r)
<1> USE ConstantsAssumption DEF ConstantsAssumption
<1>1. Key(r) \in Keys /\ Base(r) \in 0..MaxVersion /\ Seen(r) \in 0..MaxVersion
    BY RequestTyped
<1>2. Seen(r) + 1 \in Versions
    BY <1>1 DEF CreatedFirst, Versions
<1>3. staged < MaxStages => <<Key(r), staged + 1>> \in Payloads
    BY <1>1 DEF TypeOK, Payloads
<1>4. staged < MaxStages => Fresh(r) \in Descriptors /\ Fresh(r).payload[1] = Key(r)
    BY <1>1, <1>2, <1>3 DEF Fresh, NextVersion, Descriptors
<1> QED
    BY <1>1, <1>4 DEF TypeOK, Owned

LEMMA StageProgress ==
    ASSUME TypeOK, Owned, CreatedFirst, NEW r \in Requests, Stage(r)
    PROVE  Progress
<1> DEFINE k == Key(r)
           d == IF stage[k] = None THEN Fresh(r) ELSE stage[k]
<1>1. CASE ~Overbound /\ (stage[k] = None \/ Reusable(r)) /\ Promotable(d)
  <2>1. /\ pc[r] = "gated" /\ (stage[k] = None => staged < MaxStages)
        /\ file' = [file EXCEPT ![d.ver] = d.payload]
        /\ desc' = [desc EXCEPT ![r] = d]
        /\ pc' = [pc EXCEPT ![r] = "staged"] /\ UNCHANGED <<req, verdict, doubt, scan>>
    BY <1>1 DEF Stage, Goto, dbVars, passVars
  <2>2. d \in Descriptors /\ d.payload[1] = k
    BY <2>1, WorkingDescriptor
  <2> HIDE DEF d
  <2>3. d # None /\ d.ver \in Versions
    BY <2>2, ConstantsAssumption DEF ConstantsAssumption, Descriptors
  <2>4. RequestTypes' /\ \A s \in Requests \ {r} : Same(s)
    BY <2>1, <2>2 DEF TypeOK, RequestTypes, PCs, Same
  <2>5. pc'[r] = "staged" /\ req'[r] = req[r] /\ desc'[r] = d /\ file'[d.ver] = d.payload
    BY <2>1, <2>3 DEF TypeOK
  <2>6. IsStaged(r)
    BY <2>1, <2>2, <2>3, <2>5 DEF IsStaged
  <2> QED
    BY <2>4, <2>6 DEF Progress, Moved
<1>2. CASE ~(~Overbound /\ (stage[k] = None \/ Reusable(r)) /\ Promotable(d))
  <2>1. Done(r)
    BY <1>2 DEF Stage
  <2> QED
    BY <2>1, DoneProgress
<1> QED
    BY <1>1, <1>2

LEMMA CommitProgress ==
    ASSUME TypeOK, Owned, NEW r \in Requests, Commit(r)
    PROVE  Progress
<1>1. pc[r] = "staged" /\ UNCHANGED <<req, desc, verdict>>
    BY DEF Commit
<1>2. CASE Insertable(r)
  <2>1. Committed(Key(r), desc[r]) /\ Goto(r, "committed")
    BY <1>2 DEF Commit
  <2>2. /\ desc[r].ver \in Versions /\ desc[r].payload \in Payloads
        /\ desc[r].base \in 0..MaxVersion /\ Key(r) \in Keys
    BY <1>1, DescriptorTyped DEF HasDescriptor
  <2>3. rows'[desc[r].ver] # None
    BY <2>1, <2>2, ConstantsAssumption DEF Committed, TypeOK, ConstantsAssumption
  <2>4. receipt'[Key(r)] # None
    <3>1. [ver |-> desc[r].ver, base |-> desc[r].base] \in IdempotencyRecords
        BY <2>2 DEF IdempotencyRecords
    <3> QED
        BY <2>1, <2>2, <3>1, ConstantsAssumption DEF Committed, TypeOK, ConstantsAssumption
  <2> QED
    BY <1>1, <2>1, <2>3, <2>4, GotoWrites DEF Progress, Moved, IsCommitted, PCs
<1>3. CASE ~Insertable(r)
  <2>1. Goto(r, "failed")
    BY <1>3 DEF Commit
  <2> QED
    BY <1>1, <2>1, GotoWrites DEF Progress, Moved, IsFailed, PCs
<1> QED
    BY <1>2, <1>3

LEMMA ClassifyProgress ==
    ASSUME TypeOK, Owned, NEW r \in Requests, Classify(r)
    PROVE  Progress
<1>1. /\ pc[r] = "failed" /\ doubt[Key(r)] = None
      /\ pc' = [pc EXCEPT ![r] = "classified"] /\ UNCHANGED <<req, desc, doubt, rows>>
    BY DEF Classify, IntentFree, Goto, dbVars
<1>2. PICK v \in {Classification(Key(r), desc[r]), "uncertain"} : verdict' = [verdict EXCEPT ![r] = v]
    BY DEF Classify
<1>3. Stands(desc[r], v) /\ v \in Verdicts
    BY <1>1, DescriptorTyped, ClassificationStands DEF HasDescriptor, Stands, Verdicts
<1>4. /\ RequestTypes' /\ pc'[r] = "classified" /\ verdict'[r] = v
      /\ \A s \in Requests \ {r} : Same(s)
    BY <1>1, <1>2, <1>3 DEF TypeOK, RequestTypes, PCs, Same
<1>5. IsClassified(r)
    BY <1>1, <1>3, <1>4 DEF IsClassified
<1> QED
    BY <1>4, <1>5 DEF Progress, Moved

LEMMA NextProgress ==
    ASSUME TypeOK, Owned, CreatedFirst, [Next]_vars
    PROVE  Progress
<1>1. ASSUME NEW r \in Requests, RequestStep(r) PROVE Progress
  <2>1. CASE ReconcileFailure(r) \/ RetireCommitted(r)
    BY <2>1, DoneProgress DEF ReconcileFailure, RetireCommitted
  <2> QED
    BY <1>1, <2>1, LockProgress, EnterProgress, StageProgress, CommitProgress, ClassifyProgress
    DEF RequestStep
<1>2. ASSUME NEW r \in Requests, CommitFails(r) PROVE Progress
  <2>1. pc[r] = "staged" /\ Goto(r, "failed") /\ UNCHANGED <<req, desc, verdict>>
    BY <1>2 DEF CommitFails
  <2> QED
    BY <2>1, GotoWrites DEF Progress, Moved, IsFailed, PCs
<1>3. ASSUME NEW r \in Requests, Abandon(r) \/ Cancelled(r) PROVE Progress
    BY <1>3, DoneProgress DEF Abandon, Cancelled
<1>4. ASSUME NEW r \in Requests, CrashInStage(r) PROVE Progress
    BY <1>4, DieProgress DEF CrashInStage
<1>5. ASSUME Crash \/ CrashInReconcile PROVE Progress
    BY <1>5, DieProgress DEF Crash, CrashInReconcile
<1>6. ASSUME NEW k \in Keys, Resolve(k) \/ Age(k) PROVE Progress
    BY <1>6, SameProgress DEF Resolve, Age
<1>7. ASSUME ScanReconcile \/ BeginPass \/ UNCHANGED vars PROVE Progress
    BY <1>7, SameProgress DEF ScanReconcile, BeginPass, vars
<1>8. ASSUME NEW e \in listed, PassStep(e) PROVE Progress
    BY <1>8, SameProgress DEF PassStep, PassOver, ScanPair, ScanIncomplete
<1> QED
    BY <1>1, <1>2, <1>3, <1>4, <1>5, <1>6, <1>7, <1>8, AdmitProgress DEF Next

-----------------------------------------------------------------------------
(* The database *)

\* A transaction that commits is staged by its request or in doubt, its bytes
\* are in place and its rows are new.
Commits(k, d) ==
    /\ k \in Keys /\ d \in Descriptors /\ d.payload[1] = k
    /\ receipt[k] = None /\ rows[d.ver] = None
    /\ file[d.ver] = d.payload /\ file' = file
    /\ \/ \E r \in Requests : pc[r] = "staged" /\ Key(r) = k /\ desc[r] = d
       \/ doubt[k] = d /\ doubt'[k] = None
    /\ Committed(k, d)

Recorded == UNCHANGED <<current, rows, receipt>> \/ \E k \in Keys, d \in Descriptors : Commits(k, d)

LEMMA NextRecorded ==
    ASSUME TypeOK, Owned, Promoted, [Next]_vars
    PROVE  Recorded
<1>1. ASSUME NEW r \in Requests, Commit(r) PROVE Recorded
  <2>1. CASE Insertable(r)
    <3>1. pc[r] = "staged" /\ file' = file /\ Committed(Key(r), desc[r])
        BY <1>1, <2>1 DEF Commit, storeVars
    <3>2. desc[r] \in Descriptors /\ Key(r) \in Keys /\ desc[r].payload[1] = Key(r)
        BY <3>1, DescriptorTyped DEF HasDescriptor
    <3>3. Commits(Key(r), desc[r])
        BY <2>1, <3>1, <3>2 DEF Commits, Insertable, Promoted
    <3> QED
        BY <3>2, <3>3 DEF Recorded
  <2>2. CASE ~Insertable(r)
    BY <1>1, <2>2 DEF Commit, Recorded
  <2> QED
    BY <2>1, <2>2
<1>2. ASSUME NEW k \in Keys, Resolve(k) PROVE Recorded
  <2>1. CASE Committed(k, doubt[k])
    <3>1. doubt[k] \in Descriptors /\ doubt[k] # None /\ doubt[k].payload[1] = k
        BY <1>2 DEF Resolve, TypeOK, Owned
    <3>2. doubt'[k] = None /\ file' = file
        BY <1>2 DEF Resolve, TypeOK, storeVars
    <3>3. Commits(k, doubt[k])
        BY <2>1, <3>1, <3>2 DEF Commits, Promoted
    <3> QED
        BY <3>1, <3>3 DEF Recorded
  <2>2. CASE UNCHANGED <<current, rows, receipt>>
    BY <2>2 DEF Recorded
  <2> QED
    BY <1>2, <2>1, <2>2 DEF Resolve
<1>3. ASSUME NEW r \in Requests, RequestStep(r), ~Commit(r) PROVE Recorded
    BY <1>3 DEF RequestStep, LockDocument, EnterGate, Stage, Classify, ReconcileFailure,
       RetireCommitted, dbVars, Recorded
<1>4. ASSUME NEW r \in Requests, Abandon(r) \/ CommitFails(r) \/ Cancelled(r) \/ CrashInStage(r)
      PROVE  Recorded
    BY <1>4 DEF Abandon, CommitFails, Cancelled, CrashInStage, Die, dbVars, Recorded
<1>5. ASSUME NEW k \in Keys, Age(k) PROVE Recorded
    BY <1>5 DEF Age, dbVars, Recorded
<1>6. ASSUME ScanReconcile \/ BeginPass \/ Crash \/ CrashInReconcile \/ UNCHANGED vars PROVE Recorded
    BY <1>6 DEF ScanReconcile, BeginPass, Crash, CrashInReconcile, Die, vars, dbVars, Recorded
<1>8. ASSUME NEW e \in listed, PassStep(e) PROVE Recorded
    BY <1>8 DEF PassStep, PassOver, ScanPair, ScanIncomplete, dbVars, Recorded
<1>7. ASSUME NEW r \in Requests, NEW k \in Keys, NEW b \in 0..MaxVersion, Admit(r, k, b) PROVE Recorded
    BY <1>7 DEF Admit, dbVars, Recorded
<1> QED
    BY <1>1, <1>2, <1>3, <1>4, <1>5, <1>6, <1>7, <1>8 DEF Next

\* Rows and receipts are never removed or replaced.
LEMMA RecordedWrites ==
    ASSUME TypeOK, NEW k \in Keys, NEW d \in Descriptors, Commits(k, d)
    PROVE  /\ current' \in 0..MaxVersion
           /\ rows' \in [Versions -> Payloads \cup {None}]
           /\ receipt' \in [Keys -> IdempotencyRecords \cup {None}]
           /\ rows'[d.ver] = d.payload /\ d.payload # None
           /\ \A v \in Versions \ {d.ver} : rows'[v] = rows[v]
           /\ receipt'[k] # None /\ receipt'[k].ver = d.ver
           /\ \A l \in Keys \ {k} : receipt'[l] = receipt[l]
<1> DEFINE e == [ver |-> d.ver, base |-> d.base]
<1>1. d.ver \in Versions /\ d.payload \in Payloads /\ d.base \in 0..MaxVersion
    BY DEF Descriptors
<1>2. e \in IdempotencyRecords /\ e.ver = d.ver
    BY <1>1 DEF IdempotencyRecords
<1>3. current' = d.ver /\ rows' = [rows EXCEPT ![d.ver] = d.payload] /\ receipt' = [receipt EXCEPT ![k] = e]
    BY DEF Commits, Committed
<1> HIDE DEF e
<1> QED
    BY <1>1, <1>2, <1>3, ConstantsAssumption DEF TypeOK, ConstantsAssumption, Versions

\* A transaction comes into doubt when its request stops waiting for it.
NewDoubt(k, r) ==
    /\ pc[r] = "staged" /\ Key(r) = k /\ doubt'[k] = desc[r] /\ pc'[r] \in {"failed", "idle"}
    /\ receipt[k] = None /\ rows[desc[r].ver] = None /\ UNCHANGED <<rows, receipt>>

Doubtful ==
    /\ doubt' \in [Keys -> Descriptors \cup {None}]
    /\ \A k \in Keys : doubt'[k] \in {None, doubt[k]} \/ \E r \in Requests : NewDoubt(k, r)

\* Of a staged request without a receipt there is no version row either.
LEMMA StagedIsNew ==
    ASSUME TypeOK, Owned, Promoted, OneVersion, CommittedIsReadable,
           NEW r \in Requests, pc[r] = "staged", receipt[Key(r)] = None
    PROVE  rows[desc[r].ver] = None
<1>1. desc[r].ver \in Versions /\ Key(r) \in Keys /\ desc[r].payload[1] = Key(r)
    BY DescriptorTyped DEF HasDescriptor
<1>2. file[desc[r].ver] = desc[r].payload
    BY DEF Promoted
<1>3. {v \in Versions : rows[v] # None /\ rows[v][1] = Key(r)} = {}
    BY <1>1 DEF OneVersion
<1> QED
    BY <1>1, <1>2, <1>3 DEF CommittedIsReadable

LEMMA DieDoubtful ==
    ASSUME TypeOK, Owned, Promoted, OneVersion, CommittedIsReadable, Die
    PROVE  Doubtful
<1>1. PICK S \in SUBSET {r \in Requests : pc[r] = "staged" /\ receipt[Key(r)] = None} :
        doubt' = [k \in Keys |->
            IF \E r \in S : Key(r) = k THEN desc[CHOOSE r \in S : Key(r) = k] ELSE doubt[k]]
    BY DEF Die
<1>2. ASSUME NEW k \in Keys
      PROVE  \/ doubt'[k] = doubt[k]
             \/ \E r \in Requests : NewDoubt(k, r) /\ desc[r] \in Descriptors
  <2>1. CASE \E r \in S : Key(r) = k
    <3> DEFINE r == CHOOSE q \in S : Key(q) = k
    <3>1. r \in S /\ Key(r) = k
        BY <2>1
    <3>2. doubt'[k] = desc[r]
        BY <1>1, <2>1
    <3> HIDE DEF r
    <3>3. r \in Requests /\ pc[r] = "staged" /\ receipt[Key(r)] = None
        BY <3>1
    <3>4. rows[desc[r].ver] = None /\ desc[r] \in Descriptors
        BY <3>3, StagedIsNew, DescriptorTyped DEF HasDescriptor
    <3>5. pc'[r] = "idle" /\ UNCHANGED <<rows, receipt>>
        BY <3>3 DEF Die
    <3> QED
        BY <3>1, <3>2, <3>3, <3>4, <3>5 DEF NewDoubt
  <2>2. CASE ~\E r \in S : Key(r) = k
    BY <1>1, <2>2
  <2> QED
    BY <2>1, <2>2
<1>3. \A k \in Keys : doubt'[k] \in Descriptors \cup {None}
    BY <1>2 DEF NewDoubt, TypeOK
<1>4. doubt' \in [Keys -> Descriptors \cup {None}]
    BY <1>1, <1>3
<1> QED
    BY <1>2, <1>4 DEF Doubtful

\* The request gives up waiting, with or without leaving its transaction behind.
LEMMA LeaveDoubtful ==
    ASSUME TypeOK, Owned, NEW r \in Requests, UNCHANGED <<rows, receipt>>,
           \/ UNCHANGED doubt
           \/ /\ pc[r] = "staged" /\ Insertable(r) /\ pc'[r] \in {"failed", "idle"}
              /\ doubt' = [doubt EXCEPT ![Key(r)] = desc[r]]
    PROVE  Doubtful
<1>1. CASE UNCHANGED doubt
    BY <1>1 DEF TypeOK, Doubtful
<1>2. CASE /\ pc[r] = "staged" /\ Insertable(r) /\ pc'[r] \in {"failed", "idle"}
           /\ doubt' = [doubt EXCEPT ![Key(r)] = desc[r]]
  <2>1. desc[r] \in Descriptors /\ Key(r) \in Keys
    BY <1>2, DescriptorTyped DEF HasDescriptor
  <2>2. doubt' \in [Keys -> Descriptors \cup {None}] /\ doubt'[Key(r)] = desc[r]
        /\ \A k \in Keys \ {Key(r)} : doubt'[k] = doubt[k]
    BY <1>2, <2>1 DEF TypeOK
  <2>3. NewDoubt(Key(r), r)
    BY <1>2, <2>2 DEF NewDoubt, Insertable
  <2> QED
    BY <2>2, <2>3 DEF Doubtful
<1> QED
    BY <1>1, <1>2

LEMMA NextDoubtful ==
    ASSUME TypeOK, Owned, Promoted, OneVersion, CommittedIsReadable, [Next]_vars
    PROVE  Doubtful
<1>0. ASSUME UNCHANGED doubt PROVE Doubtful
    BY <1>0 DEF TypeOK, Doubtful
<1>1. ASSUME NEW r \in Requests, CommitFails(r) PROVE Doubtful
  <2>1. pc'[r] = "failed"
    BY <1>1 DEF CommitFails, Goto, TypeOK
  <2> QED
    BY <1>1, <2>1, LeaveDoubtful DEF CommitFails
<1>2. ASSUME NEW r \in Requests, Cancelled(r) PROVE Doubtful
  <2>1. pc'[r] = "idle"
    BY <1>2 DEF Cancelled, Done, TypeOK
  <2> QED
    BY <1>2, <2>1, LeaveDoubtful DEF Cancelled
<1>3. ASSUME NEW k \in Keys, Resolve(k) PROVE Doubtful
    BY <1>3 DEF Resolve, TypeOK, Doubtful
<1>4. ASSUME NEW r \in Requests, RequestStep(r) PROVE Doubtful
    BY <1>0, <1>4 DEF RequestStep, LockDocument, EnterGate, Stage, Commit, Classify,
       ReconcileFailure, RetireCommitted, dbVars
<1>5. ASSUME NEW r \in Requests, Abandon(r) PROVE Doubtful
    BY <1>0, <1>5 DEF Abandon, dbVars
<1>6. ASSUME Crash \/ CrashInReconcile \/ \E r \in Requests : CrashInStage(r) PROVE Doubtful
    BY <1>6, DieDoubtful DEF Crash, CrashInReconcile, CrashInStage
<1>7. ASSUME NEW k \in Keys, Age(k) PROVE Doubtful
    BY <1>0, <1>7 DEF Age, dbVars
<1>8. ASSUME ScanReconcile \/ BeginPass \/ UNCHANGED vars PROVE Doubtful
    BY <1>0, <1>8 DEF ScanReconcile, BeginPass, vars, dbVars
<1>10. ASSUME NEW e \in listed, PassStep(e) PROVE Doubtful
    BY <1>0, <1>10 DEF PassStep, PassOver, ScanPair, ScanIncomplete, dbVars
<1>9. ASSUME NEW r \in Requests, NEW k \in Keys, NEW b \in 0..MaxVersion, Admit(r, k, b) PROVE Doubtful
    BY <1>0, <1>9 DEF Admit, dbVars
<1> QED
    BY <1>1, <1>2, <1>3, <1>4, <1>5, <1>6, <1>7, <1>8, <1>9, <1>10 DEF Next

-----------------------------------------------------------------------------
(* The reconciler and the answers *)

\* An entry is taken up with its gate, while nothing of it is in doubt.
NewScan ==
    /\ scan' \in ScanEntries /\ scan'.desc.payload[1] = scan'.key
    /\ ~GateHeld(scan'.key) /\ doubt[scan'.key] = None
    /\ Stands(scan'.desc, scan'.verdict)
    /\ UNCHANGED <<doubt, rows, pc, req>>

Scanned == scan' \in {None, scan} \/ NewScan

LEMMA NextScanned ==
    ASSUME TypeOK, Owned, [Next]_vars
    PROVE  Scanned
<1>1. ASSUME NEW e \in listed, ScanPair(e) PROVE Scanned
  <2> DEFINE k == e.key
  <2>1. e.desc = stage[k] /\ k \in Pairs
    BY <1>1 DEF ScanPair, Present
  <2>2. PICK v \in {Classification(k, stage[k]), "uncertain"} :
            scan' = [key |-> k, desc |-> stage[k], verdict |-> v]
    BY <1>1, <2>1 DEF ScanPair
  <2>3. k \in Keys /\ stage[k] \in Descriptors /\ stage[k].payload[1] = k
    BY <2>1 DEF Pairs, TypeOK, Owned
  <2>4. Stands(stage[k], v) /\ v \in Verdicts
    BY <2>3, ClassificationStands DEF Stands, Verdicts
  <2>5. scan' \in ScanEntries /\ scan'.key = k /\ scan'.desc = stage[k] /\ scan'.verdict = v
    BY <2>2, <2>3, <2>4 DEF ScanEntries
  <2>6. ~GateHeld(k) /\ doubt[k] = None /\ UNCHANGED <<doubt, rows, pc, req>>
    BY <1>1 DEF ScanPair, IntentFree, dbVars, requestVars
  <2> QED
    BY <2>3, <2>4, <2>5, <2>6 DEF NewScan, Scanned
<1>2. ASSUME NEW r \in Requests, RequestStep(r) PROVE Scanned
    BY <1>2 DEF RequestStep, LockDocument, EnterGate, Stage, Commit, Classify,
       ReconcileFailure, RetireCommitted, passVars, Scanned
<1>3. ASSUME NEW r \in Requests, Abandon(r) \/ CommitFails(r) \/ Cancelled(r) \/ CrashInStage(r)
      PROVE  Scanned
    BY <1>3 DEF Abandon, CommitFails, Cancelled, CrashInStage, Die, passVars, Scanned
<1>4. ASSUME NEW k \in Keys, Resolve(k) \/ Age(k) PROVE Scanned
    BY <1>4 DEF Resolve, Age, passVars, Scanned
<1>5. ASSUME ScanReconcile \/ BeginPass \/ Crash \/ CrashInReconcile \/ UNCHANGED vars PROVE Scanned
    BY <1>5 DEF ScanReconcile, BeginPass, Crash, CrashInReconcile, Die, vars, passVars, Scanned
<1>6. ASSUME NEW r \in Requests, NEW k \in Keys, NEW b \in 0..MaxVersion, Admit(r, k, b) PROVE Scanned
    BY <1>6 DEF Admit, passVars, Scanned
<1>7. ASSUME NEW e \in listed, PassOver(e) \/ ScanIncomplete(e) PROVE Scanned
    BY <1>7 DEF PassOver, ScanIncomplete, Scanned
<1> QED
    BY <1>1, <1>2, <1>3, <1>4, <1>5, <1>6, <1>7 DEF Next, PassStep

\* What a pass has listed are stagings of the keys.
LEMMA NextListed ==
    ASSUME TypeOK, [Next]_vars
    PROVE  listed' \subseteq Listings
<1>1. ASSUME BeginPass PROVE listed' \subseteq Listings
  <2>1. \A k \in Pairs \cup IncompletePayloads : k \in Keys /\ stage[k] \in Descriptors
    BY DEF TypeOK, Pairs, IncompletePayloads
  <2> QED
    BY <1>1, <2>1 DEF BeginPass, Listings
<1>2. ASSUME NEW e \in listed, PassStep(e) PROVE listed' \subseteq Listings
    BY <1>2 DEF PassStep, PassOver, ScanPair, ScanIncomplete, TypeOK
<1>3. ASSUME NEW r \in Requests, RequestStep(r) PROVE listed' \subseteq Listings
    BY <1>3 DEF RequestStep, LockDocument, EnterGate, Stage, Commit, Classify, ReconcileFailure,
       RetireCommitted, passVars, TypeOK
<1>4. ASSUME NEW r \in Requests, Abandon(r) \/ CommitFails(r) \/ Cancelled(r) \/ CrashInStage(r)
      PROVE  listed' \subseteq Listings
    BY <1>4 DEF Abandon, CommitFails, Cancelled, CrashInStage, Die, passVars, TypeOK
<1>5. ASSUME \/ \E k \in Keys : Resolve(k) \/ Age(k)
             \/ ScanReconcile \/ Crash \/ CrashInReconcile \/ UNCHANGED vars
      PROVE  listed' \subseteq Listings
    BY <1>5 DEF Resolve, Age, ScanReconcile, Crash, CrashInReconcile, Die, vars, passVars, TypeOK
<1>6. ASSUME NEW r \in Requests, NEW k \in Keys, NEW b \in 0..MaxVersion, Admit(r, k, b)
      PROVE  listed' \subseteq Listings
    BY <1>6 DEF Admit, passVars, TypeOK
<1> QED
    BY <1>1, <1>2, <1>3, <1>4, <1>5, <1>6 DEF Next

\* A client is told of success only with a receipt at hand.
Told == answered' \subseteq Keys /\ \A k \in answered' : k \in answered \/ receipt[k] # None

LEMMA NextTold ==
    ASSUME TypeOK, Owned, VerdictStands, [Next]_vars
    PROVE  Told
<1>0. ASSUME UNCHANGED answered PROVE Told
    BY <1>0 DEF TypeOK, Told
<1>1. ASSUME NEW r \in Requests, NEW k \in Keys, NEW b \in 0..MaxVersion, Admit(r, k, b) PROVE Told
    BY <1>1 DEF Admit, Replayed, TypeOK, Told
<1>2. ASSUME NEW r \in Requests, LockDocument(r) PROVE Told
    BY <1>2, RequestTyped DEF LockDocument, Replayed, TypeOK, Told
<1>3. ASSUME NEW r \in Requests, EnterGate(r) PROVE Told
    BY <1>3, ConstantsAssumption DEF EnterGate, Replayed, TypeOK, Told, ConstantsAssumption
<1>4. ASSUME NEW r \in Requests, RetireCommitted(r) PROVE Told
  <2>1. Key(r) \in Keys /\ receipt[Key(r)] # None
    BY <1>4, RequestTyped DEF RetireCommitted, VerdictStands
  <2> QED
    BY <1>4, <2>1 DEF RetireCommitted, TypeOK, Told
<1>5. ASSUME NEW r \in Requests, Stage(r) \/ Commit(r) \/ Classify(r) \/ ReconcileFailure(r) PROVE Told
    BY <1>0, <1>5 DEF Stage, Commit, Classify, ReconcileFailure
<1>6. ASSUME NEW r \in Requests, Abandon(r) \/ CommitFails(r) \/ Cancelled(r) \/ CrashInStage(r) PROVE Told
    BY <1>0, <1>6 DEF Abandon, CommitFails, Cancelled, CrashInStage, Die
<1>7. ASSUME NEW k \in Keys, Resolve(k) \/ Age(k) PROVE Told
    BY <1>0, <1>7 DEF Resolve, Age
<1>8. ASSUME ScanReconcile \/ BeginPass \/ Crash \/ CrashInReconcile \/ UNCHANGED vars PROVE Told
    BY <1>0, <1>8 DEF ScanReconcile, BeginPass, Crash, CrashInReconcile, Die, vars
<1>9. ASSUME NEW e \in listed, PassStep(e) PROVE Told
    BY <1>0, <1>9 DEF PassStep, PassOver, ScanPair, ScanIncomplete
<1> QED
    BY <1>1, <1>2, <1>3, <1>4, <1>5, <1>6, <1>7, <1>8, <1>9 DEF Next, RequestStep

-----------------------------------------------------------------------------
(* The file store *)

StoreTypes ==
    /\ file \in [Versions -> Payloads \cup {None}]
    /\ stage \in [Keys -> Descriptors \cup {None}]
    /\ whole \subseteq Keys /\ aged \subseteq Keys
    /\ staged \in 0..MaxStages

\* A complete staging names these bytes.
Named(v) == \E k \in whole : stage[k] # None /\ stage[k].ver = v /\ stage[k].payload = file[v]

\* Nobody else can still commit these bytes, and nobody has.
Deletable(d) ==
    /\ \A r \in Requests : pc[r] = "staged" => Key(r) # d.payload[1]
    /\ doubt[d.payload[1]] = None
    /\ rows[d.ver] # d.payload

\* Bytes are added where there were none, and named; they are removed when
\* nobody wants them; a staging goes with its bytes or after their commit.
Stored ==
    /\ StoreTypes'
    /\ \A k \in Keys : stage'[k] # None => stage'[k].payload[1] = k
    /\ \A v \in Versions :
        \/ file'[v] = file[v]
        \/ file[v] = None /\ Named(v)'
        \/ file'[v] = None /\ \E d \in Descriptors : d.ver = v /\ file[v] = d.payload /\ Deletable(d)
    /\ \A k \in whole : stage[k] # None =>
        \/ k \in whole' /\ stage'[k] = stage[k]
        \/ rows[stage[k].ver] # None
        \/ file'[stage[k].ver] # stage[k].payload

\* The key, descriptor and verdict that a reconciliation acts on.
Usable(k, d, v) ==
    /\ k \in Keys /\ d \in Descriptors
    /\ v = "absent" => Deletable(d)
    /\ v = "committed" => rows[d.ver] # None

LEMMA ClassifiedUsable ==
    ASSUME TypeOK, Owned, OneHolder, VerdictStands, NEW r \in Requests, pc[r] = "classified"
    PROVE  Usable(Key(r), desc[r], verdict[r])
<1>1. desc[r] \in Descriptors /\ Key(r) \in Keys /\ desc[r].payload[1] = Key(r)
    BY DescriptorTyped DEF HasDescriptor
<1>2. \A s \in Requests : pc[s] = "staged" => Key(s) # Key(r)
    BY DEF OneHolder, InGate
<1>3. doubt[Key(r)] = None /\ Stands(desc[r], verdict[r])
    BY DEF OneHolder, VerdictStands
<1> QED
    BY <1>1, <1>2, <1>3 DEF Usable, Deletable, Stands

LEMMA ScanUsable ==
    ASSUME TypeOK, Owned, OneHolder, VerdictStands, scan # None
    PROVE  Usable(scan.key, scan.desc, scan.verdict)
<1>1. scan.desc \in Descriptors /\ scan.key \in Keys /\ scan.desc.payload[1] = scan.key
    BY DEF TypeOK, ScanEntries, Owned
<1>2. \A s \in Requests : pc[s] = "staged" => Key(s) # scan.key
    BY DEF OneHolder, InGate
<1>3. doubt[scan.key] = None /\ Stands(scan.desc, scan.verdict)
    BY DEF OneHolder, VerdictStands
<1> QED
    BY <1>1, <1>2, <1>3 DEF Usable, Deletable, Stands

LEMMA CommittedUsable ==
    ASSUME TypeOK, Owned, VerdictStands, NEW r \in Requests, pc[r] = "committed"
    PROVE  Usable(Key(r), desc[r], "committed")
BY DescriptorTyped DEF HasDescriptor, VerdictStands, Usable

\* Only the ages change, if anything.
LEMMA SameStored ==
    ASSUME TypeOK, Owned, UNCHANGED <<file, stage, whole, staged>>, aged' \subseteq Keys
    PROVE  Stored
BY DEF TypeOK, Owned, Stored, StoreTypes

\* What the deletion of exact bytes leaves.
LEMMA DeleteWrites ==
    ASSUME TypeOK, NEW d \in Descriptors, file' = DeleteExact(d)
    PROVE  /\ file' \in [Versions -> Payloads \cup {None}]
           /\ d.ver \in Versions
           /\ file'[d.ver] = IF file[d.ver] = d.payload THEN None ELSE file[d.ver]
           /\ \A v \in Versions \ {d.ver} : file'[v] = file[v]
           /\ d.payload # None
<1>1. d.ver \in Versions /\ d.payload \in Payloads
    BY DEF Descriptors
<1> QED
    BY <1>1, ConstantsAssumption DEF TypeOK, DeleteExact, ConstantsAssumption

\* The staging of a descriptor goes, in whole or without its payload file.
LEMMA ForgetStored ==
    ASSUME TypeOK, Owned, NEW k, NEW d, NEW v \in {"committed", "absent"}, Usable(k, d, v),
           IF v = "absent" THEN file' = DeleteExact(d) /\ Promotable(d) ELSE file' = file,
           stage' \in {stage, [stage EXCEPT ![k] = None]}, whole' \in {whole, whole \ {k}},
           stage[k] # d => UNCHANGED <<stage, whole>>,
           aged' \in SUBSET aged, staged' = staged
    PROVE  Stored
<1>1. k \in Keys /\ d \in Descriptors /\ d.ver \in Versions
    BY DEF Usable, Descriptors
<1>2. StoreTypes'
    BY <1>1, DeleteWrites DEF TypeOK, StoreTypes
<1>3. \A l \in Keys : stage'[l] # None => stage'[l].payload[1] = l
    BY <1>1 DEF TypeOK, Owned
<1>4. rows[d.ver] # None \/ file'[d.ver] # d.payload
    BY <1>1, DeleteWrites DEF Usable
<1>5. ASSUME NEW l \in whole, stage[l] # None
      PROVE  \/ l \in whole' /\ stage'[l] = stage[l]
             \/ rows[stage[l].ver] # None
             \/ file'[stage[l].ver] # stage[l].payload
  <2>1. CASE l = k /\ stage[k] = d
    BY <1>4, <2>1
  <2>2. CASE l # k \/ stage[k] # d
    BY <1>1, <1>5, <2>2 DEF TypeOK
  <2> QED
    BY <2>1, <2>2
<1>6. ASSUME NEW u \in Versions
      PROVE  \/ file'[u] = file[u]
             \/ file'[u] = None /\ \E e \in Descriptors : e.ver = u /\ file[u] = e.payload /\ Deletable(e)
    BY <1>1, DeleteWrites DEF Usable
<1> QED
    BY <1>2, <1>3, <1>5, <1>6 DEF Stored

LEMMA RetireStored ==
    ASSUME TypeOK, Owned, NEW k, NEW d, NEW v \in {"committed", "absent"}, Usable(k, d, v),
           IF v = "absent" THEN file' = DeleteExact(d) /\ Promotable(d) ELSE file' = file,
           Retire(k, d), staged' = staged
    PROVE  Stored
<1>1. /\ stage' \in {stage, [stage EXCEPT ![k] = None]} /\ whole' \in {whole, whole \ {k}}
      /\ stage[k] # d => UNCHANGED <<stage, whole>>
    BY DEF Retire
<1>2. aged' \in SUBSET aged
    BY DEF Retire
<1> QED
    BY <1>1, <1>2, ForgetStored

LEMMA ReconcileStored ==
    ASSUME TypeOK, Owned, NEW k, NEW d, NEW v, Usable(k, d, v), Reconcile(k, d, v)
    PROVE  Stored
<1>1. CASE v = "committed"
    BY <1>1, RetireStored DEF Reconcile
<1>2. CASE v = "absent" /\ Promotable(d)
    BY <1>2, RetireStored DEF Reconcile
<1>3. CASE v = "absent" /\ ~Promotable(d)
  <2>1. UNCHANGED <<stage, whole, aged, staged>> /\ file' = DeleteExact(d) /\ d \in Descriptors
    BY <1>3 DEF Reconcile, Usable
  <2>2. file[d.ver] # d.payload
    BY <1>3 DEF Promotable
  <2>3. file' = file
    BY <2>1, <2>2, DeleteWrites DEF TypeOK
  <2> QED
    BY <2>1, <2>3, SameStored DEF TypeOK
<1>4. CASE v = "uncertain"
    BY <1>4, SameStored DEF Reconcile, TypeOK
<1> QED
    BY <1>1, <1>2, <1>3, <1>4 DEF Reconcile

LEMMA PartialStored ==
    ASSUME TypeOK, Owned, NEW k, NEW d, NEW v, Usable(k, d, v), Partial(k, d, v), staged' = staged
    PROVE  Stored
<1>1. v \in {"committed", "absent"}
    BY DEF Partial
<1>2. IF v = "absent" THEN file' = DeleteExact(d) /\ Promotable(d) ELSE file' = file
    BY DEF Partial
<1>3. stage' = stage /\ aged' \in SUBSET aged /\ whole' \in {whole, whole \ {k}}
      /\ (stage[k] # d => whole' = whole)
    BY DEF Partial
<1> QED
    BY <1>1, <1>2, <1>3, ForgetStored

\* A staging that is new disturbs no other.
LEMMA FreshStored ==
    ASSUME TypeOK, Owned, NEW k \in Keys, stage[k] = None, NEW d \in Descriptors, d.payload[1] = k,
           NEW complete \in BOOLEAN, Staging(k, d, complete),
           staged < MaxStages, staged' = staged + 1,
           \/ file' = file
           \/ complete /\ Promotable(d) /\ file' = [file EXCEPT ![d.ver] = d.payload]
    PROVE  Stored
<1> USE ConstantsAssumption DEF ConstantsAssumption
<1>1. d.ver \in Versions /\ d.payload \in Payloads /\ d # None
    BY DEF Descriptors
<1>2. /\ stage' = [stage EXCEPT ![k] = d] /\ aged' \subseteq Keys
      /\ whole' \in {whole \cup {k}, whole \ {k}} /\ (complete => k \in whole')
    BY DEF Staging, TypeOK
<1>3. StoreTypes'
    BY <1>1, <1>2 DEF TypeOK, StoreTypes
<1>4. \A l \in Keys : stage'[l] # None => stage'[l].payload[1] = l
    BY <1>1, <1>2 DEF TypeOK, Owned
<1>5. \A l \in whole : stage[l] # None => l \in whole' /\ stage'[l] = stage[l]
    BY <1>2 DEF TypeOK
<1>6. ASSUME NEW u \in Versions PROVE file'[u] = file[u] \/ (file[u] = None /\ Named(u)')
  <2>1. CASE file' = file \/ u # d.ver
    BY <1>1, <2>1 DEF TypeOK
  <2>2. CASE file' # file /\ u = d.ver
    <3>1. k \in whole' /\ stage'[k] = d /\ file'[u] = d.payload /\ file[u] \in {None, d.payload}
        BY <1>1, <1>2, <2>2 DEF TypeOK, Promotable
    <3>2. Named(u)'
        BY <1>1, <2>2, <3>1 DEF Named
    <3> QED
        BY <3>1, <3>2
  <2> QED
    BY <2>1, <2>2
<1> QED
    BY <1>3, <1>4, <1>5, <1>6 DEF Stored

LEMMA StageStored ==
    ASSUME TypeOK, Owned, CreatedFirst, NEW r \in Requests, Stage(r)
    PROVE  Stored
<1> DEFINE k == Key(r)
<1>1. pc[r] = "gated" /\ k \in Keys
    BY WorkingDescriptor DEF Stage
<1>2. CASE stage[k] = None /\ ~Overbound
  <2>1. /\ staged < MaxStages /\ Staging(k, Fresh(r), TRUE) /\ staged' = staged + 1
        /\ \/ file' = file
           \/ Promotable(Fresh(r)) /\ file' = [file EXCEPT ![Fresh(r).ver] = Fresh(r).payload]
    BY <1>2 DEF Stage
  <2>2. Fresh(r) \in Descriptors /\ Fresh(r).payload[1] = k
    BY <1>1, <2>1, WorkingDescriptor
  <2> QED
    BY <1>1, <1>2, <2>1, <2>2, FreshStored
<1>3. CASE stage[k] # None
  <2>1. stage[k] \in Descriptors
    BY <1>1, <1>3, WorkingDescriptor
  <2>2. UNCHANGED <<stage, whole, aged, staged>>
    BY <1>3 DEF Stage
  <2>3. CASE file' = file
    BY <2>2, <2>3, SameStored DEF TypeOK
  <2>4. CASE file' # file
    <3>1. Reusable(r) /\ Promotable(stage[k]) /\ file' = [file EXCEPT ![stage[k].ver] = stage[k].payload]
        BY <1>3, <2>4 DEF Stage
    <3>2. stage[k].ver \in Versions /\ stage[k].payload \in Payloads /\ k \in whole
        BY <2>1, <3>1 DEF Descriptors, Reusable
    <3>3. StoreTypes' /\ \A l \in Keys : stage'[l] # None => stage'[l].payload[1] = l
        BY <2>2, <3>1, <3>2 DEF TypeOK, StoreTypes, Owned
    <3>4. ASSUME NEW u \in Versions PROVE file'[u] = file[u] \/ (file[u] = None /\ Named(u)')
      <4>1. CASE u # stage[k].ver
        BY <3>1, <3>2, <4>1 DEF TypeOK
      <4>2. CASE u = stage[k].ver
        <5>1. /\ k \in whole' /\ stage'[k] = stage[k] /\ file'[u] = stage[k].payload
              /\ file[u] \in {None, stage[k].payload}
            BY <2>2, <3>1, <3>2, <4>2 DEF TypeOK, Promotable
        <5>2. Named(u)'
            BY <1>3, <4>2, <5>1 DEF Named
        <5> QED
            BY <5>1, <5>2
      <4> QED
        BY <4>1, <4>2
    <3> QED
        BY <2>2, <3>3, <3>4 DEF Stored
  <2> QED
    BY <2>3, <2>4
<1>4. CASE stage[k] = None /\ Overbound
  <2>1. UNCHANGED <<file, stage, whole, aged, staged>>
    BY <1>4 DEF Stage
  <2> QED
    BY <2>1, SameStored DEF TypeOK
<1> QED
    BY <1>2, <1>3, <1>4

LEMMA NextStored ==
    ASSUME TypeOK, Owned, CreatedFirst, OneHolder, VerdictStands, [Next]_vars
    PROVE  Stored
<1>0. ASSUME UNCHANGED storeVars PROVE Stored
    BY <1>0, SameStored DEF storeVars, TypeOK
<1>1. ASSUME NEW r \in Requests, ReconcileFailure(r) PROVE Stored
    BY <1>1, ClassifiedUsable, ReconcileStored DEF ReconcileFailure
<1>2. ASSUME NEW r \in Requests, RetireCommitted(r) PROVE Stored
    BY <1>2, CommittedUsable, RetireStored DEF RetireCommitted
<1>3. ASSUME ScanReconcile PROVE Stored
    BY <1>3, ScanUsable, ReconcileStored DEF ScanReconcile
<1>4. ASSUME NEW e \in listed, ScanIncomplete(e), stage' # stage PROVE Stored
  <2> DEFINE k == e.key
  <2>1. /\ k \in Keys \ whole /\ stage' = [stage EXCEPT ![k] = None]
        /\ whole' = whole \ {k} /\ aged' = aged \ {k} /\ UNCHANGED <<file, staged>>
    BY <1>4 DEF ScanIncomplete, IncompletePayloads, Present, Retire
  <2>2. StoreTypes' /\ \A l \in Keys : stage'[l] # None => stage'[l].payload[1] = l
    BY <2>1 DEF TypeOK, StoreTypes, Owned
  <2>3. \A l \in whole : l \in whole' /\ stage'[l] = stage[l]
    BY <2>1 DEF TypeOK
  <2> QED
    BY <2>1, <2>2, <2>3 DEF Stored
<1>5. ASSUME NEW k \in Keys, Age(k) PROVE Stored
    BY <1>5, SameStored DEF Age, TypeOK
<1>6. ASSUME NEW r \in Requests, CrashInStage(r) PROVE Stored
  <2>1. /\ pc[r] = "gated" /\ stage[Key(r)] = None /\ staged < MaxStages
        /\ staged' = staged + 1 /\ file' = file
    BY <1>6 DEF CrashInStage
  <2>2. PICK complete \in BOOLEAN : Staging(Key(r), Fresh(r), complete)
    BY <1>6 DEF CrashInStage
  <2>3. Key(r) \in Keys /\ Fresh(r) \in Descriptors /\ Fresh(r).payload[1] = Key(r)
    BY <2>1, WorkingDescriptor
  <2> QED
    BY <2>1, <2>2, <2>3, FreshStored
<1>7. ASSUME CrashInReconcile PROVE Stored
    BY <1>7, ClassifiedUsable, CommittedUsable, ScanUsable, PartialStored DEF CrashInReconcile
<1>8. ASSUME NEW r \in Requests,
             LockDocument(r) \/ EnterGate(r) \/ Commit(r) \/ Classify(r)
                \/ CommitFails(r) \/ Cancelled(r)
      PROVE  Stored
    BY <1>0, <1>8 DEF LockDocument, EnterGate, Commit, Classify, CommitFails, Cancelled
<1>9. ASSUME NEW k \in Keys, Resolve(k) PROVE Stored
    BY <1>0, <1>9 DEF Resolve
<1>10. ASSUME Crash \/ BeginPass \/ UNCHANGED vars PROVE Stored
    BY <1>0, <1>10 DEF Crash, BeginPass, vars
<1>12. ASSUME NEW r \in Requests, Abandon(r) PROVE Stored
    BY <1>12, SameStored DEF Abandon, TypeOK
<1>13. ASSUME NEW e \in listed, PassOver(e) \/ ScanPair(e) \/ (ScanIncomplete(e) /\ stage' = stage)
       PROVE  Stored
  <2>1. UNCHANGED <<file, stage, whole, staged>> /\ aged' \subseteq Keys
    BY <1>13 DEF PassOver, ScanPair, ScanIncomplete, IncompletePayloads, Present, Retire, storeVars, TypeOK
  <2> QED
    BY <2>1, SameStored
<1>11. ASSUME NEW r \in Requests, NEW k \in Keys, NEW b \in 0..MaxVersion, Admit(r, k, b) PROVE Stored
    BY <1>0, <1>11 DEF Admit
<1> QED
    BY <1>1, <1>2, <1>3, <1>4, <1>5, <1>6, <1>7, <1>8, <1>9, <1>10, <1>11, <1>12,
       <1>13, StageStored
    DEF Next, RequestStep, PassStep

\* Directories, and what a crash cut short, belong to the keys.
LEMMA NextDirs ==
    ASSUME TypeOK, Owned, CreatedFirst, [Next]_vars
    PROVE  torn' \subseteq Keys /\ empty' \subseteq Keys /\ dirs' \subseteq Keys
<1> DEFINE Dirs == torn' \subseteq Keys /\ empty' \subseteq Keys /\ dirs' \subseteq Keys
<1>0. ASSUME UNCHANGED dirVars PROVE Dirs
    BY <1>0 DEF dirVars, TypeOK
<1>1. ASSUME NEW r \in Requests, pc[r] = "gated", torn' \subseteq torn \cup {Key(r)},
             empty' \subseteq empty \cup {Key(r)}, dirs' \subseteq dirs \cup {Key(r)}
      PROVE  Dirs
  <2>1. Key(r) \in Keys
    BY <1>1, WorkingDescriptor
  <2> QED
    BY <1>1, <2>1 DEF TypeOK
<1>2. ASSUME NEW r \in Requests, Stage(r) PROVE Dirs
  <2>1. /\ pc[r] = "gated" /\ UNCHANGED <<torn, empty>>
        /\ dirs' \in {dirs, dirs \cup {Key(r)}}
    BY <1>2 DEF Stage, Staging
  <2> QED
    BY <1>1, <2>1
<1>3. ASSUME NEW r \in Requests, CrashInStage(r) PROVE Dirs
  <2>1. /\ pc[r] = "gated" /\ dirs' = dirs \cup {Key(r)}
        /\ torn' \subseteq torn \cup {Key(r)} /\ empty' \subseteq empty \cup {Key(r)}
    BY <1>3 DEF CrashInStage, Staging
  <2> QED
    BY <1>1, <2>1
<1>4. ASSUME NEW r \in Requests, Abandon(r) PROVE Dirs
  <2>1. /\ UNCHANGED <<torn, empty>>
        /\ dirs' = dirs \/ (pc[r] = "gated" /\ dirs' = dirs \cup {Key(r)})
    BY <1>4 DEF Abandon
  <2> QED
    BY <1>0, <1>1, <2>1 DEF dirVars
<1>5. ASSUME NEW r \in Requests, LockDocument(r) \/ EnterGate(r) \/ Commit(r) \/ Classify(r)
                \/ ReconcileFailure(r) \/ RetireCommitted(r) \/ CommitFails(r) \/ Cancelled(r)
      PROVE  Dirs
    BY <1>0, <1>5 DEF LockDocument, EnterGate, Commit, Classify, ReconcileFailure, RetireCommitted,
       CommitFails, Cancelled, Reconcile, storeVars
<1>6. ASSUME NEW e \in listed, PassStep(e) PROVE Dirs
    BY <1>0, <1>6 DEF PassStep, PassOver, ScanPair, ScanIncomplete, storeVars
<1>7. ASSUME \/ \E k \in Keys : Resolve(k) \/ Age(k)
             \/ BeginPass \/ ScanReconcile \/ Crash \/ CrashInReconcile \/ UNCHANGED vars
      PROVE  Dirs
    BY <1>0, <1>7 DEF Resolve, Age, BeginPass, ScanReconcile, Reconcile, Crash, CrashInReconcile,
       storeVars, vars
<1>8. ASSUME NEW r \in Requests, NEW k \in Keys, NEW b \in 0..MaxVersion, Admit(r, k, b) PROVE Dirs
    BY <1>0, <1>8 DEF Admit, storeVars
<1> QED
    BY <1>2, <1>3, <1>4, <1>5, <1>6, <1>7, <1>8 DEF Next, RequestStep

-----------------------------------------------------------------------------
(* The inductive invariant *)

LEMMA InitInductive == Init => Inductive
<1> SUFFICES ASSUME Init PROVE Inductive
    OBVIOUS
<1> USE ConstantsAssumption DEF ConstantsAssumption
<1>1. TypeOK
    BY DEF Init, TypeOK, PCs
<1>2. Owned /\ CreatedFirst /\ OneHolder
    BY DEF Init, Owned, CreatedFirst, OneHolder, HasDescriptor, InGate
<1>3. Promoted /\ VerdictStands /\ OneVersion /\ Answered
    BY DEF Init, Promoted, VerdictStands, OneVersion, Answered
<1>4. CommittedIsReadable /\ StrayIsStaged
    BY DEF Init, CommittedIsReadable, StrayIsStaged
<1> QED
    BY <1>1, <1>2, <1>3, <1>4 DEF Inductive

\* The looks at a step together.
LEMMA NextInductive == Inductive /\ [Next]_vars => Inductive'
<1> SUFFICES ASSUME Inductive, [Next]_vars PROVE Inductive'
    OBVIOUS
<1>0. /\ TypeOK /\ Owned /\ CreatedFirst /\ OneHolder /\ Promoted /\ VerdictStands /\ OneVersion
      /\ Answered /\ CommittedIsReadable /\ StrayIsStaged
    BY DEF Inductive
<1>1. Progress /\ Recorded /\ Doubtful /\ Scanned /\ Told /\ Stored
    BY <1>0, NextProgress, NextRecorded, NextDoubtful, NextScanned, NextTold, NextStored
<1>2. \A k \in Keys : receipt[k] # None => receipt'[k] # None
    BY <1>0, <1>1, RecordedWrites DEF Recorded, Commits
<1>3. \A v \in Versions : rows[v] # None => rows'[v] = rows[v]
    BY <1>0, <1>1, RecordedWrites DEF Recorded, Commits
<1>4. faults' \in 0..MaxFaults
  <2>1. faults' = faults \/ Fault
    BY DEF Next, RequestStep, vars, Admit, LockDocument, EnterGate, Stage, Abandon, Commit,
       CommitFails, Cancelled, Resolve, Classify, ReconcileFailure, RetireCommitted, Age, ScanPair,
       ScanReconcile, ScanIncomplete, PassStep, PassOver, BeginPass, Crash, CrashInStage, CrashInReconcile
  <2> QED
    BY <1>0, <2>1, ConstantsAssumption DEF TypeOK, Fault, ConstantsAssumption
<1>5. TypeOK'
  <2>1. /\ current' \in 0..MaxVersion
        /\ rows' \in [Versions -> Payloads \cup {None}]
        /\ receipt' \in [Keys -> IdempotencyRecords \cup {None}]
    BY <1>0, <1>1, RecordedWrites DEF Recorded, TypeOK
  <2>2. scan' \in ScanEntries \cup {None}
    BY <1>0, <1>1 DEF Scanned, NewScan, TypeOK
  <2> QED
    BY <1>0, <1>1, <1>4, <2>1, <2>2, NextListed, NextDirs DEF Progress, RequestTypes, Stored, StoreTypes, Doubtful, Told, TypeOK
<1>6. Owned'
  <2>1. ASSUME NEW r \in Requests, pc'[r] # "idle" PROVE req'[r] # None
    BY <1>0, <1>1, <2>1 DEF Owned, Progress, Quiet, Same, Moved, IsAdmitted, IsLocked, IsGated, IsStaged,
       IsFailed, IsCommitted, IsClassified
  <2>2. ASSUME NEW r \in Requests, HasDescriptor(r)' PROVE desc'[r] # None /\ desc'[r].payload[1] = Key(r)'
    BY <1>0, <1>1, <2>2 DEF Owned, HasDescriptor, Key, Progress, Quiet, Same, Moved, IsAdmitted, IsLocked,
       IsGated, IsStaged, IsFailed, IsCommitted, IsClassified
  <2>3. ASSUME NEW k \in Keys, doubt'[k] # None PROVE doubt'[k].payload[1] = k
    BY <1>0, <1>1, <2>3 DEF Owned, HasDescriptor, Doubtful, NewDoubt
  <2>4. scan' # None => scan'.desc.payload[1] = scan'.key
    BY <1>0, <1>1 DEF Owned, Scanned, NewScan
  <2> QED
    BY <1>1, <2>1, <2>2, <2>3, <2>4 DEF Owned, Stored
<1>7. CreatedFirst'
  <2>1. ASSUME receipt'[CreateKey] = None
        PROVE  /\ receipt[CreateKey] = None /\ UNCHANGED <<current, rows, receipt>>
    <3>1. receipt[CreateKey] = None
        BY <1>2, <2>1, ConstantsAssumption DEF ConstantsAssumption
    <3>2. ASSUME NEW k \in Keys, NEW d \in Descriptors, Commits(k, d) PROVE FALSE
      <4>1. k = CreateKey
        BY <1>0, <3>1, <3>2, ConstantsAssumption
        DEF Commits, CreatedFirst, ConstantsAssumption
      <4> QED
        BY <1>0, <2>1, <3>2, <4>1, RecordedWrites
    <3> QED
        BY <1>1, <3>1, <3>2 DEF Recorded
  <2>2. ASSUME receipt'[CreateKey] = None
        PROVE  current' = 0 /\ \A v \in Versions : rows'[v] = None
    BY <1>0, <2>1, <2>2 DEF CreatedFirst
  <2>3. ASSUME receipt'[CreateKey] = None, NEW r \in Requests, pc'[r] # "idle" PROVE Key(r)' = CreateKey
    BY <1>0, <1>1, <2>1, <2>3 DEF CreatedFirst, Key, Progress, Quiet, Same, Moved, IsAdmitted, IsLocked,
       IsGated, IsStaged, IsFailed, IsCommitted, IsClassified
  <2>4. ASSUME receipt'[CreateKey] = None, NEW k \in Keys \ {CreateKey} PROVE doubt'[k] = None
    BY <1>0, <1>1, <2>1, <2>4 DEF CreatedFirst, Doubtful, NewDoubt
  <2>5. ASSUME NEW r \in Requests, pc'[r] # "idle", Key(r)' = CreateKey PROVE Seen(r)' = 0
    BY <1>0, <1>1, <2>5 DEF CreatedFirst, Key, Seen, Progress, Quiet, Same, Moved, IsAdmitted, IsLocked,
       IsGated, IsStaged, IsFailed, IsCommitted, IsClassified
  <2>6. ASSUME NEW r \in Requests, pc'[r] \in {"locked", "gated"} PROVE Seen(r)' < MaxVersion
    BY <1>0, <1>1, <2>6 DEF CreatedFirst, Seen, Progress, Quiet, Same, Moved, IsAdmitted, IsLocked,
       IsGated, IsStaged, IsFailed, IsCommitted, IsClassified
  <2> QED
    BY <2>2, <2>3, <2>4, <2>5, <2>6 DEF CreatedFirst
<1>8. OneHolder'
  <2>1. ASSUME NEW r \in Requests, NEW s \in Requests, r # s, InGate(r)', InGate(s)', Key(r)' = Key(s)'
        PROVE  FALSE
    <3>1. ASSUME NEW q \in Requests, InGate(q)' PROVE Key(q)' = Key(q) /\ (InGate(q) \/ IsGated(q))
        BY <1>1, <3>1 DEF InGate, Key, Progress, Quiet, Same, Moved, IsAdmitted, IsLocked, IsGated, IsStaged,
           IsFailed, IsCommitted, IsClassified
    <3>2. Key(r) = Key(s)
        BY <2>1, <3>1
    <3>3. ~(InGate(r) /\ InGate(s))
        BY <1>0, <2>1, <3>2 DEF OneHolder
    <3>4. PICK q \in {r, s} : IsGated(q) /\ Moved(q) /\ pc[q] # pc'[q]
        BY <2>1, <3>1, <3>3 DEF IsGated, Moved
    <3>5. \A t \in Requests \ {q} : Same(t)
        BY <1>1, <3>4 DEF Progress, Quiet, Same, IsGated
    <3>6. \A t \in {r, s} \ {q} : InGate(t) /\ Key(t) = Key(q)
        BY <2>1, <3>2, <3>5 DEF InGate, Same
    <3> QED
        BY <2>1, <3>4, <3>6 DEF IsGated, GateHeld, InGate
  <2>2. ASSUME NEW r \in Requests, InGate(r)', scan' # None, Key(r)' = scan'.key PROVE FALSE
    <3>1. Key(r)' = Key(r) /\ (InGate(r) \/ IsGated(r))
        BY <1>1, <2>2 DEF InGate, Key, Progress, Quiet, Same, Moved, IsAdmitted, IsLocked, IsGated, IsStaged,
           IsFailed, IsCommitted, IsClassified
    <3>2. CASE scan' = scan
        BY <1>0, <2>2, <3>1, <3>2 DEF OneHolder, IsGated, GateHeld
    <3>3. CASE NewScan
        BY <2>2, <3>3 DEF NewScan, GateHeld, InGate, Key
    <3> QED
        BY <1>1, <2>2, <3>2, <3>3 DEF Scanned
  <2>3. ASSUME NEW r \in Requests, pc'[r] \in {"gated", "staged", "classified"} PROVE doubt'[Key(r)'] = None
    <3>1. /\ Key(r)' = Key(r) /\ Key(r) \in Keys
          /\ \/ Same(r)
             \/ doubt' = doubt /\ doubt[Key(r)] = None
        BY <1>0, <1>1, <2>3, RequestTyped DEF Key, Progress, Quiet, Same, Moved, IsAdmitted, IsLocked, IsGated,
           IsStaged, IsFailed, IsCommitted, IsClassified, OneHolder
    <3>2. doubt[Key(r)] = None
        BY <1>0, <2>3, <3>1 DEF Same, OneHolder
    <3>3. ASSUME NEW q \in Requests, NewDoubt(Key(r), q), Same(r) PROVE FALSE
        BY <1>0, <2>3, <3>3 DEF NewDoubt, Same, OneHolder, InGate
    <3> QED
        BY <1>1, <3>1, <3>2, <3>3 DEF Doubtful
  <2>4. ASSUME scan' # None PROVE doubt'[scan'.key] = None
    <3>1. CASE NewScan
        BY <3>1 DEF NewScan
    <3>2. CASE scan' = scan
      <4>1. scan.key \in Keys /\ doubt[scan.key] = None
        BY <1>0, <2>4, <3>2 DEF TypeOK, ScanEntries, OneHolder
      <4>2. ASSUME NEW q \in Requests, NewDoubt(scan.key, q) PROVE FALSE
        BY <1>0, <2>4, <3>2, <4>2 DEF NewDoubt, OneHolder, InGate
      <4> QED
        BY <1>1, <3>2, <4>1, <4>2 DEF Doubtful
    <3> QED
        BY <1>1, <2>4, <3>1, <3>2 DEF Scanned
  <2> QED
    BY <2>1, <2>2, <2>3, <2>4 DEF OneHolder
<1>9. ASSUME NEW k \in Keys, NEW d \in Descriptors, Commits(k, d), NEW e \in Descriptors, e.payload[1] # k
      PROVE  e.ver = d.ver => file[e.ver] # e.payload
    BY <1>9 DEF Commits
<1>10. ASSUME NEW v \in Versions, file'[v] # file[v], NEW p \in Payloads, file[v] = p
       PROVE  /\ \A r \in Requests : pc[r] = "staged" => Key(r) # p[1]
              /\ doubt[p[1]] = None /\ rows[v] # p /\ file'[v] = None
  <2>1. file[v] # None
    BY <1>10, ConstantsAssumption DEF ConstantsAssumption
  <2> QED
    BY <1>1, <1>10, <2>1 DEF Stored, Deletable
<1>11. Promoted'
  <2>1. ASSUME NEW r \in Requests, pc'[r] = "staged" PROVE file'[desc'[r].ver] = desc'[r].payload
    <3>1. CASE IsStaged(r)
        BY <3>1 DEF IsStaged
    <3>2. CASE Same(r)
      <4>1. desc[r].ver \in Versions /\ desc[r].payload \in Payloads /\ desc[r].payload[1] = Key(r)
        BY <1>0, <2>1, <3>2, DescriptorTyped DEF Same, HasDescriptor
      <4>2. pc[r] = "staged" /\ file[desc[r].ver] = desc[r].payload
        BY <1>0, <2>1, <3>2 DEF Same, Promoted
      <4>3. file'[desc[r].ver] = file[desc[r].ver]
        BY <1>10, <4>1, <4>2
      <4> QED
        BY <3>2, <4>2, <4>3 DEF Same
    <3> QED
        BY <1>1, <2>1, <3>1, <3>2 DEF Progress, Quiet, Moved, IsAdmitted, IsLocked, IsGated,
           IsFailed, IsCommitted, IsClassified
  <2>2. ASSUME NEW k \in Keys, doubt'[k] # None, doubt'[k] = doubt[k]
        PROVE  /\ file'[doubt[k].ver] = doubt[k].payload
               /\ receipt'[k] = None /\ rows'[doubt[k].ver] = None
    <3>1. /\ doubt[k] \in Descriptors /\ doubt[k].payload[1] = k
          /\ file[doubt[k].ver] = doubt[k].payload
          /\ receipt[k] = None /\ rows[doubt[k].ver] = None
        BY <1>0, <2>2 DEF TypeOK, Owned, Promoted
    <3>2. doubt[k].ver \in Versions /\ doubt[k].payload \in Payloads
        BY <3>1 DEF Descriptors
    <3>3. file'[doubt[k].ver] = doubt[k].payload
        BY <1>10, <2>2, <3>1, <3>2
    <3>4. ASSUME NEW l \in Keys, NEW d \in Descriptors, Commits(l, d) PROVE l # k /\ d.ver # doubt[k].ver
      <4>1. l # k
        BY <1>0, <2>2, <3>4 DEF Commits, OneHolder
      <4> QED
        BY <1>9, <3>1, <3>4, <4>1
    <3>5. receipt'[k] = None /\ rows'[doubt[k].ver] = None
        BY <1>0, <1>1, <3>1, <3>2, <3>4, RecordedWrites DEF Recorded
    <3> QED
        BY <3>3, <3>5
  <2>3. ASSUME NEW k \in Keys, NEW r \in Requests, NewDoubt(k, r)
        PROVE  /\ file'[doubt'[k].ver] = doubt'[k].payload
               /\ receipt'[k] = None /\ rows'[doubt'[k].ver] = None
    <3>1. desc[r].ver \in Versions /\ desc[r].payload \in Payloads /\ desc[r].payload[1] = Key(r)
        BY <1>0, <2>3, DescriptorTyped DEF NewDoubt, HasDescriptor
    <3>2. file[desc[r].ver] = desc[r].payload
        BY <1>0, <2>3 DEF NewDoubt, Promoted
    <3>3. file'[desc[r].ver] = file[desc[r].ver]
        BY <1>10, <2>3, <3>1, <3>2 DEF NewDoubt
    <3> QED
        BY <2>3, <3>2, <3>3 DEF NewDoubt
  <2> QED
    BY <1>1, <2>1, <2>2, <2>3 DEF Promoted, Doubtful
<1>12. ASSUME NEW d \in Descriptors, NEW v, Stands(d, v),
              \A r \in Requests : pc[r] = "staged" => Key(r) # d.payload[1],
              doubt[d.payload[1]] = None
       PROVE  Stands(d, v)'
  <2>1. d.ver \in Versions /\ d.payload \in Payloads
    BY DEF Descriptors
  <2>2. d.payload # None
    BY <2>1, ConstantsAssumption DEF ConstantsAssumption
  <2>3. ASSUME NEW k \in Keys, NEW e \in Descriptors, Commits(k, e) PROVE k # d.payload[1]
    BY <1>12, <2>3, ConstantsAssumption DEF Commits, ConstantsAssumption
  <2>4. ASSUME rows'[d.ver] = d.payload PROVE rows[d.ver] = d.payload
    <3>1. ASSUME NEW k \in Keys, NEW e \in Descriptors, Commits(k, e), e.ver = d.ver PROVE FALSE
        BY <1>0, <2>3, <2>4, <3>1, RecordedWrites DEF Commits
    <3>2. ASSUME NEW k \in Keys, NEW e \in Descriptors, Commits(k, e), e.ver # d.ver
          PROVE  rows'[d.ver] = rows[d.ver]
        BY <1>0, <2>1, <3>2, RecordedWrites
    <3> QED
        BY <1>1, <2>4, <3>1, <3>2 DEF Recorded
  <2>5. rows[d.ver] # None => rows'[d.ver] # None
    BY <1>3, <2>1
  <2> QED
    BY <1>12, <2>4, <2>5 DEF Stands
<1>13. VerdictStands'
  <2>1. ASSUME NEW r \in Requests, pc'[r] = "classified" PROVE Stands(desc[r], verdict[r])'
    <3>1. CASE IsClassified(r)
        BY <3>1 DEF IsClassified, Stands
    <3>2. CASE Same(r)
      <4>1. pc[r] = "classified" /\ desc'[r] = desc[r] /\ verdict'[r] = verdict[r]
        BY <2>1, <3>2 DEF Same
      <4>2. desc[r] \in Descriptors /\ desc[r].payload[1] = Key(r)
        BY <1>0, <4>1, DescriptorTyped DEF HasDescriptor
      <4>3. /\ Stands(desc[r], verdict[r]) /\ doubt[Key(r)] = None
            /\ \A s \in Requests : pc[s] = "staged" => Key(s) # Key(r)
        BY <1>0, <4>1 DEF VerdictStands, OneHolder, InGate
      <4> QED
        BY <1>12, <4>1, <4>2, <4>3 DEF Stands
    <3> QED
        BY <1>1, <2>1, <3>1, <3>2 DEF Progress, Quiet, Moved, IsAdmitted, IsLocked, IsGated, IsStaged,
           IsFailed, IsCommitted
  <2>2. ASSUME scan' # None PROVE Stands(scan.desc, scan.verdict)'
    <3>1. CASE NewScan
        BY <3>1 DEF NewScan, Stands
    <3>2. CASE scan' = scan
      <4>1. scan.desc \in Descriptors /\ scan.desc.payload[1] = scan.key
        BY <1>0, <2>2, <3>2 DEF TypeOK, ScanEntries, Owned
      <4>2. /\ Stands(scan.desc, scan.verdict) /\ doubt[scan.key] = None
            /\ \A s \in Requests : pc[s] = "staged" => Key(s) # scan.key
        BY <1>0, <2>2, <3>2 DEF VerdictStands, OneHolder, InGate
      <4> QED
        BY <1>12, <3>2, <4>1, <4>2 DEF Stands
    <3> QED
        BY <1>1, <2>2, <3>1, <3>2 DEF Scanned
  <2>3. ASSUME NEW r \in Requests, pc'[r] = "committed"
        PROVE  rows'[desc'[r].ver] # None /\ receipt'[Key(r)'] # None
    <3>1. CASE IsCommitted(r)
        BY <3>1 DEF IsCommitted, Key
    <3>2. CASE Same(r)
      <4>1. pc[r] = "committed" /\ desc'[r] = desc[r] /\ Key(r)' = Key(r)
        BY <2>3, <3>2 DEF Same, Key
      <4>2. desc[r].ver \in Versions /\ Key(r) \in Keys
        BY <1>0, <4>1, DescriptorTyped DEF HasDescriptor
      <4> QED
        BY <1>0, <1>2, <1>3, <4>1, <4>2 DEF VerdictStands
    <3> QED
        BY <1>1, <2>3, <3>1, <3>2 DEF Progress, Quiet, Moved, IsAdmitted, IsLocked, IsGated, IsStaged,
           IsFailed, IsClassified
  <2> QED
    BY <2>1, <2>2, <2>3 DEF VerdictStands
<1>14. OneVersion'
  <2>1. CASE UNCHANGED <<current, rows, receipt>>
    BY <1>0, <2>1 DEF OneVersion
  <2>2. ASSUME NEW k \in Keys, NEW d \in Descriptors, Commits(k, d) PROVE OneVersion'
    <3>1. /\ rows'[d.ver] = d.payload /\ d.payload # None /\ d.payload[1] = k /\ rows[d.ver] = None
          /\ \A v \in Versions \ {d.ver} : rows'[v] = rows[v]
          /\ receipt'[k] # None /\ receipt'[k].ver = d.ver /\ receipt[k] = None
          /\ \A l \in Keys \ {k} : receipt'[l] = receipt[l]
        BY <1>0, <2>2, RecordedWrites DEF Commits
    <3>2. d.ver \in Versions
        BY DEF Descriptors
    <3>3. ASSUME NEW l \in Keys
          PROVE  {v \in Versions : rows'[v] # None /\ rows'[v][1] = l} =
                    IF receipt'[l] = None THEN {} ELSE {receipt'[l].ver}
      <4>1. {v \in Versions : rows[v] # None /\ rows[v][1] = l} =
                IF receipt[l] = None THEN {} ELSE {receipt[l].ver}
        BY <1>0 DEF OneVersion
      <4>2. CASE l = k
        BY <3>1, <3>2, <4>1, <4>2
      <4>3. CASE l # k
        BY <3>1, <3>2, <4>1, <4>3
      <4> QED
        BY <4>2, <4>3
    <3> QED
        BY <3>3 DEF OneVersion
  <2> QED
    BY <1>1, <2>1, <2>2 DEF Recorded
<1>15. Answered'
    BY <1>0, <1>1, <1>2 DEF Answered, Told
<1>16. CommittedIsReadable'
  <2> SUFFICES ASSUME NEW v \in Versions, rows'[v] # None PROVE file'[v] = rows'[v]
    BY DEF CommittedIsReadable
  <2>1. CASE rows[v] # None
    <3>1. rows'[v] = rows[v] /\ file[v] = rows[v] /\ rows[v] \in Payloads
        BY <1>0, <1>3, <2>1 DEF CommittedIsReadable, TypeOK
    <3> QED
        BY <1>10, <3>1
  <2>2. CASE rows[v] = None
    <3>1. PICK k \in Keys, d \in Descriptors : Commits(k, d)
        BY <1>1, <2>2 DEF Recorded
    <3>2. v = d.ver /\ rows'[v] = d.payload
        BY <1>0, <2>2, <3>1, RecordedWrites
    <3> QED
        BY <3>1, <3>2 DEF Commits
  <2> QED
    BY <2>1, <2>2
<1>17. StrayIsStaged'
  <2> SUFFICES ASSUME NEW v \in Versions, file'[v] # None, rows'[v] = None PROVE Named(v)'
    BY DEF StrayIsStaged, Named
  <2>1. rows[v] = None
    BY <1>3
  <2>2. CASE file'[v] = file[v]
    <3>1. PICK k \in whole : stage[k] # None /\ stage[k].ver = v /\ stage[k].payload = file[v]
        BY <1>0, <2>1, <2>2 DEF StrayIsStaged
    <3>2. k \in whole' /\ stage'[k] = stage[k]
        BY <1>1, <2>1, <2>2, <3>1 DEF Stored
    <3> QED
        BY <2>2, <3>1, <3>2 DEF Named
  <2>3. CASE file'[v] # file[v]
    BY <1>1, <2>3 DEF Stored
  <2> QED
    BY <2>2, <2>3
<1> QED
    BY <1>5, <1>6, <1>7, <1>8, <1>11, <1>13, <1>14, <1>15, <1>16, <1>17 DEF Inductive

LEMMA InductiveHolds == Spec => []Inductive
BY InitInductive, NextInductive, PTL DEF Spec

-----------------------------------------------------------------------------
(* Results *)

\* Rows, files, stagings and requests have their types, through any crash.
THEOREM TypeCorrect == Spec => []TypeOK
<1>1. Inductive => TypeOK
    BY DEF Inductive
<1> QED
    BY <1>1, InductiveHolds, PTL

\* A committed version has exactly its bytes in every reachable state: neither a
\* failed request nor the reconciler deletes what a commit in doubt may need.
THEOREM CommittedReadable == Spec => []CommittedIsReadable
<1>1. Inductive => CommittedIsReadable
    BY DEF Inductive
<1> QED
    BY <1>1, InductiveHolds, PTL

\* Bytes without a row are named by a complete staging, after any crash inside
\* stage_artifact or reconcile_descriptor, so the reconciler can find them.
THEOREM StraysAreStaged == Spec => []StrayIsStaged
<1>1. Inductive => StrayIsStaged
    BY DEF Inductive
<1> QED
    BY <1>1, InductiveHolds, PTL

\* Who was told of success has a receipt and exactly the one version it names,
\* however often the request was repeated.
THEOREM AnswersAreDurable == Spec => []AnswerIsDurable
<1>1. Inductive => AnswerIsDurable
    BY DEF Inductive, TypeOK, Answered, OneVersion, AnswerIsDurable
<1> QED
    BY <1>1, InductiveHolds, PTL
=============================================================================
