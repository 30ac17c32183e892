----------------------- MODULE SearchProjectionProofs -----------------------
(***************************************************************************)
(* Theorems about SearchProjection, for every set of documents, workers    *)
(* and claim tokens and every bound.                                       *)
(***************************************************************************)
EXTENDS SearchProjection, SequenceTheorems, TLAPS

\* Tasks exist for versions that were written; what is not live is private.
Versioned ==
    \A d \in Docs :
        /\ phase[d] = "new" => version[d] = 0
        /\ phase[d] # "live" => vis[d] = "private"
        /\ \A v \in Versions : task[d][v] # "none" => v <= version[d]

\* The advisory lock of a document has one holder.
OneProjector ==
    \A w, x \in Workers :
        pc[w] \in Projecting /\ pc[x] \in Projecting /\ claim[w].doc = claim[x].doc => w = x

\* What _project has found under its locks stays true to its end.
ProjectorHolds ==
    \A w \in Workers : pc[w] \in Projecting =>
        LET d == claim[w].doc  v == claim[w].ver IN
        /\ LeasedTask(w)
        /\ RowExists(d) => v = version[d]
        /\ pc[w] \in {"index", "putting"} => RowExists(d) /\ (phase[d] = "live" => vis[d] = "public")
        /\ pc[w] \in {"remove", "deleting"} => (phase[d] = "live" => vis[d] = "private")

\* A request that a worker waits for is the worker's last one, and after it there
\* are only deletions, of a document that is not live any more.
Attended ==
    /\ \A i \in DOMAIN queue, w \in Workers : queue[i].from = w =>
        /\ pc[w] = IF queue[i].kind = "put" THEN "putting" ELSE "deleting"
        /\ reply[w] = "none"
        /\ queue[i].doc = claim[w].doc /\ queue[i].ver = claim[w].ver
    /\ \A i, j \in DOMAIN queue :
        i < j /\ queue[i].from \in Workers /\ queue[i].doc = queue[j].doc =>
            queue[j].kind = "delete" /\ phase[queue[j].doc] # "live" /\ queue[j].from # queue[i].from

\* When it is answered the index shows it, unless the document is not live.
Replied ==
    \A w \in Workers : pc[w] \in {"putting", "deleting"} /\ reply[w] # "none" =>
        LET d == claim[w].doc IN
        /\ \A i \in QueuedFor(d) : queue[i].kind = "delete" /\ phase[d] # "live"
        /\ reply[w] = "ok" /\ phase[d] = "live" =>
            index[d] = IF pc[w] = "putting" THEN claim[w].ver ELSE 0

\* Requests reach the index in the order of the versions.
InOrder ==
    /\ \A d \in Docs : index[d] <= version[d]
    /\ \A i \in DOMAIN queue : queue[i].kind = "put" =>
        index[queue[i].doc] <= queue[i].ver /\ queue[i].ver <= version[queue[i].doc]
    /\ \A i, j \in DOMAIN queue :
        i < j /\ queue[i].doc = queue[j].doc /\ queue[i].kind = "put" /\ queue[j].kind = "put" =>
            queue[i].ver <= queue[j].ver

\* A rebuild runs alone on an index that it has emptied.
Barrier ==
    /\ mode # "serving" => erasing = NoDoc /\ \A w \in Workers : pc[w] = "idle"
    /\ mode = "indexing" =>
        /\ queue = <<>>
        /\ \A d \in Docs :
            IF d \in rebuilt THEN index[d] = version[d] /\ phase[d] = "live" /\ vis[d] = "public"
            ELSE index[d] = 0

Inductive ==
    /\ TypeOK
    /\ Versioned
    /\ OneProjector
    /\ ProjectorHolds
    /\ Attended
    /\ Replied
    /\ InOrder
    /\ Barrier
    /\ ConsumedTaskMeansMirrored
    /\ ErasedMeansAbsent
    /\ DeadLetterIsCurrent

-----------------------------------------------------------------------------
(* Types *)

\* The initial state is well typed.
LEMMA InitTypeOK == Init => TypeOK
BY BoundsAssumption, NamesAssumption
   DEF BoundsAssumption, NamesAssumption, Init, TypeOK, DocTypes, TaskTypes, WorkerTypes,
       MeiliTypes, AdminTypes, Versions, Clients, TaskStates, PCs, NoDoc

\* A working process has a well-typed claim.
LEMMA ClaimFields ==
    ASSUME TypeOK, NEW w \in Workers, pc[w] # "idle"
    PROVE  claim[w].doc \in Docs /\ claim[w].ver \in Versions /\ claim[w].token \in Tokens
BY DEF TypeOK, WorkerTypes, Claim

\* Giving up on requests only forgets who waits for them.
LEMMA AbandonType ==
    ASSUME queue \in Seq(Op), NEW c
    PROVE  Abandon(c) \in Seq(Op)
<1>1. \A i \in DOMAIN queue : queue[i] \in Op
    OBVIOUS
<1>2. \A i \in DOMAIN queue : [queue[i] EXCEPT !.from = NoClient] \in Op
    BY <1>1 DEF Op
<1>3. Abandon(c) \in [1..Len(queue) -> Op] /\ Len(queue) \in Nat
    BY <1>1, <1>2 DEF Abandon
<1> QED
    BY <1>3, SeqDef

\* Giving up on every request keeps the queue of requests typed.
LEMMA AbandonAllType ==
    ASSUME queue \in Seq(Op)
    PROVE  AbandonAll \in Seq(Op)
<1>1. \A i \in DOMAIN queue : queue[i] \in Op
    OBVIOUS
<1>2. \A i \in DOMAIN queue : [queue[i] EXCEPT !.from = NoClient] \in Op
    BY <1>1 DEF Op
<1>3. AbandonAll \in [1..Len(queue) -> Op] /\ Len(queue) \in Nat
    BY <1>1, <1>2 DEF AbandonAll
<1> QED
    BY <1>3, SeqDef

\* A consumed task is a well-typed task.
LEMMA DeleteTaskTypes ==
    ASSUME TypeOK, NEW w \in Workers, pc[w] # "idle", DeleteTask(w)
    PROVE  TaskTypes'
BY ClaimFields, BoundsAssumption DEF BoundsAssumption, TypeOK, TaskTypes, DeleteTask, TaskStates

\* A submitted request makes a well-typed queue.
LEMMA SubmitTypes ==
    ASSUME TypeOK, NEW c \in Clients, NEW k \in {"put", "delete"}, NEW d \in Docs,
           NEW v \in Versions, Submit(c, k, d, v)
    PROVE  MeiliTypes'
<1>1. [kind |-> k, doc |-> d, ver |-> v, from |-> c] \in Op
    BY DEF Op
<1> QED
    BY <1>1 DEF TypeOK, MeiliTypes, Submit

\* Every step of the projection, the eraser, Meilisearch and the operator
\* preserves the types.
LEMMA NextTypeOK == TypeOK /\ [Next]_vars => TypeOK'
<1> SUFFICES ASSUME TypeOK, [Next]_vars PROVE TypeOK'
    OBVIOUS
<1> USE BoundsAssumption, NamesAssumption DEF BoundsAssumption, NamesAssumption
<1>1. ASSUME NEW d \in Docs, Create(d) PROVE TypeOK'
  <2>1. DocTypes'
    BY <1>1 DEF TypeOK, DocTypes, docVars, Versions, Create
  <2>2. TaskTypes'
    BY <1>1 DEF TypeOK, TaskTypes, taskVars, Versions, TaskStates, WorkerTypes, Claim, Create
  <2>3. WorkerTypes'
    BY <1>1 DEF TypeOK, WorkerTypes, workerVars, Create
  <2>4. MeiliTypes'
    BY <1>1 DEF TypeOK, MeiliTypes, meiliVars, Create
  <2>5. AdminTypes'
    BY <1>1 DEF TypeOK, AdminTypes, docVars, adminVars, Create
  <2> QED
    BY <2>1, <2>2, <2>3, <2>4, <2>5 DEF TypeOK
<1>2. ASSUME NEW d \in Docs, Update(d) PROVE TypeOK'
  <2>1. DocTypes'
    BY <1>2 DEF TypeOK, DocTypes, docVars, Versions, Update
  <2>2. TaskTypes'
    BY <1>2 DEF TypeOK, TaskTypes, taskVars, Versions, TaskStates, WorkerTypes, Claim, Update
  <2>3. WorkerTypes'
    BY <1>2 DEF TypeOK, WorkerTypes, workerVars, Update
  <2>4. MeiliTypes'
    BY <1>2 DEF TypeOK, MeiliTypes, meiliVars, Update
  <2>5. AdminTypes'
    BY <1>2 DEF TypeOK, AdminTypes, docVars, adminVars, Update
  <2> QED
    BY <2>1, <2>2, <2>3, <2>4, <2>5 DEF TypeOK
<1>3. ASSUME NEW d \in Docs, Conceal(d) PROVE TypeOK'
  <2>1. DocTypes'
    BY <1>3 DEF TypeOK, DocTypes, docVars, Versions, PlannedUnindex, Conceal
  <2>2. TaskTypes'
    BY <1>3 DEF TypeOK, TaskTypes, taskVars, Conceal
  <2>3. WorkerTypes'
    BY <1>3 DEF TypeOK, WorkerTypes, workerVars, Conceal
  <2>4. MeiliTypes'
    BY <1>3 DEF TypeOK, MeiliTypes, meiliVars, Conceal
  <2>5. AdminTypes'
    BY <1>3 DEF TypeOK, AdminTypes, docVars, adminVars, DocTypes, NoDoc, PlannedUnindex, Conceal
  <2> QED
    BY <2>1, <2>2, <2>3, <2>4, <2>5 DEF TypeOK
<1>4. ASSUME NEW d \in Docs, PlaceHold(d) PROVE TypeOK'
  <2>1. DocTypes'
    BY <1>4 DEF TypeOK, DocTypes, docVars, Versions, RowExists, PlaceHold
  <2>2. TaskTypes'
    BY <1>4 DEF TypeOK, TaskTypes, taskVars, PlaceHold
  <2>3. WorkerTypes'
    BY <1>4 DEF TypeOK, WorkerTypes, workerVars, PlaceHold
  <2>4. MeiliTypes'
    BY <1>4 DEF TypeOK, MeiliTypes, meiliVars, PlaceHold
  <2>5. AdminTypes'
    BY <1>4 DEF TypeOK, AdminTypes, docVars, adminVars, PlaceHold
  <2> QED
    BY <2>1, <2>2, <2>3, <2>4, <2>5 DEF TypeOK
<1>5. ASSUME NEW d \in Docs, ReleaseHold(d) PROVE TypeOK'
  <2>1. DocTypes'
    BY <1>5 DEF TypeOK, DocTypes, docVars, Versions, ReleaseHold
  <2>2. TaskTypes'
    BY <1>5 DEF TypeOK, TaskTypes, taskVars, ReleaseHold
  <2>3. WorkerTypes'
    BY <1>5 DEF TypeOK, WorkerTypes, workerVars, ReleaseHold
  <2>4. MeiliTypes'
    BY <1>5 DEF TypeOK, MeiliTypes, meiliVars, ReleaseHold
  <2>5. AdminTypes'
    BY <1>5 DEF TypeOK, AdminTypes, docVars, adminVars, ReleaseHold
  <2> QED
    BY <2>1, <2>2, <2>3, <2>4, <2>5 DEF TypeOK
<1>6. ASSUME NEW d \in Docs, BeginUnindex(d) PROVE TypeOK'
  <2>1. DocTypes'
    BY <1>6 DEF TypeOK, DocTypes, docVars, BeginUnindex
  <2>2. TaskTypes'
    BY <1>6 DEF TypeOK, TaskTypes, taskVars, BeginUnindex
  <2>3. WorkerTypes'
    BY <1>6 DEF TypeOK, WorkerTypes, workerVars, BeginUnindex
  <2>4. MeiliTypes'
    BY <1>6 DEF TypeOK, MeiliTypes, meiliVars, DocTypes, WorkerTypes, Claim, Clients, Versions, Op, Submit, BeginUnindex
  <2>5. AdminTypes'
    BY <1>6 DEF TypeOK, AdminTypes, docVars, adminVars, DocTypes, NoDoc, Submit, BeginUnindex
  <2> QED
    BY <2>1, <2>2, <2>3, <2>4, <2>5 DEF TypeOK
<1>7. ASSUME NEW d \in Docs, EraseVersion(d) PROVE TypeOK'
  <2>1. DocTypes'
    BY <1>7 DEF TypeOK, DocTypes, docVars, Versions, EraseVersion
  <2>2. TaskTypes'
    BY <1>7 DEF TypeOK, TaskTypes, taskVars, EraseVersion
  <2>3. WorkerTypes'
    BY <1>7 DEF TypeOK, WorkerTypes, workerVars, EraseVersion
  <2>4. MeiliTypes'
    BY <1>7 DEF TypeOK, MeiliTypes, meiliVars, EraseVersion
  <2>5. AdminTypes'
    BY <1>7 DEF TypeOK, AdminTypes, docVars, adminVars, EraseVersion
  <2> QED
    BY <2>1, <2>2, <2>3, <2>4, <2>5 DEF TypeOK
<1>8. ASSUME NEW d \in Docs, EraseDocument(d) PROVE TypeOK'
  <2>1. DocTypes'
    BY <1>8 DEF TypeOK, DocTypes, docVars, Versions, Tombstone, EraseDocument
  <2>2. TaskTypes'
    BY <1>8 DEF TypeOK, DocTypes, TaskTypes, Tombstone, TaskStates, EraseDocument
  <2>3. WorkerTypes'
    BY <1>8 DEF TypeOK, WorkerTypes, workerVars, EraseDocument
  <2>4. MeiliTypes'
    BY <1>8 DEF TypeOK, MeiliTypes, meiliVars, EraseDocument
  <2>5. AdminTypes'
    BY <1>8 DEF TypeOK, AdminTypes, docVars, adminVars, EraseDocument
  <2> QED
    BY <2>1, <2>2, <2>3, <2>4, <2>5 DEF TypeOK
<1>9. ASSUME NEW d \in Docs, Reindex(d) PROVE TypeOK'
  <2>1. DocTypes'
    BY <1>9 DEF TypeOK, DocTypes, docVars, Reindex
  <2>2. TaskTypes'
    BY <1>9 DEF TypeOK, TaskTypes, taskVars, Reindex
  <2>3. WorkerTypes'
    BY <1>9 DEF TypeOK, WorkerTypes, workerVars, Reindex
  <2>4. MeiliTypes'
    BY <1>9 DEF TypeOK, MeiliTypes, meiliVars, DocTypes, WorkerTypes, Claim, Clients, Versions, Op, RowExists, Reindex
  <2>5. AdminTypes'
    BY <1>9 DEF TypeOK, AdminTypes, docVars, adminVars, DocTypes, NoDoc, RowExists, Reindex
  <2> QED
    BY <2>1, <2>2, <2>3, <2>4, <2>5 DEF TypeOK
<1>10. ASSUME NEW d \in Docs, NEW v \in Versions, RetryDeadLetter(d, v) PROVE TypeOK'
  <2>1. DocTypes'
    BY <1>10 DEF TypeOK, DocTypes, docVars, RetryDeadLetter
  <2>2. TaskTypes'
    BY <1>10 DEF TypeOK, TaskTypes, taskVars, Versions, TaskStates, WorkerTypes, Claim, RetryDeadLetter
  <2>3. WorkerTypes'
    BY <1>10 DEF TypeOK, WorkerTypes, workerVars, RetryDeadLetter
  <2>4. MeiliTypes'
    BY <1>10 DEF TypeOK, MeiliTypes, meiliVars, RetryDeadLetter
  <2>5. AdminTypes'
    BY <1>10 DEF TypeOK, AdminTypes, docVars, adminVars, RetryDeadLetter
  <2> QED
    BY <2>1, <2>2, <2>3, <2>4, <2>5 DEF TypeOK
<1>11. ASSUME NEW w \in Workers, ClaimTask(w) PROVE TypeOK'
  <2>1. DocTypes'
    BY <1>11 DEF TypeOK, DocTypes, docVars, ClaimTask
  <2>2. TaskTypes'
    BY <1>11 DEF TypeOK, TaskTypes, taskVars, Versions, TaskStates, WorkerTypes, Claim, Fault, ClaimTask
  <2>3. WorkerTypes'
    BY <1>11 DEF TypeOK, WorkerTypes, workerVars, PCs, Claim, Fault, ClaimTask
  <2>4. MeiliTypes'
    BY <1>11 DEF TypeOK, MeiliTypes, meiliVars, ClaimTask
  <2>5. AdminTypes'
    BY <1>11 DEF TypeOK, AdminTypes, docVars, adminVars, DocTypes, NoDoc, Fault, ClaimTask
  <2> QED
    BY <2>1, <2>2, <2>3, <2>4, <2>5 DEF TypeOK
<1>12. ASSUME NEW w \in Workers, BeginProject(w) PROVE TypeOK'
  <2>1. DocTypes'
    BY <1>12 DEF TypeOK, DocTypes, docVars, BeginProject
  <2>2. TaskTypes'
    BY <1>12, DeleteTaskTypes DEF TypeOK, TaskTypes, taskVars, BeginProject
  <2>3. WorkerTypes'
    BY <1>12 DEF TypeOK, WorkerTypes, workerVars, PCs, Claim, Idle, DeleteTask, BeginProject
  <2>4. MeiliTypes'
    BY <1>12 DEF TypeOK, MeiliTypes, meiliVars, BeginProject
  <2>5. AdminTypes'
    BY <1>12 DEF TypeOK, AdminTypes, docVars, adminVars, BeginProject
  <2> QED
    BY <2>1, <2>2, <2>3, <2>4, <2>5 DEF TypeOK
<1>13. ASSUME NEW w \in Workers, IndexDocument(w) PROVE TypeOK'
  <2>1. DocTypes'
    BY <1>13 DEF TypeOK, DocTypes, docVars, IndexDocument
  <2>2. TaskTypes'
    BY <1>13 DEF TypeOK, TaskTypes, taskVars, IndexDocument
  <2>3. WorkerTypes'
    BY <1>13 DEF TypeOK, WorkerTypes, workerVars, PCs, Claim, Submit, IndexDocument
  <2>4. MeiliTypes'
    <3>1. claim[w].doc \in Docs /\ claim[w].ver \in Versions /\ w \in Clients
        BY <1>13, ClaimFields DEF IndexDocument, Clients
    <3> QED
        BY <1>13, <3>1, SubmitTypes DEF IndexDocument, TypeOK, MeiliTypes, meiliVars
  <2>5. AdminTypes'
    BY <1>13 DEF TypeOK, AdminTypes, docVars, adminVars, IndexDocument
  <2> QED
    BY <2>1, <2>2, <2>3, <2>4, <2>5 DEF TypeOK
<1>14. ASSUME NEW w \in Workers, RemoveDocument(w) PROVE TypeOK'
  <2>1. DocTypes'
    BY <1>14 DEF TypeOK, DocTypes, docVars, RemoveDocument
  <2>2. TaskTypes'
    BY <1>14 DEF TypeOK, TaskTypes, taskVars, RemoveDocument
  <2>3. WorkerTypes'
    BY <1>14 DEF TypeOK, WorkerTypes, workerVars, PCs, Claim, Submit, RemoveDocument
  <2>4. MeiliTypes'
    <3>1. claim[w].doc \in Docs /\ claim[w].ver \in Versions /\ w \in Clients
        BY <1>14, ClaimFields DEF RemoveDocument, Clients
    <3> QED
        BY <1>14, <3>1, SubmitTypes DEF RemoveDocument
  <2>5. AdminTypes'
    BY <1>14 DEF TypeOK, AdminTypes, docVars, adminVars, RemoveDocument
  <2> QED
    BY <2>1, <2>2, <2>3, <2>4, <2>5 DEF TypeOK
<1>15. ASSUME NEW w \in Workers, FinishProject(w) PROVE TypeOK'
  <2>1. DocTypes'
    BY <1>15 DEF TypeOK, DocTypes, docVars, FinishProject
  <2>2. TaskTypes'
    BY <1>15, DeleteTaskTypes DEF TypeOK, TaskTypes, taskVars, FinishProject
  <2>3. WorkerTypes'
    BY <1>15 DEF TypeOK, WorkerTypes, workerVars, PCs, Claim, Idle, DeleteTask, FinishProject
  <2>4. MeiliTypes'
    BY <1>15 DEF TypeOK, MeiliTypes, meiliVars, DocTypes, WorkerTypes, Claim, Clients, Versions, Op, Idle, DeleteTask, FinishProject
  <2>5. AdminTypes'
    BY <1>15 DEF TypeOK, AdminTypes, docVars, adminVars, FinishProject
  <2> QED
    BY <2>1, <2>2, <2>3, <2>4, <2>5 DEF TypeOK
<1>16. ASSUME NEW w \in Workers, RecordFailure(w) PROVE TypeOK'
  <2>1. DocTypes'
    BY <1>16 DEF TypeOK, DocTypes, docVars, RecordFailure
  <2>2. TaskTypes'
    <3>1. CASE DeleteTask(w)
        BY <1>16, <3>1, DeleteTaskTypes DEF RecordFailure
    <3>2. CASE UNCHANGED taskVars
        BY <3>2 DEF TypeOK, TaskTypes, taskVars
    <3>3. NextTaskState(w) \in TaskStates
        BY DEF NextTaskState, TaskStates
    <3>4. claim[w].doc \in Docs /\ claim[w].ver \in Versions
        BY <1>16, ClaimFields DEF RecordFailure
    <3>5. CASE /\ task' = [task EXCEPT ![claim[w].doc][claim[w].ver] = NextTaskState(w)]
               /\ token' = [token EXCEPT ![claim[w].doc][claim[w].ver] = NoToken]
               /\ UNCHANGED attempts
        BY <3>3, <3>4, <3>5 DEF TypeOK, TaskTypes
    <3> QED
        BY <1>16, <3>1, <3>2, <3>5 DEF RecordFailure
  <2>3. WorkerTypes'
    BY <1>16 DEF TypeOK, WorkerTypes, workerVars, PCs, Claim, Idle, DeleteTask, NextTaskState, RecordFailure
  <2>4. MeiliTypes'
    BY <1>16 DEF TypeOK, MeiliTypes, meiliVars, RecordFailure
  <2>5. AdminTypes'
    BY <1>16 DEF TypeOK, AdminTypes, docVars, adminVars, RecordFailure
  <2> QED
    BY <2>1, <2>2, <2>3, <2>4, <2>5 DEF TypeOK
<1>17. ASSUME NEW w \in Workers, ProjectException(w) PROVE TypeOK'
  <2>1. DocTypes'
    BY <1>17 DEF TypeOK, DocTypes, docVars, ProjectException
  <2>2. TaskTypes'
    BY <1>17 DEF TypeOK, TaskTypes, taskVars, ProjectException
  <2>3. WorkerTypes'
    BY <1>17 DEF TypeOK, WorkerTypes, PCs, Projecting, ProjectException
  <2>4. MeiliTypes'
    BY <1>17, AbandonType DEF TypeOK, MeiliTypes, Clients, ProjectException
  <2>5. AdminTypes'
    BY <1>17 DEF TypeOK, AdminTypes, docVars, adminVars, DocTypes, NoDoc, Fault, Abandon, ProjectException
  <2> QED
    BY <2>1, <2>2, <2>3, <2>4, <2>5 DEF TypeOK
<1>18. ASSUME NEW w \in Workers, Crash(w) PROVE TypeOK'
  <2>1. DocTypes'
    BY <1>18 DEF TypeOK, DocTypes, docVars, Crash
  <2>2. TaskTypes'
    BY <1>18 DEF TypeOK, TaskTypes, taskVars, Crash
  <2>3. WorkerTypes'
    BY <1>18 DEF TypeOK, WorkerTypes, workerVars, PCs, Claim, Fault, Idle, Abandon, Crash
  <2>4. MeiliTypes'
    BY <1>18, AbandonType DEF TypeOK, MeiliTypes, Clients, Crash
  <2>5. AdminTypes'
    BY <1>18 DEF TypeOK, AdminTypes, docVars, adminVars, DocTypes, NoDoc, Fault, Idle, Abandon, Crash
  <2> QED
    BY <2>1, <2>2, <2>3, <2>4, <2>5 DEF TypeOK
<1>19. CASE FinishUnindex
  <2>1. DocTypes'
    BY <1>19 DEF TypeOK, DocTypes, docVars, Versions, AdminTypes, NoDoc, FailedUnindex, FinishUnindex
  <2>2. TaskTypes'
    BY <1>19 DEF TypeOK, TaskTypes, taskVars, FinishUnindex
  <2>3. WorkerTypes'
    BY <1>19 DEF TypeOK, WorkerTypes, workerVars, FinishUnindex
  <2>4. MeiliTypes'
    BY <1>19 DEF TypeOK, MeiliTypes, meiliVars, DocTypes, WorkerTypes, Claim, Clients, Versions, Op, FinishUnindex
  <2>5. AdminTypes'
    BY <1>19 DEF TypeOK, AdminTypes, docVars, adminVars, DocTypes, NoDoc, FinishUnindex
  <2> QED
    BY <2>1, <2>2, <2>3, <2>4, <2>5 DEF TypeOK
<1>20. CASE UnindexException
  <2>1. DocTypes'
    BY <1>20 DEF TypeOK, DocTypes, docVars, AdminTypes, NoDoc, FailedUnindex, UnindexException
  <2>2. TaskTypes'
    BY <1>20 DEF TypeOK, TaskTypes, taskVars, UnindexException
  <2>3. WorkerTypes'
    BY <1>20 DEF TypeOK, WorkerTypes, workerVars, UnindexException
  <2>4. MeiliTypes'
    BY <1>20, AbandonType DEF TypeOK, MeiliTypes, Clients, UnindexException
  <2>5. AdminTypes'
    BY <1>20 DEF TypeOK, AdminTypes, docVars, adminVars, DocTypes, NoDoc, Fault, Abandon, UnindexException
  <2> QED
    BY <2>1, <2>2, <2>3, <2>4, <2>5 DEF TypeOK
<1>21. CASE MeiliApply
  <2>1. DocTypes'
    BY <1>21 DEF TypeOK, DocTypes, docVars, MeiliApply
  <2>2. TaskTypes'
    BY <1>21 DEF TypeOK, TaskTypes, taskVars, MeiliApply
  <2>3. WorkerTypes'
    BY <1>21 DEF TypeOK, WorkerTypes, workerVars, MeiliApply
  <2>4. MeiliTypes'
    <3>1. Head(queue) \in Op /\ Tail(queue) \in Seq(Op)
        BY <1>21 DEF MeiliApply, TypeOK, MeiliTypes
    <3>2. index' \in [Docs -> 0..MaxVersion]
        BY <1>21, <3>1 DEF MeiliApply, Applied, TypeOK, MeiliTypes, Op, Versions
    <3> QED
        BY <1>21, <3>1, <3>2 DEF MeiliApply, Answer, TypeOK, MeiliTypes
  <2>5. AdminTypes'
    BY <1>21 DEF TypeOK, AdminTypes, docVars, adminVars, MeiliApply
  <2> QED
    BY <2>1, <2>2, <2>3, <2>4, <2>5 DEF TypeOK
<1>22. CASE MeiliReject
  <2>1. DocTypes'
    BY <1>22 DEF TypeOK, DocTypes, docVars, MeiliReject
  <2>2. TaskTypes'
    BY <1>22 DEF TypeOK, TaskTypes, taskVars, MeiliReject
  <2>3. WorkerTypes'
    BY <1>22 DEF TypeOK, WorkerTypes, workerVars, MeiliReject
  <2>4. MeiliTypes'
    BY <1>22 DEF TypeOK, MeiliTypes, meiliVars, DocTypes, WorkerTypes, Claim, Clients, Versions, Op, Fault, Answer, MeiliReject
  <2>5. AdminTypes'
    BY <1>22 DEF TypeOK, AdminTypes, docVars, adminVars, DocTypes, NoDoc, Fault, Answer, MeiliReject
  <2> QED
    BY <2>1, <2>2, <2>3, <2>4, <2>5 DEF TypeOK
<1>23. CASE StopWriters
  <2>1. DocTypes'
    BY <1>23 DEF TypeOK, DocTypes, docVars, StopWriters
  <2>2. TaskTypes'
    BY <1>23 DEF TypeOK, TaskTypes, taskVars, StopWriters
  <2>3. WorkerTypes'
    BY <1>23 DEF TypeOK, WorkerTypes, workerVars, PCs, Claim, Fault, AbandonAll, StopWriters
  <2>4. MeiliTypes'
    BY <1>23, AbandonAllType DEF TypeOK, MeiliTypes, Clients, StopWriters
  <2>5. AdminTypes'
    BY <1>23 DEF TypeOK, AdminTypes, docVars, adminVars, DocTypes, NoDoc, Fault, AbandonAll, StopWriters
  <2> QED
    BY <2>1, <2>2, <2>3, <2>4, <2>5 DEF TypeOK
<1>24. CASE ResetIndex
  <2>1. DocTypes'
    BY <1>24 DEF TypeOK, DocTypes, docVars, ResetIndex
  <2>2. TaskTypes'
    BY <1>24 DEF TypeOK, TaskTypes, taskVars, ResetIndex
  <2>3. WorkerTypes'
    BY <1>24 DEF TypeOK, WorkerTypes, workerVars, ResetIndex
  <2>4. MeiliTypes'
    BY <1>24 DEF TypeOK, MeiliTypes, meiliVars, DocTypes, WorkerTypes, Claim, Clients, Versions, Op, ResetIndex
  <2>5. AdminTypes'
    BY <1>24 DEF TypeOK, AdminTypes, docVars, adminVars, DocTypes, NoDoc, ResetIndex
  <2> QED
    BY <2>1, <2>2, <2>3, <2>4, <2>5 DEF TypeOK
<1>25. CASE FinishRebuild
  <2>1. DocTypes'
    BY <1>25 DEF TypeOK, DocTypes, docVars, FinishRebuild
  <2>2. TaskTypes'
    BY <1>25 DEF TypeOK, TaskTypes, taskVars, Versions, TaskStates, WorkerTypes, Claim, RowExists, FinishRebuild
  <2>3. WorkerTypes'
    BY <1>25 DEF TypeOK, WorkerTypes, workerVars, FinishRebuild
  <2>4. MeiliTypes'
    BY <1>25 DEF TypeOK, MeiliTypes, meiliVars, FinishRebuild
  <2>5. AdminTypes'
    BY <1>25 DEF TypeOK, AdminTypes, docVars, adminVars, DocTypes, NoDoc, RowExists, FinishRebuild
  <2> QED
    BY <2>1, <2>2, <2>3, <2>4, <2>5 DEF TypeOK
<1>26. CASE RebuildFails
  <2>1. DocTypes'
    BY <1>26 DEF TypeOK, DocTypes, docVars, RebuildFails
  <2>2. TaskTypes'
    BY <1>26 DEF TypeOK, TaskTypes, taskVars, RebuildFails
  <2>3. WorkerTypes'
    BY <1>26 DEF TypeOK, WorkerTypes, workerVars, RebuildFails
  <2>4. MeiliTypes'
    BY <1>26 DEF TypeOK, MeiliTypes, meiliVars, RebuildFails
  <2>5. AdminTypes'
    BY <1>26 DEF TypeOK, AdminTypes, docVars, adminVars, DocTypes, NoDoc, Fault, RebuildFails
  <2> QED
    BY <2>1, <2>2, <2>3, <2>4, <2>5 DEF TypeOK
<1>27. CASE UNCHANGED vars
    BY <1>27 DEF TypeOK, DocTypes, TaskTypes, WorkerTypes, MeiliTypes, AdminTypes,
       vars, docVars, taskVars, workerVars, meiliVars, adminVars
<1> QED
    BY <1>1, <1>2, <1>3, <1>4, <1>5, <1>6, <1>7, <1>8, <1>9, <1>10, <1>11, <1>12, <1>13, <1>14, <1>15, <1>16, <1>17, <1>18, <1>19, <1>20, <1>21, <1>22, <1>23, <1>24, <1>25, <1>26, <1>27
    DEF Next, WorkerStep, EraserStep, RebuildStep

\* Every reachable state is well typed.
THEOREM TypeCorrect == Spec => []TypeOK
BY InitTypeOK, NextTypeOK, PTL DEF Spec

-----------------------------------------------------------------------------
(* What a step does to a document *)

DocSame(d) == phase'[d] = phase[d] /\ version'[d] = version[d] /\ vis'[d] = vis[d]
Created(d) ==
    /\ phase[d] = "new" /\ phase'[d] = "live" /\ version'[d] = 1
    /\ task'[d][1] = "pending"
Updated(d) ==
    /\ phase[d] = "live" /\ phase'[d] = "live"
    /\ version'[d] = version[d] + 1 /\ version'[d] \in Versions
    /\ ~AdvisoryLocked(d)
    /\ task'[d][version'[d]] = "pending"
    /\ \A v \in Versions : v < version'[d] => task'[d][v] # "dead_letter"
Hidden(d) ==
    phase[d] = "live" /\ phase'[d] = "concealed" /\ version'[d] = version[d] /\ vis'[d] = "private"
Gone(d) ==
    /\ phase[d] = "concealed" /\ phase'[d] = "erased"
    /\ version'[d] = version[d] /\ vis'[d] = vis[d]
    /\ ~AdvisoryLocked(d)
    /\ task'[d][version[d]] = "pending"

\* A document is written while the services run, and then by nobody else.
DocumentLook ==
    \A d \in Docs :
        \/ DocSame(d)
        \/ /\ mode = "serving" /\ UNCHANGED <<workerVars, meiliVars, adminVars, erasing>>
           /\ \/ Created(d) \/ Updated(d) \/ Hidden(d) \/ Gone(d)

LEMMA NextDocumentLook ==
    ASSUME TypeOK, [Next]_vars
    PROVE  DocumentLook
<1> USE BoundsAssumption DEF BoundsAssumption
<1>1. ASSUME UNCHANGED <<phase, version, vis>> PROVE DocumentLook
    BY <1>1 DEF DocumentLook, DocSame
<1>2. ASSUME NEW d \in Docs, Create(d) PROVE DocumentLook
  <2>1. /\ mode = "serving" /\ UNCHANGED <<workerVars, meiliVars, adminVars, erasing>>
        /\ \A e \in Docs \ {d} : DocSame(e)
    BY <1>2 DEF Create, DocSame, TypeOK, DocTypes
  <2>2. Created(d)
    BY <1>2 DEF Create, Created, TypeOK, DocTypes, TaskTypes, Versions
  <2> QED
    BY <2>1, <2>2 DEF DocumentLook
<1>3. ASSUME NEW d \in Docs, Update(d) PROVE DocumentLook
  <2>1. /\ mode = "serving" /\ UNCHANGED <<workerVars, meiliVars, adminVars, erasing>>
        /\ \A e \in Docs \ {d} : DocSame(e)
    BY <1>3 DEF Update, DocSame, TypeOK, DocTypes
  <2>2. /\ phase[d] = "live" /\ phase'[d] = "live" /\ ~AdvisoryLocked(d)
        /\ version'[d] = version[d] + 1 /\ version'[d] \in Versions
    BY <1>3 DEF Update, TypeOK, DocTypes
  <2>3. task'[d] = [v \in Versions |->
            IF v = version[d] + 1 THEN "pending"
            ELSE IF v < version[d] + 1 /\ task[d][v] = "dead_letter" THEN "none" ELSE task[d][v]]
    BY <1>3 DEF Update, TypeOK, TaskTypes
  <2>4. Updated(d)
    BY <2>2, <2>3 DEF Updated
  <2> QED
    BY <2>1, <2>4 DEF DocumentLook
<1>4. ASSUME NEW d \in Docs, Conceal(d) PROVE DocumentLook
    BY <1>4 DEF Conceal, DocumentLook, DocSame, Hidden, TypeOK, DocTypes
<1>5. ASSUME NEW d \in Docs, EraseDocument(d) PROVE DocumentLook
  <2>1. /\ mode = "serving" /\ UNCHANGED <<workerVars, meiliVars, adminVars, erasing>>
        /\ \A e \in Docs \ {d} : DocSame(e)
    BY <1>5 DEF EraseDocument, DocSame, TypeOK, DocTypes
  <2>2. Gone(d)
    BY <1>5 DEF EraseDocument, Gone, Tombstone, TypeOK, DocTypes, TaskTypes
  <2> QED
    BY <2>1, <2>2 DEF DocumentLook
<1>6. ASSUME NEW d \in Docs, PlaceHold(d) \/ ReleaseHold(d) \/ (\E v \in Versions : RetryDeadLetter(d, v))
             \/ BeginUnindex(d) \/ EraseVersion(d) \/ Reindex(d)
      PROVE  DocumentLook
    BY <1>1, <1>6 DEF PlaceHold, ReleaseHold, RetryDeadLetter, BeginUnindex, EraseVersion, Reindex, docVars
<1>7. ASSUME NEW w \in Workers, WorkerStep(w) \/ ProjectException(w) \/ Crash(w) PROVE DocumentLook
    BY <1>1, <1>7 DEF WorkerStep, ClaimTask, BeginProject, IndexDocument, RemoveDocument, FinishProject,
       RecordFailure, ProjectException, Crash, docVars
<1>8. ASSUME FinishUnindex \/ UnindexException \/ MeiliApply \/ MeiliReject PROVE DocumentLook
    BY <1>1, <1>8 DEF FinishUnindex, UnindexException, MeiliApply, MeiliReject, docVars
<1>9. ASSUME StopWriters \/ ResetIndex \/ FinishRebuild \/ RebuildFails \/ UNCHANGED vars PROVE DocumentLook
    BY <1>1, <1>9 DEF StopWriters, ResetIndex, FinishRebuild, RebuildFails, vars, docVars
<1> QED
    BY <1>2, <1>3, <1>4, <1>5, <1>6, <1>7, <1>8, <1>9 DEF Next, EraserStep, RebuildStep

-----------------------------------------------------------------------------
(* What a step does to the workers *)

Stays(w) == pc'[w] = pc[w] /\ claim'[w] = claim[w]
Begins(w) ==
    LET d == claim[w].doc IN
    /\ pc[w] = "claimed" /\ claim'[w] = claim[w]
    /\ LeasedTask(w) /\ ~AdvisoryLocked(d) /\ ~Superseded(w)
    /\ pc'[w] = IF RowExists(d) /\ vis[d] = "public" THEN "index" ELSE "remove"
    /\ UNCHANGED <<docVars, taskVars, meiliVars, adminVars>>
    /\ \A x \in Workers \ {w} : Stays(x)
Submits(w) ==
    /\ claim'[w] = claim[w] /\ reply'[w] = "none"
    /\ \E kind \in {"put", "delete"} :
        /\ pc[w] = IF kind = "put" THEN "index" ELSE "remove"
        /\ pc'[w] = IF kind = "put" THEN "putting" ELSE "deleting"
        /\ queue' = Append(queue, [kind |-> kind, doc |-> claim[w].doc, ver |-> claim[w].ver, from |-> w])
    /\ UNCHANGED <<docVars, taskVars, index, adminVars>>
    /\ \A x \in Workers \ {w} : Stays(x) /\ reply'[x] = reply[x]

\* A worker comes to project, or sends its request, while the others stand still.
WorkerLook == \A w \in Workers : Stays(w) \/ pc'[w] \notin Projecting \/ Begins(w) \/ Submits(w)

LEMMA NextWorkerLook ==
    ASSUME TypeOK, [Next]_vars
    PROVE  WorkerLook
<1>1. ASSUME UNCHANGED workerVars PROVE WorkerLook
    BY <1>1 DEF WorkerLook, Stays, workerVars
<1>2. ASSUME NEW w \in Workers, Idle(w) PROVE WorkerLook
    BY <1>2 DEF Idle, WorkerLook, Stays, Projecting, TypeOK, WorkerTypes
<1>3. ASSUME NEW w \in Workers, pc' = [pc EXCEPT ![w] = "failed"], UNCHANGED claim PROVE WorkerLook
    BY <1>3 DEF WorkerLook, Stays, Projecting, TypeOK, WorkerTypes
<1>4. ASSUME NEW w \in Workers, ClaimTask(w) PROVE WorkerLook
  <2>1. /\ \A x \in Workers \ {w} : Stays(x)
        /\ pc'[w] = "claimed"
    BY <1>4 DEF ClaimTask, Stays, TypeOK, WorkerTypes
  <2> QED
    BY <2>1 DEF WorkerLook, Projecting
<1>5. ASSUME NEW w \in Workers, BeginProject(w) PROVE WorkerLook
  <2>1. CASE Idle(w)
    BY <1>2, <2>1
  <2>2. CASE ~Idle(w)
    <3>1. /\ pc[w] = "claimed" /\ LeasedTask(w) /\ ~AdvisoryLocked(claim[w].doc) /\ ~Superseded(w)
          /\ pc' = [pc EXCEPT ![w] =
                IF RowExists(claim[w].doc) /\ vis[claim[w].doc] = "public" THEN "index" ELSE "remove"]
          /\ UNCHANGED <<claim, taskVars, docVars, meiliVars, adminVars>>
        BY <1>5, <2>2 DEF BeginProject
    <3>2. Begins(w) /\ \A x \in Workers \ {w} : Stays(x)
        BY <3>1 DEF Begins, Stays, TypeOK, WorkerTypes
    <3> QED
        BY <3>2 DEF WorkerLook
  <2> QED
    BY <2>1, <2>2
<1>6. ASSUME NEW w \in Workers, IndexDocument(w) PROVE WorkerLook
  <2>1. CASE pc' = [pc EXCEPT ![w] = "failed"]
    BY <1>3, <1>6, <2>1 DEF IndexDocument
  <2>2. CASE pc' # [pc EXCEPT ![w] = "failed"]
    <3>1. /\ pc[w] = "index" /\ Submit(w, "put", claim[w].doc, claim[w].ver)
          /\ pc' = [pc EXCEPT ![w] = "putting"] /\ UNCHANGED <<docVars, taskVars, claim, adminVars>>
        BY <1>6, <2>2 DEF IndexDocument
    <3>2. Submits(w) /\ \A x \in Workers \ {w} : Stays(x)
        BY <3>1 DEF Submits, Submit, Stays, TypeOK, WorkerTypes, MeiliTypes, Clients
    <3> QED
        BY <3>2 DEF WorkerLook
  <2> QED
    BY <2>1, <2>2
<1>7. ASSUME NEW w \in Workers, RemoveDocument(w) PROVE WorkerLook
  <2>1. /\ pc[w] = "remove" /\ Submit(w, "delete", claim[w].doc, claim[w].ver)
        /\ pc' = [pc EXCEPT ![w] = "deleting"] /\ UNCHANGED <<docVars, taskVars, claim, adminVars>>
    BY <1>7 DEF RemoveDocument
  <2>2. Submits(w) /\ \A x \in Workers \ {w} : Stays(x)
    BY <2>1 DEF Submits, Submit, Stays, TypeOK, WorkerTypes, MeiliTypes, Clients
  <2> QED
    BY <2>2 DEF WorkerLook
<1>8. ASSUME NEW w \in Workers, FinishProject(w) PROVE WorkerLook
    BY <1>2, <1>3, <1>8 DEF FinishProject
<1>9. ASSUME NEW w \in Workers, RecordFailure(w) \/ ProjectException(w) \/ Crash(w) PROVE WorkerLook
    BY <1>2, <1>3, <1>9 DEF RecordFailure, ProjectException, Crash
<1>10. ASSUME NEW d \in Docs, Create(d) \/ Update(d) \/ Conceal(d) \/ PlaceHold(d) \/ ReleaseHold(d)
              \/ (\E v \in Versions : RetryDeadLetter(d, v))
       PROVE  WorkerLook
    BY <1>1, <1>10 DEF Create, Update, Conceal, PlaceHold, ReleaseHold, RetryDeadLetter
<1>11. ASSUME EraserStep \/ UnindexException PROVE WorkerLook
    BY <1>1, <1>11 DEF EraserStep, BeginUnindex, EraseVersion, EraseDocument, FinishUnindex, UnindexException
<1>12. ASSUME StopWriters PROVE WorkerLook
    BY <1>12 DEF StopWriters, WorkerLook, Projecting
<1>13. ASSUME MeiliApply \/ MeiliReject \/ RebuildStep \/ RebuildFails \/ UNCHANGED vars PROVE WorkerLook
    BY <1>1, <1>13 DEF MeiliApply, MeiliReject, RebuildStep, ResetIndex, FinishRebuild, Reindex,
       RebuildFails, vars
<1> QED
    BY <1>4, <1>5, <1>6, <1>7, <1>8, <1>9, <1>10, <1>11, <1>12, <1>13 DEF Next, WorkerStep

-----------------------------------------------------------------------------
(* What a step does to an outbox task *)

\* The end of _project: the request was answered and the residual read is clean.
Consumes(w) ==
    /\ pc[w] \in {"putting", "deleting"} /\ reply[w] = "ok"
    /\ pc[w] = "deleting" => index[claim[w].doc] = 0
    /\ UNCHANGED <<docVars, queue, index, mode>>
Kept(d, v) == task'[d][v] = task[d][v] /\ token'[d][v] = token[d][v]
Touched(d, v) ==
    /\ \A w \in Workers : pc'[w] \in Projecting /\ claim'[w].doc = d => claim'[w].ver # v
    /\ task'[d][v] # "none" => task[d][v] # "none" \/ v = version'[d]
    /\ task'[d][v] = "dead_letter" /\ phase'[d] \in {"live", "concealed"} => v = version'[d]
    /\ task'[d][v] = "none" /\ task[d][v] # "none" =>
        \/ v # version'[d] /\ phase'[d] \in {"live", "concealed"}
        \/ \E w \in Workers : Consumes(w) /\ claim[w].doc = d /\ claim[w].ver = v
        \/ FinishRebuild

\* A task changes under nobody who projects it, comes for the current version,
\* is dead-lettered for the current version, and goes when it is superseded,
\* consumed or retired by a rebuild.
TaskLook == \A d \in Docs, v \in Versions : Kept(d, v) \/ Touched(d, v)

\* A worker that has its request out projects the current version of a row, or
\* an erased document: there was a document before there was a task.
LEMMA ProjectedExists ==
    ASSUME TypeOK, Versioned, ProjectorHolds, NEW w \in Workers, pc[w] \in Projecting
    PROVE  /\ claim[w].doc \in Docs /\ claim[w].ver \in Versions
           /\ task[claim[w].doc][claim[w].ver] = "leased"
           /\ phase[claim[w].doc] # "new"
<1>1. pc[w] # "idle"
    BY DEF Projecting
<1>2. claim[w].doc \in Docs /\ claim[w].ver \in Versions
    BY <1>1, ClaimFields
<1>3. task[claim[w].doc][claim[w].ver] = "leased"
    BY DEF ProjectorHolds, LeasedTask
<1>4. claim[w].ver <= version[claim[w].doc] /\ claim[w].ver >= 1
    BY <1>2, <1>3, BoundsAssumption DEF BoundsAssumption, Versioned, Versions
<1>5. phase[claim[w].doc] # "new"
    BY <1>2, <1>4, BoundsAssumption DEF BoundsAssumption, Versioned, Versions
<1> QED
    BY <1>2, <1>3, <1>5

\* A step that sets one task row, and projects nothing new, keeps the others.
LEMMA OneTask ==
    ASSUME TypeOK, NEW d \in Docs, NEW v \in Versions, NEW s, NEW t,
           task' = [task EXCEPT ![d][v] = s],
           token' = [token EXCEPT ![d][v] = t] \/ UNCHANGED token
    PROVE  /\ task'[d][v] = s
           /\ \A e \in Docs, u \in Versions : Kept(e, u) \/ (e = d /\ u = v)
BY DEF TypeOK, TaskTypes, Kept

LEMMA NextTaskLook ==
    ASSUME Inductive, [Next]_vars
    PROVE  TaskLook
<1> USE BoundsAssumption DEF BoundsAssumption
<1>0. TypeOK /\ Versioned /\ OneProjector /\ ProjectorHolds /\ Barrier
    BY DEF Inductive
<1>1. ASSUME UNCHANGED <<task, token>> PROVE TaskLook
    BY <1>1 DEF TaskLook, Kept
<1>2. ASSUME NEW d \in Docs, Create(d) PROVE TaskLook
  <2>1. 1 \in Versions /\ task' = [task EXCEPT ![d][1] = "pending"] /\ UNCHANGED <<token, pc, claim>>
    BY <1>2 DEF Create, Versions, workerVars
  <2>2. task'[d][1] = "pending" /\ \A e \in Docs, u \in Versions : Kept(e, u) \/ (e = d /\ u = 1)
    BY <1>0, <2>1, OneTask
  <2>3. \A w \in Workers : pc[w] \in Projecting => claim[w].doc # d
    BY <1>0, <1>2, ProjectedExists DEF Create
  <2>4. version'[d] = 1
    BY <1>0, <1>2 DEF Create, TypeOK, DocTypes
  <2>5. Touched(d, 1)
    BY <2>1, <2>2, <2>3, <2>4 DEF Touched
  <2> QED
    BY <2>2, <2>5 DEF TaskLook
<1>3. ASSUME NEW d \in Docs, Update(d) PROVE TaskLook
  <2> DEFINE n == version[d] + 1
  <2>1. /\ \A e \in Docs \ {d} : task'[e] = task[e]
        /\ task'[d] = [v \in Versions |->
            IF v = n THEN "pending" ELSE IF v < n /\ task[d][v] = "dead_letter" THEN "none" ELSE task[d][v]]
        /\ UNCHANGED <<token, pc, claim>>
    BY <1>0, <1>3 DEF Update, TypeOK, TaskTypes, workerVars
  <2>2. version'[d] = n /\ phase'[d] \in {"live", "concealed"} /\ n \in Versions
    BY <1>0, <1>3 DEF Update, TypeOK, DocTypes, RowExists
  <2>3. \A w \in Workers : pc[w] \in Projecting => claim[w].doc # d
    BY <1>3 DEF Update, AdvisoryLocked
  <2>4. ASSUME NEW v \in Versions PROVE Kept(d, v) \/ Touched(d, v)
    <3>1. CASE v = n
        BY <2>1, <2>2, <2>3, <3>1 DEF Touched
    <3>2. CASE v # n /\ v < n /\ task[d][v] = "dead_letter"
        BY <2>1, <2>2, <2>3, <3>2 DEF Touched
    <3>3. CASE v # n /\ ~(v < n /\ task[d][v] = "dead_letter")
        BY <2>1, <3>3 DEF Kept
    <3> QED
        BY <3>1, <3>2, <3>3
  <2>5. \A e \in Docs \ {d}, v \in Versions : Kept(e, v)
    BY <2>1 DEF Kept
  <2> QED
    BY <2>4, <2>5 DEF TaskLook
<1>4. ASSUME NEW w \in Workers, ClaimTask(w) PROVE TaskLook
  <2>1. PICK d \in Docs, v \in Versions, t \in Tokens \ TokensInUse :
            /\ ~RowLocked(d, v)
            /\ Claimable(d, v)
            /\ IF LeaseInUse(d, v) THEN Fault ELSE UNCHANGED faults
            /\ task' = [task EXCEPT ![d][v] = "leased"]
            /\ token' = [token EXCEPT ![d][v] = t]
            /\ attempts' = [attempts EXCEPT ![d][v] = IF @ < MaxAttempts THEN @ + 1 ELSE @]
            /\ claim' = [claim EXCEPT ![w] = [doc |-> d, ver |-> v, token |-> t]]
    BY <1>4, Zenon DEF ClaimTask
  <2>2. task'[d][v] = "leased" /\ \A e \in Docs, u \in Versions : Kept(e, u) \/ (e = d /\ u = v)
    BY <1>0, <2>1, OneTask
  <2>3. \A x \in Workers : pc'[x] \in Projecting /\ claim'[x].doc = d => claim'[x].ver # v
    <3>1. pc'[w] = "claimed" /\ \A x \in Workers \ {w} : Stays(x)
        BY <1>0, <1>4, <2>1 DEF ClaimTask, Stays, TypeOK, WorkerTypes
    <3> QED
        BY <2>1, <3>1 DEF RowLocked, Stays, Projecting
  <2>4. task[d][v] # "none"
    BY <2>1 DEF Claimable
  <2>5. Touched(d, v)
    BY <2>2, <2>3, <2>4 DEF Touched
  <2> QED
    BY <2>2, <2>5 DEF TaskLook
<1>5. ASSUME NEW w \in Workers, NEW s, pc[w] # "idle", Idle(w), LeasedTask(w),
             \A x \in Workers \ {w} :
                pc[x] \in Projecting /\ claim[x].doc = claim[w].doc => claim[x].ver # claim[w].ver,
             task' = [task EXCEPT ![claim[w].doc][claim[w].ver] = s],
             token' = [token EXCEPT ![claim[w].doc][claim[w].ver] = NoToken],
             s = "dead_letter" /\ phase'[claim[w].doc] \in {"live", "concealed"} => claim[w].ver = version'[claim[w].doc],
             s = "none" => \/ claim[w].ver # version'[claim[w].doc] /\ phase'[claim[w].doc] \in {"live", "concealed"}
                           \/ Consumes(w)
      PROVE  TaskLook
  <2> DEFINE d == claim[w].doc
  <2> DEFINE v == claim[w].ver
  <2>1. d \in Docs /\ v \in Versions
    BY <1>0, <1>5, ClaimFields
  <2>2. task'[d][v] = s /\ \A e \in Docs, u \in Versions : Kept(e, u) \/ (e = d /\ u = v)
    BY <1>0, <1>5, <2>1, OneTask
  <2>3. pc'[w] \notin Projecting /\ \A x \in Workers \ {w} : Stays(x)
    BY <1>0, <1>5 DEF Idle, Stays, Projecting, TypeOK, WorkerTypes
  <2>4. \A x \in Workers : pc'[x] \in Projecting /\ claim'[x].doc = d => claim'[x].ver # v
    BY <1>5, <2>3 DEF Stays
  <2>5. task[d][v] # "none"
    BY <1>5 DEF LeasedTask
  <2>6. Touched(d, v)
    BY <1>5, <2>2, <2>4, <2>5 DEF Touched
  <2> QED
    BY <2>2, <2>6 DEF TaskLook
<1>6. ASSUME NEW w \in Workers, BeginProject(w) \/ RecordFailure(w) PROVE TaskLook
  <2>1. CASE UNCHANGED taskVars
    BY <1>1, <2>1 DEF taskVars
  <2>2. CASE ~UNCHANGED taskVars
    <3>1. /\ pc[w] # "idle" /\ Idle(w) /\ LeasedTask(w) /\ ~RowLocked(claim[w].doc, claim[w].ver)
          /\ UNCHANGED docVars
        BY <1>6, <2>2 DEF BeginProject, RecordFailure
    <3>2. UNCHANGED <<phase, version>>
        BY <3>1 DEF docVars
    <3>3. \A x \in Workers \ {w} :
                pc[x] \in Projecting /\ claim[x].doc = claim[w].doc => claim[x].ver # claim[w].ver
        BY <3>1 DEF RowLocked
    <3>4. CASE Superseded(w) /\ DeleteTask(w)
      <4>1. claim[w].ver # version'[claim[w].doc] /\ phase'[claim[w].doc] \in {"live", "concealed"}
        BY <3>2, <3>4 DEF Superseded, RowExists
      <4> QED
        BY <1>5, <3>1, <3>3, <3>4, <4>1 DEF DeleteTask
    <3>5. CASE ~(Superseded(w) /\ DeleteTask(w))
      <4>1. /\ ~Superseded(w)
            /\ task' = [task EXCEPT ![claim[w].doc][claim[w].ver] = NextTaskState(w)]
            /\ token' = [token EXCEPT ![claim[w].doc][claim[w].ver] = NoToken]
        BY <1>6, <2>2, <3>5 DEF BeginProject, RecordFailure
      <4>2. phase'[claim[w].doc] \in {"live", "concealed"} => claim[w].ver = version'[claim[w].doc]
        BY <3>2, <4>1 DEF Superseded, RowExists
      <4>3. NextTaskState(w) # "none"
        BY DEF NextTaskState
      <4> QED
        BY <1>5, <3>1, <3>3, <4>1, <4>2, <4>3
    <3> QED
        BY <3>4, <3>5
  <2> QED
    BY <2>1, <2>2
<1>7. ASSUME NEW w \in Workers, FinishProject(w) PROVE TaskLook
  <2>1. CASE UNCHANGED taskVars
    BY <1>1, <2>1 DEF taskVars
  <2>2. CASE ~UNCHANGED taskVars
    <3>1. /\ pc[w] \in {"putting", "deleting"} /\ Idle(w) /\ DeleteTask(w) /\ Consumes(w)
        BY <1>7, <2>2 DEF FinishProject, Consumes, adminVars
    <3>2. pc[w] \in Projecting
        BY <3>1 DEF Projecting
    <3>3. LeasedTask(w)
        BY <1>0, <3>2 DEF ProjectorHolds
    <3>4. \A x \in Workers \ {w} :
                pc[x] \in Projecting /\ claim[x].doc = claim[w].doc => claim[x].ver # claim[w].ver
        BY <1>0, <3>2 DEF OneProjector
    <3> QED
        BY <1>5, <3>1, <3>3, <3>4 DEF DeleteTask
  <2> QED
    BY <2>1, <2>2
<1>8. ASSUME NEW d \in Docs, NEW v \in Versions, RetryDeadLetter(d, v) PROVE TaskLook
  <2>1. /\ task[d][v] = "dead_letter" /\ task' = [task EXCEPT ![d][v] = "pending"]
        /\ UNCHANGED <<token, pc, claim>>
    BY <1>8 DEF RetryDeadLetter, workerVars
  <2>2. task'[d][v] = "pending" /\ \A e \in Docs, u \in Versions : Kept(e, u) \/ (e = d /\ u = v)
    BY <1>0, <2>1, OneTask
  <2>3. \A w \in Workers : pc[w] \in Projecting /\ claim[w].doc = d => claim[w].ver # v
    BY <1>0, <2>1, ProjectedExists
  <2>4. Touched(d, v)
    BY <2>1, <2>2, <2>3 DEF Touched
  <2> QED
    BY <2>2, <2>4 DEF TaskLook
<1>9. ASSUME NEW d \in Docs, EraseDocument(d) PROVE TaskLook
  <2> DEFINE v == version[d]
  <2>1. /\ v \in Versions /\ version'[d] = v
        /\ task' = [task EXCEPT ![d][v] = "pending"]
        /\ token' = [token EXCEPT ![d][v] = NoToken]
        /\ ~RowLocked(d, v)
        /\ UNCHANGED <<pc, claim>>
    BY <1>0, <1>9 DEF EraseDocument, Tombstone, workerVars, TypeOK, DocTypes
  <2>2. task'[d][v] = "pending" /\ \A e \in Docs, u \in Versions : Kept(e, u) \/ (e = d /\ u = v)
    BY <1>0, <2>1, OneTask
  <2>3. \A w \in Workers : pc[w] \in Projecting /\ claim[w].doc = d => claim[w].ver # v
    BY <2>1 DEF RowLocked
  <2>4. Touched(d, v)
    BY <2>1, <2>2, <2>3 DEF Touched
  <2> QED
    BY <2>2, <2>4 DEF TaskLook
<1>10. ASSUME FinishRebuild PROVE TaskLook
  <2>1. /\ \A w \in Workers : pc'[w] \notin Projecting
        /\ \A d \in Docs, v \in Versions : task'[d][v] = "none"
    BY <1>0, <1>10 DEF FinishRebuild, Barrier, workerVars, Projecting
  <2> QED
    BY <1>10, <2>1 DEF TaskLook, Touched
<1>11. ASSUME NEW d \in Docs, Conceal(d) \/ PlaceHold(d) \/ ReleaseHold(d)
             \/ BeginUnindex(d) \/ EraseVersion(d) \/ Reindex(d)
       PROVE  TaskLook
    BY <1>1, <1>11 DEF Conceal, PlaceHold, ReleaseHold, BeginUnindex, EraseVersion, Reindex, taskVars
<1>12. ASSUME NEW w \in Workers,
              IndexDocument(w) \/ RemoveDocument(w) \/ ProjectException(w) \/ Crash(w)
       PROVE  TaskLook
    BY <1>1, <1>12 DEF IndexDocument, RemoveDocument, ProjectException, Crash, taskVars
<1>13. ASSUME FinishUnindex \/ UnindexException \/ MeiliApply \/ MeiliReject PROVE TaskLook
    BY <1>1, <1>13 DEF FinishUnindex, UnindexException, MeiliApply, MeiliReject, taskVars
<1>14. ASSUME StopWriters \/ ResetIndex \/ RebuildFails \/ UNCHANGED vars PROVE TaskLook
    BY <1>1, <1>14 DEF StopWriters, ResetIndex, RebuildFails, vars, taskVars
<1> QED
    BY <1>2, <1>3, <1>4, <1>6, <1>7, <1>8, <1>9, <1>10, <1>11, <1>12, <1>13, <1>14
    DEF Next, WorkerStep, EraserStep, RebuildStep

-----------------------------------------------------------------------------
(* What a step does to the requests at Meilisearch *)

\* The requests stay; some may not be waited for any more.
Settled ==
    /\ DOMAIN queue' = DOMAIN queue
    /\ \A i \in DOMAIN queue :
        /\ queue'[i].kind = queue[i].kind /\ queue'[i].doc = queue[i].doc
        /\ queue'[i].ver = queue[i].ver
        /\ queue'[i].from \in {queue[i].from, NoClient}
        /\ \A w \in Workers : queue'[i].from = w => Stays(w) /\ reply'[w] = reply[w]
    /\ UNCHANGED index
    /\ \A w \in Workers : reply'[w] \in {reply[w], "none"}

QueueLook ==
    \/ Settled
    \/ \E w \in Workers : Submits(w)
    \/ \E d \in Docs : BeginUnindex(d) \/ Reindex(d)
    \/ MeiliApply \/ MeiliReject \/ ResetIndex

\* The queue is left alone, and so are the workers, but for one whose request
\* is not queued.
LEMMA QueueAlone ==
    ASSUME TypeOK, Attended, NEW w \in Workers, UNCHANGED <<queue, index>>,
           \A x \in Workers \ {w} : Stays(x) /\ reply'[x] = reply[x],
           reply'[w] \in {reply[w], "none"},
           pc[w] \in {"putting", "deleting"} => reply[w] # "none"
    PROVE  Settled
<1>1. \A i \in DOMAIN queue : queue[i].from # w
    BY DEF Attended
<1> QED
    BY <1>1 DEF Settled

\* A client stops waiting, and nobody else moves.
LEMMA QueueAbandoned ==
    ASSUME TypeOK, NEW c \in Clients, queue' = Abandon(c), UNCHANGED index,
           \A x \in Workers \ {c} : Stays(x) /\ reply'[x] = reply[x],
           reply'[c] = "none"
    PROVE  Settled
<1>1. \A i \in DOMAIN queue : queue[i] \in Op
    BY DEF TypeOK, MeiliTypes
<1>2. DOMAIN queue' = DOMAIN queue
    BY DEF Abandon
<1>3. ASSUME NEW i \in DOMAIN queue
      PROVE  /\ queue'[i].kind = queue[i].kind /\ queue'[i].doc = queue[i].doc
             /\ queue'[i].ver = queue[i].ver
             /\ queue'[i].from = IF queue[i].from = c THEN NoClient ELSE queue[i].from
    BY <1>1 DEF Abandon, Op
<1>4. NoClient \notin Workers
    BY NamesAssumption DEF NamesAssumption
<1>5. ASSUME NEW i \in DOMAIN queue, NEW w \in Workers, queue'[i].from = w
      PROVE  Stays(w) /\ reply'[w] = reply[w]
    BY <1>3, <1>4, <1>5
<1>6. \A w \in Workers : reply'[w] \in {reply[w], "none"}
    OBVIOUS
<1> QED
    BY <1>2, <1>3, <1>5, <1>6 DEF Settled

LEMMA NextQueueLook ==
    ASSUME TypeOK, Attended, [Next]_vars
    PROVE  QueueLook
<1>1. ASSUME UNCHANGED <<queue, index>>,
             \A w \in Workers : Stays(w) /\ reply'[w] = reply[w]
      PROVE  QueueLook
    BY <1>1 DEF QueueLook, Settled
<1>2. ASSUME UNCHANGED <<workerVars, meiliVars>> PROVE QueueLook
    BY <1>1, <1>2 DEF workerVars, meiliVars, Stays
<1>3. ASSUME NEW w \in Workers, pc[w] \notin {"putting", "deleting"}, UNCHANGED meiliVars,
             \A x \in Workers \ {w} : Stays(x)
      PROVE  QueueLook
    BY <1>3, QueueAlone DEF QueueLook, meiliVars
<1>4. ASSUME NEW w \in Workers, ClaimTask(w) PROVE QueueLook
  <2>1. /\ \A x \in Workers \ {w} : Stays(x)
        /\ pc[w] = "idle" /\ UNCHANGED meiliVars
    BY <1>4 DEF ClaimTask, Stays, TypeOK, WorkerTypes
  <2> QED
    BY <1>3, <2>1
<1>5. ASSUME NEW w \in Workers, Idle(w) PROVE \A x \in Workers \ {w} : Stays(x)
    BY <1>5 DEF Idle, Stays, TypeOK, WorkerTypes
<1>6. ASSUME NEW w \in Workers, NEW q, pc' = [pc EXCEPT ![w] = q], UNCHANGED claim
      PROVE  \A x \in Workers \ {w} : Stays(x)
    BY <1>6 DEF Stays, TypeOK, WorkerTypes
<1>7. ASSUME NEW w \in Workers, BeginProject(w) \/ RecordFailure(w) PROVE QueueLook
  <2>1. pc[w] \in {"claimed", "failed"} /\ UNCHANGED meiliVars
    BY <1>7 DEF BeginProject, RecordFailure
  <2>2. \A x \in Workers \ {w} : Stays(x)
    BY <1>5, <1>6, <1>7 DEF BeginProject, RecordFailure
  <2> QED
    BY <1>3, <2>1, <2>2
<1>8. ASSUME NEW w \in Workers, IndexDocument(w) PROVE QueueLook
  <2>1. CASE UNCHANGED meiliVars
    <3>1. \A x \in Workers \ {w} : Stays(x)
        BY <1>6, <1>8 DEF IndexDocument
    <3> QED
        BY <1>3, <1>8, <2>1, <3>1 DEF IndexDocument
  <2>2. CASE ~UNCHANGED meiliVars
    <3>1. /\ pc[w] = "index" /\ Submit(w, "put", claim[w].doc, claim[w].ver)
          /\ pc' = [pc EXCEPT ![w] = "putting"] /\ UNCHANGED <<docVars, taskVars, claim, adminVars>>
        BY <1>8, <2>2 DEF IndexDocument
    <3>2. Submits(w)
        BY <3>1 DEF Submits, Submit, Stays, TypeOK, WorkerTypes, MeiliTypes, Clients
    <3> QED
        BY <3>2 DEF QueueLook
  <2> QED
    BY <2>1, <2>2
<1>9. ASSUME NEW w \in Workers, RemoveDocument(w) PROVE QueueLook
  <2>1. /\ pc[w] = "remove" /\ Submit(w, "delete", claim[w].doc, claim[w].ver)
        /\ pc' = [pc EXCEPT ![w] = "deleting"] /\ UNCHANGED <<docVars, taskVars, claim, adminVars>>
    BY <1>9 DEF RemoveDocument
  <2>2. Submits(w)
    BY <2>1 DEF Submits, Submit, Stays, TypeOK, WorkerTypes, MeiliTypes, Clients
  <2> QED
    BY <2>2 DEF QueueLook
<1>10. ASSUME NEW w \in Workers, FinishProject(w) PROVE QueueLook
  <2>1. \A x \in Workers \ {w} : Stays(x)
    BY <1>5, <1>6, <1>10 DEF FinishProject
  <2>2. /\ UNCHANGED <<queue, index>> /\ reply[w] # "none"
        /\ reply'[w] = "none" /\ \A x \in Workers \ {w} : reply'[x] = reply[x]
    BY <1>10 DEF FinishProject, TypeOK, MeiliTypes, Clients
  <2> QED
    BY <2>1, <2>2, QueueAlone DEF QueueLook
<1>11. ASSUME NEW w \in Workers, ProjectException(w) \/ Crash(w) PROVE QueueLook
  <2>1. \A x \in Workers \ {w} : Stays(x)
    BY <1>5, <1>6, <1>11 DEF ProjectException, Crash
  <2>2. /\ w \in Clients /\ queue' = Abandon(w) /\ UNCHANGED index
        /\ reply'[w] = "none" /\ \A x \in Workers \ {w} : reply'[x] = reply[x]
    BY <1>11 DEF ProjectException, Crash, TypeOK, MeiliTypes, Clients
  <2> QED
    BY <2>1, <2>2, QueueAbandoned DEF QueueLook
<1>12. ASSUME NEW d \in Docs, Create(d) \/ Update(d) \/ Conceal(d) \/ PlaceHold(d) \/ ReleaseHold(d)
              \/ (\E v \in Versions : RetryDeadLetter(d, v)) \/ EraseVersion(d) \/ EraseDocument(d)
       PROVE  QueueLook
    BY <1>2, <1>12 DEF Create, Update, Conceal, PlaceHold, ReleaseHold, RetryDeadLetter, EraseVersion,
       EraseDocument
<1>13. ASSUME FinishUnindex PROVE QueueLook
  <2>1. /\ UNCHANGED <<queue, index>>
        /\ \A w \in Workers : Stays(w) /\ reply'[w] = reply[w]
    BY <1>13, NamesAssumption
    DEF NamesAssumption, FinishUnindex, workerVars, Stays, TypeOK, MeiliTypes, Clients
  <2> QED
    BY <1>1, <2>1
<1>14. ASSUME UnindexException PROVE QueueLook
  <2>1. /\ Eraser \in Clients /\ queue' = Abandon(Eraser) /\ UNCHANGED index /\ reply'[Eraser] = "none"
        /\ \A w \in Workers : Stays(w) /\ reply'[w] = reply[w]
    BY <1>14, NamesAssumption
    DEF NamesAssumption, UnindexException, workerVars, Stays, TypeOK, MeiliTypes, Clients
  <2> QED
    BY <2>1, QueueAbandoned DEF QueueLook
<1>15. ASSUME StopWriters PROVE QueueLook
  <2>1. \A i \in DOMAIN queue : queue[i] \in Op
    BY DEF TypeOK, MeiliTypes
  <2>2. DOMAIN queue' = DOMAIN queue
    BY <1>15 DEF StopWriters, AbandonAll
  <2>3. ASSUME NEW i \in DOMAIN queue
        PROVE  /\ queue'[i].kind = queue[i].kind /\ queue'[i].doc = queue[i].doc
               /\ queue'[i].ver = queue[i].ver /\ queue'[i].from = NoClient
    BY <1>15, <2>1 DEF StopWriters, AbandonAll, Op
  <2>4. NoClient \notin Workers
    BY NamesAssumption DEF NamesAssumption
  <2>5. UNCHANGED index /\ \A w \in Workers : reply'[w] = "none"
    BY <1>15 DEF StopWriters, Clients
  <2> QED
    BY <2>2, <2>3, <2>4, <2>5 DEF QueueLook, Settled
<1>16. ASSUME FinishRebuild \/ RebuildFails \/ UNCHANGED vars PROVE QueueLook
    BY <1>2, <1>16 DEF FinishRebuild, RebuildFails, vars
<1>17. ASSUME MeiliApply \/ MeiliReject \/ ResetIndex \/ \E d \in Docs : BeginUnindex(d) \/ Reindex(d)
       PROVE  QueueLook
    BY <1>17 DEF QueueLook
<1> QED
    BY <1>4, <1>7, <1>8, <1>9, <1>10, <1>11, <1>12, <1>13, <1>14, <1>15, <1>16, <1>17
    DEF Next, WorkerStep, EraserStep, RebuildStep

-----------------------------------------------------------------------------
(* What a step does to the rebuild barrier *)

Stopped == mode' = "stopped" /\ erasing' = NoDoc /\ \A w \in Workers : pc'[w] = "idle"

\* Behind the barrier nothing moves but the rebuild and the draining queue.
ModeLook ==
    \/ mode' = "serving" /\ mode = "serving"
    \/ Stopped
    \/ mode = "indexing" /\ UNCHANGED <<mode, rebuilt, phase, version, vis, pc, erasing, queue, index>>
    \/ ResetIndex \/ FinishRebuild \/ \E d \in Docs : Reindex(d)

LEMMA NextModeLook ==
    ASSUME TypeOK, Barrier, [Next]_vars
    PROVE  ModeLook
<1>1. ASSUME mode = "serving", UNCHANGED adminVars PROVE ModeLook
    BY <1>1 DEF ModeLook, adminVars
<1>2. ASSUME NEW d \in Docs, Create(d) \/ Update(d) \/ Conceal(d) \/ PlaceHold(d) \/ ReleaseHold(d)
             \/ (\E v \in Versions : RetryDeadLetter(d, v)) \/ EraseVersion(d) \/ EraseDocument(d)
             \/ BeginUnindex(d)
      PROVE  ModeLook
    BY <1>1, <1>2 DEF Create, Update, Conceal, PlaceHold, ReleaseHold, RetryDeadLetter, EraseVersion,
       EraseDocument, BeginUnindex
<1>3. ASSUME NEW w \in Workers, WorkerStep(w) \/ ProjectException(w) \/ Crash(w) PROVE ModeLook
  <2>1. UNCHANGED adminVars
    BY <1>3 DEF WorkerStep, ClaimTask, BeginProject, IndexDocument, RemoveDocument, FinishProject,
       RecordFailure, ProjectException, Crash
  <2>2. mode = "serving"
    BY <1>3 DEF WorkerStep, ClaimTask, BeginProject, IndexDocument, RemoveDocument, FinishProject,
       RecordFailure, ProjectException, Crash, Barrier, Projecting
  <2> QED
    BY <1>1, <2>1, <2>2
<1>4. ASSUME FinishUnindex \/ UnindexException PROVE ModeLook
    BY <1>1, <1>4 DEF FinishUnindex, UnindexException, Barrier
<1>5. ASSUME MeiliApply \/ MeiliReject \/ UNCHANGED vars PROVE ModeLook
  <2>1. UNCHANGED <<mode, rebuilt, phase, version, vis, pc, erasing>>
    BY <1>5 DEF MeiliApply, MeiliReject, vars, docVars, workerVars, adminVars
  <2>2. mode = "indexing" => UNCHANGED <<queue, index>>
    BY <1>5 DEF MeiliApply, MeiliReject, vars, meiliVars, Barrier
  <2>3. mode \in {"serving", "stopped", "indexing"}
    BY DEF TypeOK, AdminTypes
  <2> QED
    BY <2>1, <2>2, <2>3 DEF ModeLook, Stopped, Barrier
<1>6. ASSUME StopWriters PROVE ModeLook
    BY <1>6 DEF StopWriters, ModeLook, Stopped
<1>7. ASSUME RebuildFails PROVE ModeLook
    BY <1>7 DEF RebuildFails, ModeLook, Stopped, Barrier, workerVars
<1> QED
    BY <1>2, <1>3, <1>4, <1>5, <1>6, <1>7 DEF Next, EraserStep, RebuildStep, ModeLook

-----------------------------------------------------------------------------
(* The parts of the inductive invariant, one at a time *)

\* The version of a document grows, and a document that is projected is not
\* written, unless it is concealed.
LEMMA DocumentMoves ==
    ASSUME Inductive, DocumentLook
    PROVE  /\ \A d \in Docs : version[d] \in Nat /\ version'[d] \in Nat /\ version[d] <= version'[d]
           /\ \A w \in Workers : pc[w] \in Projecting =>
                \/ DocSame(claim[w].doc)
                \/ /\ phase'[claim[w].doc] = "concealed"
                   /\ version'[claim[w].doc] = version[claim[w].doc]
                   /\ UNCHANGED <<workerVars, meiliVars, adminVars, erasing>>
           /\ \A w \in Workers : pc[w] \in Projecting /\ phase[claim[w].doc] # "live" =>
                phase'[claim[w].doc] # "live"
<1> USE BoundsAssumption DEF BoundsAssumption
<1>0. TypeOK /\ Versioned /\ ProjectorHolds
    BY DEF Inductive
<1>1. ASSUME NEW d \in Docs
      PROVE  version[d] \in Nat /\ version'[d] \in Nat /\ version[d] <= version'[d]
  <2>1. version[d] \in 0..MaxVersion /\ (phase[d] = "new" => version[d] = 0)
    BY <1>0 DEF TypeOK, DocTypes, Versioned
  <2>2. version'[d] = version[d] \/ version'[d] = version[d] + 1
    BY <2>1 DEF DocumentLook, DocSame, Created, Updated, Hidden, Gone
  <2> QED
    BY <2>1, <2>2
<1>2. ASSUME NEW w \in Workers, pc[w] \in Projecting
      PROVE  /\ \/ DocSame(claim[w].doc)
                \/ /\ phase'[claim[w].doc] = "concealed"
                   /\ version'[claim[w].doc] = version[claim[w].doc]
                   /\ UNCHANGED <<workerVars, meiliVars, adminVars, erasing>>
             /\ phase[claim[w].doc] # "live" => phase'[claim[w].doc] # "live"
  <2>1. claim[w].doc \in Docs /\ phase[claim[w].doc] # "new" /\ AdvisoryLocked(claim[w].doc)
    BY <1>0, <1>2, ProjectedExists DEF AdvisoryLocked
  <2> QED
    BY <2>1 DEF DocumentLook, DocSame, Created, Updated, Hidden, Gone
<1> QED
    BY <1>1, <1>2

LEMMA NextVersioned ==
    ASSUME Inductive, DocumentLook, TaskLook
    PROVE  Versioned'
<1> USE BoundsAssumption DEF BoundsAssumption
<1>1. ASSUME NEW d \in Docs
      PROVE  (phase'[d] = "new" => version'[d] = 0) /\ (phase'[d] # "live" => vis'[d] = "private")
    BY DEF Inductive, Versioned, DocumentLook, DocSame, Created, Updated, Hidden, Gone
<1>2. ASSUME NEW d \in Docs, NEW v \in Versions, task'[d][v] # "none" PROVE v <= version'[d]
  <2>1. task[d][v] # "none" \/ v = version'[d]
    BY <1>2 DEF TaskLook, Kept, Touched
  <2>2. version[d] \in Nat /\ version'[d] \in Nat /\ version[d] <= version'[d] /\ v \in Nat
    BY DocumentMoves DEF Versions
  <2>3. task[d][v] # "none" => v <= version[d]
    BY DEF Inductive, Versioned
  <2> QED
    BY <2>1, <2>2, <2>3
<1> QED
    BY <1>1, <1>2 DEF Versioned

LEMMA NextOneProjector ==
    ASSUME Inductive, WorkerLook
    PROVE  OneProjector'
<1> SUFFICES ASSUME NEW w \in Workers, NEW x \in Workers, pc'[w] \in Projecting, pc'[x] \in Projecting,
                    claim'[w].doc = claim'[x].doc, w # x
             PROVE  FALSE
    BY DEF OneProjector
<1>1. ASSUME NEW y \in Workers, pc'[y] \in Projecting
      PROVE  claim'[y] = claim[y] /\ (pc[y] \in Projecting \/ Begins(y))
  <2>1. CASE Stays(y)
    BY <1>1, <2>1 DEF Stays
  <2>2. CASE Begins(y)
    BY <2>2 DEF Begins
  <2>3. CASE Submits(y)
    BY <2>3 DEF Submits, Projecting
  <2> QED
    BY <1>1, <2>1, <2>2, <2>3 DEF WorkerLook
<1>2. ASSUME NEW y \in Workers, NEW z \in Workers, y # z, Begins(y) PROVE ~Begins(z)
    BY <1>2 DEF Begins, Stays
<1>3. ASSUME NEW y \in Workers, NEW z \in Workers, Begins(y), pc[z] \in Projecting,
             claim[y].doc = claim[z].doc
      PROVE  FALSE
    BY <1>3 DEF Begins, AdvisoryLocked
<1> QED
    BY <1>1, <1>2, <1>3 DEF Inductive, OneProjector

LEMMA NextProjectorHolds ==
    ASSUME Inductive, DocumentLook, WorkerLook, TaskLook
    PROVE  ProjectorHolds'
<1> USE BoundsAssumption DEF BoundsAssumption
<1>0. TypeOK /\ Versioned /\ ProjectorHolds
    BY DEF Inductive
<1> SUFFICES ASSUME NEW w \in Workers, pc'[w] \in Projecting
             PROVE  LET d == claim'[w].doc  v == claim'[w].ver IN
                    /\ task'[d][v] = "leased" /\ token'[d][v] = claim'[w].token
                    /\ phase'[d] \in {"live", "concealed"} => v = version'[d]
                    /\ pc'[w] \in {"index", "putting"} =>
                        phase'[d] \in {"live", "concealed"} /\ (phase'[d] = "live" => vis'[d] = "public")
                    /\ pc'[w] \in {"remove", "deleting"} => (phase'[d] = "live" => vis'[d] = "private")
    BY DEF ProjectorHolds, LeasedTask, RowExists
<1>1. CASE Begins(w)
  <2>1. claim[w].doc \in Docs
    BY <1>0, <1>1, ClaimFields DEF Begins
  <2>2. vis[claim[w].doc] \in {"public", "private"}
    BY <1>0, <2>1 DEF TypeOK, DocTypes
  <2> QED
    BY <1>1, <2>2 DEF Begins, LeasedTask, Superseded, RowExists, docVars, taskVars
<1>2. CASE Submits(w)
  <2>1. /\ pc[w] \in Projecting /\ claim'[w] = claim[w]
        /\ pc'[w] \in {"index", "putting"} => pc[w] = "index"
        /\ pc'[w] \in {"remove", "deleting"} => pc[w] = "remove"
    BY <1>2 DEF Submits, Projecting
  <2> QED
    BY <1>0, <1>2, <2>1 DEF Submits, ProjectorHolds, LeasedTask, RowExists, docVars, taskVars
<1>3. CASE Stays(w)
  <2> DEFINE d == claim[w].doc
  <2> DEFINE v == claim[w].ver
  <2>1. pc[w] \in Projecting /\ pc'[w] = pc[w] /\ claim'[w] = claim[w]
    BY <1>3 DEF Stays
  <2>2. d \in Docs /\ v \in Versions /\ task[d][v] = "leased" /\ token[d][v] = claim[w].token
    BY <1>0, <2>1, ProjectedExists DEF ProjectorHolds, LeasedTask
  <2>3. task'[d][v] = "leased" /\ token'[d][v] = claim[w].token
    BY <2>1, <2>2 DEF TaskLook, Kept, Touched
  <2>4. CASE DocSame(d)
    BY <1>0, <2>1, <2>3, <2>4 DEF DocSame, ProjectorHolds, RowExists
  <2>5. CASE phase'[d] = "concealed" /\ version'[d] = version[d] /\ ~DocSame(d)
    <3>1. RowExists(d)
        BY <1>0, <2>2, <2>5 DEF DocumentLook, Created, Updated, Hidden, Gone, RowExists
    <3> QED
        BY <1>0, <2>1, <2>3, <2>5, <3>1 DEF ProjectorHolds
  <2> QED
    BY <2>1, <2>4, <2>5, DocumentMoves
<1> QED
    BY <1>1, <1>2, <1>3 DEF WorkerLook

LEMMA NextBarrier ==
    ASSUME Inductive, ModeLook
    PROVE  Barrier'
<1>0. TypeOK /\ Barrier /\ Versioned
    BY DEF Inductive
<1>1. ASSUME mode' = "serving" PROVE Barrier'
    BY <1>1 DEF Barrier
<1>2. CASE Stopped
    BY <1>2 DEF Stopped, Barrier
<1>3. CASE mode = "indexing" /\ UNCHANGED <<mode, rebuilt, phase, version, vis, pc, erasing, queue, index>>
    BY <1>0, <1>3 DEF Barrier
<1>4. CASE ResetIndex
    BY <1>0, <1>4 DEF ResetIndex, Barrier, workerVars
<1>5. ASSUME NEW d \in Docs, Reindex(d) PROVE Barrier'
  <2>1. /\ mode = "indexing" /\ mode' = "indexing" /\ rebuilt' = rebuilt \cup {d}
        /\ index' = [index EXCEPT ![d] = version[d]]
        /\ UNCHANGED <<phase, version, vis, pc, erasing, queue>>
    BY <1>5 DEF Reindex, docVars, workerVars
  <2>2. phase[d] = "live" /\ vis[d] = "public"
    BY <1>0, <1>5 DEF Reindex, Versioned
  <2>3. index'[d] = version[d] /\ \A e \in Docs \ {d} : index'[e] = index[e]
    BY <1>0, <2>1 DEF TypeOK, MeiliTypes
  <2> QED
    BY <1>0, <2>1, <2>2, <2>3 DEF Barrier
<1>6. CASE FinishRebuild
    BY <1>1, <1>6 DEF FinishRebuild
<1> QED
    BY <1>1, <1>2, <1>3, <1>4, <1>5, <1>6 DEF ModeLook

\* The request at the head of the queue leaves it, answered.
HeadLeaves ==
    /\ queue # <<>> /\ queue' = Tail(queue)
    /\ \/ index' = Applied(Head(queue)) /\ Answer(Head(queue), "ok")
       \/ index' = index /\ Answer(Head(queue), "rejected")
    /\ UNCHANGED <<phase, version, vis, pc, claim>>

LEMMA MeiliLeaves ==
    ASSUME MeiliApply \/ MeiliReject
    PROVE  HeadLeaves /\ UNCHANGED <<task, token, mode>>
BY DEF HeadLeaves, MeiliApply, MeiliReject, docVars, taskVars, workerVars, adminVars

\* The queue without its head is the queue moved by one.
LEMMA QueueTail ==
    ASSUME TypeOK, HeadLeaves
    PROVE  /\ 1 \in DOMAIN queue /\ Head(queue) = queue[1] /\ queue[1] \in Op
           /\ DOMAIN queue \subseteq Nat
           /\ \A i \in DOMAIN queue' : i \in Nat /\ i + 1 \in DOMAIN queue /\ 1 < i + 1 /\ queue'[i] = queue[i + 1]
           /\ \A d \in Docs : d # queue[1].doc => index'[d] = index[d]
           /\ index'[queue[1].doc] \in
                {index[queue[1].doc], IF queue[1].kind = "put" THEN queue[1].ver ELSE 0}
<1>1. queue \in Seq(Op) /\ queue # <<>> /\ queue' = Tail(queue)
    BY DEF TypeOK, MeiliTypes, HeadLeaves
<1>2. 1 \in DOMAIN queue /\ Head(queue) = queue[1] /\ queue[1] \in Op /\ DOMAIN queue \subseteq Nat
    BY <1>1
<1>3. \A i \in DOMAIN queue' : i \in Nat /\ i + 1 \in DOMAIN queue /\ 1 < i + 1 /\ queue'[i] = queue[i + 1]
    BY <1>1
<1>4. index' = index \/ index' = [index EXCEPT ![queue[1].doc] = IF queue[1].kind = "put" THEN queue[1].ver ELSE 0]
    BY <1>2 DEF HeadLeaves, Applied
<1> QED
    BY <1>2, <1>3, <1>4 DEF TypeOK, MeiliTypes, Op

\* A request is added at the end of the queue.
LEMMA QueueAppend ==
    ASSUME TypeOK, NEW op, queue' = Append(queue, op)
    PROVE  /\ \A i \in DOMAIN queue : i \in DOMAIN queue' /\ queue'[i] = queue[i]
           /\ \A i \in DOMAIN queue' : i \in DOMAIN queue \/ queue'[i] = op
           /\ \A i, j \in DOMAIN queue' : i < j => i \in DOMAIN queue
BY AppendProperties DEF TypeOK, MeiliTypes

LEMMA NextAttended ==
    ASSUME Inductive, DocumentLook, QueueLook
    PROVE  Attended'
<1>0. TypeOK /\ Versioned /\ OneProjector /\ ProjectorHolds /\ Attended /\ Barrier
    BY DEF Inductive
<1> DEFINE Waits(q, i, w) ==
        /\ pc'[w] = IF q[i].kind = "put" THEN "putting" ELSE "deleting"
        /\ reply'[w] = "none"
        /\ q[i].doc = claim'[w].doc /\ q[i].ver = claim'[w].ver
<1> DEFINE After(q, i, j) ==
        q[j].kind = "delete" /\ phase'[q[j].doc] # "live" /\ q[j].from # q[i].from
<1>1. ASSUME \A i \in DOMAIN queue', w \in Workers : queue'[i].from = w => Waits(queue', i, w),
             \A i, j \in DOMAIN queue' :
                i < j /\ queue'[i].from \in Workers /\ queue'[i].doc = queue'[j].doc => After(queue', i, j)
      PROVE  Attended'
    BY <1>1 DEF Attended
<1>2. ASSUME NEW i \in DOMAIN queue, NEW w \in Workers, queue[i].from = w
      PROVE  /\ pc[w] = IF queue[i].kind = "put" THEN "putting" ELSE "deleting"
             /\ pc[w] \in Projecting /\ reply[w] = "none"
             /\ queue[i].doc = claim[w].doc /\ queue[i].ver = claim[w].ver
    BY <1>0, <1>2 DEF Attended, Projecting
<1>3. ASSUME NEW i \in DOMAIN queue, NEW j \in DOMAIN queue,
             i < j, queue[i].from \in Workers, queue[i].doc = queue[j].doc
      PROVE  /\ queue[j].kind = "delete" /\ queue[j].from # queue[i].from
             /\ phase[queue[j].doc] # "live" /\ phase'[queue[j].doc] # "live"
  <2>1. queue[j].kind = "delete" /\ phase[queue[j].doc] # "live" /\ queue[j].from # queue[i].from
    BY <1>0, <1>3 DEF Attended
  <2>2. PICK w \in Workers : queue[i].from = w /\ pc[w] \in Projecting /\ queue[i].doc = claim[w].doc
    BY <1>2, <1>3
  <2> QED
    BY <1>3, <2>1, <2>2, DocumentMoves
<1>4. CASE Settled
  <2>1. ASSUME NEW i \in DOMAIN queue', NEW w \in Workers, queue'[i].from = w PROVE Waits(queue', i, w)
    <3>1. i \in DOMAIN queue /\ queue[i].from = w /\ Stays(w) /\ reply'[w] = reply[w]
        BY <1>4, <2>1, NamesAssumption DEF Settled, NamesAssumption
    <3> QED
        BY <1>2, <1>4, <3>1 DEF Settled, Stays
  <2>2. ASSUME NEW i \in DOMAIN queue', NEW j \in DOMAIN queue', i < j, queue'[i].from \in Workers,
               queue'[i].doc = queue'[j].doc
        PROVE  After(queue', i, j)
    <3>1. i \in DOMAIN queue /\ j \in DOMAIN queue /\ queue'[i].from = queue[i].from
        BY <1>4, <2>2, NamesAssumption DEF Settled, NamesAssumption
    <3>2. queue[i].doc = queue[j].doc /\ queue'[j].kind = queue[j].kind /\ queue'[j].doc = queue[j].doc
          /\ queue'[j].from \in {queue[j].from, NoClient}
        BY <1>4, <2>2, <3>1 DEF Settled
    <3>3. queue'[j].from # queue'[i].from
        BY <1>3, <2>2, <3>1, <3>2, NamesAssumption DEF NamesAssumption
    <3> QED
        BY <1>3, <2>2, <3>1, <3>2, <3>3
  <2> QED
    BY <1>1, <2>1, <2>2
<1>5. ASSUME NEW w \in Workers, Submits(w) PROVE Attended'
  <2>1. PICK kind \in {"put", "delete"} :
            /\ pc[w] = IF kind = "put" THEN "index" ELSE "remove"
            /\ pc'[w] = IF kind = "put" THEN "putting" ELSE "deleting"
            /\ queue' = Append(queue, [kind |-> kind, doc |-> claim[w].doc, ver |-> claim[w].ver, from |-> w])
    BY <1>5 DEF Submits
  <2> DEFINE op == [kind |-> kind, doc |-> claim[w].doc, ver |-> claim[w].ver, from |-> w]
  <2>2. /\ \A i \in DOMAIN queue : i \in DOMAIN queue' /\ queue'[i] = queue[i]
        /\ \A i \in DOMAIN queue' : i \in DOMAIN queue \/ queue'[i] = op
        /\ \A i, j \in DOMAIN queue' : i < j => i \in DOMAIN queue
    BY <1>0, <2>1, QueueAppend
  <2>3. pc[w] \in Projecting /\ pc[w] \notin {"putting", "deleting"}
    BY <2>1 DEF Projecting
  <2>4. /\ claim'[w] = claim[w] /\ reply'[w] = "none"
        /\ \A x \in Workers \ {w} : pc'[x] = pc[x] /\ claim'[x] = claim[x] /\ reply'[x] = reply[x]
    BY <1>5 DEF Submits, Stays
  <2>5. ASSUME NEW i \in DOMAIN queue', NEW x \in Workers, queue'[i].from = x PROVE Waits(queue', i, x)
    <3>1. CASE i \in DOMAIN queue
      <4>1. queue'[i] = queue[i] /\ x # w
        BY <1>2, <2>2, <2>3, <2>5, <3>1
      <4> QED
        BY <1>2, <2>4, <2>5, <3>1, <4>1
    <3>2. CASE queue'[i] = op
        BY <2>1, <2>4, <2>5, <3>2
    <3> QED
        BY <2>2, <3>1, <3>2
  <2>6. ASSUME NEW i \in DOMAIN queue', NEW j \in DOMAIN queue', i < j, queue'[i].from \in Workers,
               queue'[i].doc = queue'[j].doc
        PROVE  After(queue', i, j)
    <3>1. i \in DOMAIN queue /\ queue'[i] = queue[i]
        BY <2>2, <2>6
    <3>2. CASE j \in DOMAIN queue
        BY <1>3, <2>2, <2>6, <3>1, <3>2
    <3>3. CASE queue'[j] = op
      <4>1. PICK x \in Workers : /\ queue[i].from = x /\ pc[x] \in Projecting
                                 /\ pc[x] \in {"putting", "deleting"} /\ queue[i].doc = claim[x].doc
        BY <1>2, <2>6, <3>1
      <4>2. claim[x].doc = claim[w].doc
        BY <2>6, <3>1, <3>3, <4>1
      <4> QED
        BY <1>0, <2>3, <4>1, <4>2 DEF OneProjector
    <3> QED
        BY <2>2, <3>2, <3>3
  <2> QED
    BY <1>1, <2>5, <2>6
<1>6. ASSUME NEW d \in Docs, BeginUnindex(d) PROVE Attended'
  <2> DEFINE op == [kind |-> "delete", doc |-> d, ver |-> version[d], from |-> Eraser]
  <2>1. /\ queue' = Append(queue, op) /\ unindex[d] = "queued"
        /\ reply' = [reply EXCEPT ![Eraser] = "none"] /\ UNCHANGED <<pc, claim, phase>>
    BY <1>6 DEF BeginUnindex, Submit, workerVars, docVars
  <2>2. /\ \A i \in DOMAIN queue : i \in DOMAIN queue' /\ queue'[i] = queue[i]
        /\ \A i \in DOMAIN queue' : i \in DOMAIN queue \/ queue'[i] = op
        /\ \A i, j \in DOMAIN queue' : i < j => i \in DOMAIN queue
    BY <1>0, <2>1, QueueAppend
  <2>3. phase[d] = "concealed" /\ Eraser \notin Workers /\ \A x \in Workers : reply'[x] = reply[x]
    BY <1>0, <2>1, NamesAssumption DEF TypeOK, DocTypes, MeiliTypes, NamesAssumption, Clients
  <2>4. ASSUME NEW i \in DOMAIN queue', NEW x \in Workers, queue'[i].from = x PROVE Waits(queue', i, x)
    <3>1. i \in DOMAIN queue /\ queue'[i] = queue[i]
        BY <2>2, <2>3, <2>4
    <3> QED
        BY <1>2, <2>1, <2>3, <2>4, <3>1
  <2>5. ASSUME NEW i \in DOMAIN queue', NEW j \in DOMAIN queue', i < j, queue'[i].from \in Workers,
               queue'[i].doc = queue'[j].doc
        PROVE  After(queue', i, j)
    <3>1. i \in DOMAIN queue /\ queue'[i] = queue[i]
        BY <2>2, <2>5
    <3>2. CASE j \in DOMAIN queue
        BY <1>3, <2>2, <2>5, <3>1, <3>2
    <3>3. CASE queue'[j] = op
        BY <2>1, <2>3, <2>5, <3>1, <3>3
    <3> QED
        BY <2>2, <3>2, <3>3
  <2> QED
    BY <1>1, <2>4, <2>5
<1>7. CASE HeadLeaves
  <2>1. /\ 1 \in DOMAIN queue /\ Head(queue) = queue[1]
        /\ \A i \in DOMAIN queue' : i \in Nat /\ i + 1 \in DOMAIN queue /\ 1 < i + 1 /\ queue'[i] = queue[i + 1]
    BY <1>0, <1>7, QueueTail
  <2>2. /\ \A x \in Workers : x # queue[1].from => reply'[x] = reply[x]
        /\ UNCHANGED <<phase, pc, claim>>
    BY <1>7, <2>1 DEF HeadLeaves, Answer, Clients
  <2>3. ASSUME NEW i \in DOMAIN queue', NEW x \in Workers, queue'[i].from = x PROVE Waits(queue', i, x)
    <3>1. i + 1 \in DOMAIN queue /\ queue'[i] = queue[i + 1] /\ 1 < i + 1
        BY <2>1
    <3>2. x # queue[1].from
      <4>1. SUFFICES ASSUME x = queue[1].from PROVE FALSE
        OBVIOUS
      <4>2. queue[1].doc = claim[x].doc /\ queue[i + 1].doc = claim[x].doc
        BY <1>2, <2>1, <2>3, <3>1, <4>1
      <4> QED
        BY <1>3, <2>1, <2>3, <3>1, <4>1, <4>2
    <3> QED
        BY <1>2, <2>2, <2>3, <3>1, <3>2
  <2>4. ASSUME NEW i \in DOMAIN queue', NEW j \in DOMAIN queue', i < j, queue'[i].from \in Workers,
               queue'[i].doc = queue'[j].doc
        PROVE  After(queue', i, j)
    <3>1. /\ i + 1 \in DOMAIN queue /\ queue'[i] = queue[i + 1]
          /\ j + 1 \in DOMAIN queue /\ queue'[j] = queue[j + 1] /\ i + 1 < j + 1
        BY <2>1, <2>4
    <3> QED
        BY <1>3, <2>4, <3>1
  <2> QED
    BY <1>1, <2>3, <2>4
<1>8. CASE ResetIndex
    BY <1>1, <1>8 DEF ResetIndex
<1>9. ASSUME NEW d \in Docs, Reindex(d) PROVE Attended'
  <2>1. queue' = <<>>
    BY <1>0, <1>9 DEF Reindex, Barrier
  <2> QED
    BY <1>1, <2>1
<1> QED
    BY <1>4, <1>5, <1>6, <1>7, <1>8, <1>9, MeiliLeaves DEF QueueLook

LEMMA NextReplied ==
    ASSUME Inductive, DocumentLook, WorkerLook, QueueLook
    PROVE  Replied'
<1>0. TypeOK /\ Versioned /\ OneProjector /\ ProjectorHolds /\ Attended /\ Replied /\ Barrier
    BY DEF Inductive
<1> SUFFICES ASSUME NEW w \in Workers, pc'[w] \in {"putting", "deleting"}, reply'[w] # "none"
             PROVE  LET d == claim'[w].doc IN
                    /\ \A i \in DOMAIN queue' :
                        queue'[i].doc = d => queue'[i].kind = "delete" /\ phase'[d] # "live"
                    /\ reply'[w] = "ok" /\ phase'[d] = "live" =>
                        index'[d] = IF pc'[w] = "putting" THEN claim'[w].ver ELSE 0
    BY DEF Replied, QueuedFor
<1> DEFINE d == claim[w].doc
<1>1. pc'[w] = pc[w] /\ claim'[w] = claim[w]
  <2>1. ~Submits(w)
    BY DEF Submits
  <2>2. ~Begins(w) /\ pc'[w] \in Projecting
    BY DEF Begins, Projecting
  <2> QED
    BY <2>1, <2>2 DEF WorkerLook, Stays
<1>2. pc[w] \in Projecting /\ d \in Docs /\ (phase[d] # "live" => phase'[d] # "live")
    BY <1>0, <1>1, ProjectedExists, DocumentMoves DEF Projecting
<1>3. ASSUME reply[w] # "none"
      PROVE  /\ \A i \in DOMAIN queue : queue[i].doc = d => queue[i].kind = "delete" /\ phase[d] # "live"
             /\ reply[w] = "ok" /\ phase[d] = "live" => index[d] = IF pc[w] = "putting" THEN claim[w].ver ELSE 0
    BY <1>0, <1>1, <1>3 DEF Replied, QueuedFor
<1>4. CASE Settled
  <2>1. reply[w] # "none" /\ reply'[w] = reply[w] /\ index' = index /\ DOMAIN queue' = DOMAIN queue
    BY <1>4 DEF Settled
  <2>2. \A i \in DOMAIN queue : queue'[i].kind = queue[i].kind /\ queue'[i].doc = queue[i].doc
    BY <1>4 DEF Settled
  <2> QED
    BY <1>1, <1>2, <1>3, <2>1, <2>2
<1>5. ASSUME NEW x \in Workers, Submits(x)
      PROVE  /\ \A i \in DOMAIN queue' :
                queue'[i].doc = d => queue'[i].kind = "delete" /\ phase'[d] # "live"
             /\ reply'[w] = "ok" /\ phase'[d] = "live" =>
                index'[d] = IF pc[w] = "putting" THEN claim[w].ver ELSE 0
  <2>1. PICK kind \in {"put", "delete"} :
            /\ pc[x] = IF kind = "put" THEN "index" ELSE "remove"
            /\ queue' = Append(queue, [kind |-> kind, doc |-> claim[x].doc, ver |-> claim[x].ver, from |-> x])
    BY <1>5 DEF Submits
  <2>2. x # w /\ pc[x] \in Projecting
    BY <1>1, <2>1 DEF Projecting
  <2>3. claim[x].doc # d
    BY <1>0, <1>2, <2>2 DEF OneProjector
  <2>4. reply'[w] = reply[w] /\ UNCHANGED <<index, phase>>
    BY <1>5, <2>2 DEF Submits, docVars
  <2>5. /\ \A i \in DOMAIN queue : i \in DOMAIN queue' /\ queue'[i] = queue[i]
        /\ \A i \in DOMAIN queue' : i \in DOMAIN queue \/ queue'[i].doc = claim[x].doc
    BY <1>0, <2>1, QueueAppend
  <2> QED
    BY <1>3, <2>3, <2>4, <2>5
<1>6. ASSUME NEW e \in Docs, BeginUnindex(e)
      PROVE  /\ \A i \in DOMAIN queue' :
                queue'[i].doc = d => queue'[i].kind = "delete" /\ phase'[d] # "live"
             /\ reply'[w] = "ok" /\ phase'[d] = "live" =>
                index'[d] = IF pc[w] = "putting" THEN claim[w].ver ELSE 0
  <2> DEFINE op == [kind |-> "delete", doc |-> e, ver |-> version[e], from |-> Eraser]
  <2>1. /\ queue' = Append(queue, op) /\ unindex[e] = "queued"
        /\ reply' = [reply EXCEPT ![Eraser] = "none"] /\ UNCHANGED <<phase, index>>
    BY <1>6 DEF BeginUnindex, Submit, docVars
  <2>2. /\ \A i \in DOMAIN queue : i \in DOMAIN queue' /\ queue'[i] = queue[i]
        /\ \A i \in DOMAIN queue' : i \in DOMAIN queue \/ queue'[i] = op
    BY <1>0, <2>1, QueueAppend
  <2>3. phase[e] = "concealed" /\ reply'[w] = reply[w]
    BY <1>0, <2>1, NamesAssumption DEF TypeOK, DocTypes, MeiliTypes, NamesAssumption, Clients
  <2> QED
    BY <1>3, <2>1, <2>2, <2>3
<1>7. CASE HeadLeaves
  <2>1. /\ 1 \in DOMAIN queue /\ Head(queue) = queue[1]
        /\ DOMAIN queue \subseteq Nat
        /\ \A i \in DOMAIN queue' : i \in Nat /\ i + 1 \in DOMAIN queue /\ 1 < i + 1 /\ queue'[i] = queue[i + 1]
        /\ \A e \in Docs : e # queue[1].doc => index'[e] = index[e]
    BY <1>0, <1>7, QueueTail
  <2>2. w \in Clients /\ UNCHANGED <<phase, pc, claim>>
    BY <1>7 DEF HeadLeaves, Clients
  <2>3. CASE queue[1].from # w
    <3>1. reply'[w] = reply[w]
        BY <1>7, <2>1, <2>2, <2>3 DEF HeadLeaves, Answer
    <3>2. phase[d] = "live" => queue[1].doc # d
        BY <1>3, <2>1, <3>1
    <3> QED
        BY <1>1, <1>2, <1>3, <2>1, <2>2, <3>1, <3>2
  <2>4. CASE queue[1].from = w
    <3>1. /\ pc[w] = IF queue[1].kind = "put" THEN "putting" ELSE "deleting"
          /\ queue[1].doc = d /\ queue[1].ver = claim[w].ver
        BY <1>0, <2>1, <2>4 DEF Attended
    <3>2. ASSUME NEW i \in DOMAIN queue', queue'[i].doc = d
          PROVE  queue'[i].kind = "delete" /\ phase'[d] # "live"
      <4>1. i + 1 \in DOMAIN queue /\ 1 < i + 1 /\ queue'[i] = queue[i + 1]
        BY <2>1
      <4> QED
        BY <1>0, <2>1, <2>2, <2>4, <3>1, <3>2, <4>1 DEF Attended
    <3>3. reply'[w] = "ok" => index' = Applied(queue[1])
        BY <1>7, <2>1, <2>2, <2>4 DEF HeadLeaves, Answer
    <3>4. reply'[w] = "ok" => index'[d] = IF pc[w] = "putting" THEN claim[w].ver ELSE 0
        BY <1>0, <1>2, <3>1, <3>3 DEF Applied, TypeOK, MeiliTypes
    <3> QED
        BY <1>1, <3>2, <3>4
  <2> QED
    BY <2>3, <2>4
<1>8. mode = "serving"
    BY <1>0, <1>2 DEF Barrier, Projecting
<1> QED
    BY <1>1, <1>4, <1>5, <1>6, <1>7, <1>8, MeiliLeaves DEF QueueLook, ResetIndex, Reindex

LEMMA NextInOrder ==
    ASSUME Inductive, DocumentLook, QueueLook
    PROVE  InOrder'
<1> USE BoundsAssumption DEF BoundsAssumption
<1>0. TypeOK /\ Versioned /\ ProjectorHolds /\ InOrder /\ Barrier
    BY DEF Inductive
<1>1. \A d \in Docs : /\ version[d] \in Nat /\ version'[d] \in Nat /\ version[d] <= version'[d]
                      /\ index[d] \in Nat /\ index[d] <= version[d]
    BY <1>0, DocumentMoves DEF InOrder, TypeOK, MeiliTypes
<1>2. \A i \in DOMAIN queue : queue[i].doc \in Docs /\ queue[i].ver \in Nat
  <2>1. \A i \in DOMAIN queue : queue[i] \in Op
    BY <1>0 DEF TypeOK, MeiliTypes
  <2> QED
    BY <2>1 DEF Op, Versions
<1>3. \A i \in DOMAIN queue : queue[i].kind = "put" =>
        index[queue[i].doc] <= queue[i].ver /\ queue[i].ver <= version[queue[i].doc]
    BY <1>0 DEF InOrder
<1>4. \A i, j \in DOMAIN queue :
        i < j /\ queue[i].doc = queue[j].doc /\ queue[i].kind = "put" /\ queue[j].kind = "put" =>
            queue[i].ver <= queue[j].ver
    BY <1>0 DEF InOrder
<1>5. CASE Settled
  <2>1. UNCHANGED index /\ DOMAIN queue' = DOMAIN queue
    BY <1>5 DEF Settled
  <2>2. \A i \in DOMAIN queue : /\ queue'[i].kind = queue[i].kind /\ queue'[i].doc = queue[i].doc
                                /\ queue'[i].ver = queue[i].ver
    BY <1>5 DEF Settled
  <2>3. \A d \in Docs : index'[d] <= version'[d]
    BY <1>1, <2>1
  <2>4. \A i \in DOMAIN queue' : queue'[i].kind = "put" =>
        index'[queue'[i].doc] <= queue'[i].ver /\ queue'[i].ver <= version'[queue'[i].doc]
    BY <1>1, <1>2, <1>3, <2>1, <2>2
  <2>5. \A i, j \in DOMAIN queue' :
        i < j /\ queue'[i].doc = queue'[j].doc /\ queue'[i].kind = "put" /\ queue'[j].kind = "put" =>
            queue'[i].ver <= queue'[j].ver
    BY <1>4, <2>1, <2>2
  <2> QED
    BY <2>3, <2>4, <2>5 DEF InOrder
<1>6. ASSUME NEW op, queue' = Append(queue, op), UNCHANGED <<index, version>>,
             op.doc \in Docs, op.kind = "put" => op.ver = version[op.doc]
      PROVE  InOrder'
  <2>1. /\ \A i \in DOMAIN queue : i \in DOMAIN queue' /\ queue'[i] = queue[i]
        /\ \A i \in DOMAIN queue' : i \in DOMAIN queue \/ queue'[i] = op
        /\ \A i, j \in DOMAIN queue' : i < j => i \in DOMAIN queue
    BY <1>0, <1>6, QueueAppend
  <2>2. \A d \in Docs : index'[d] <= version'[d]
    BY <1>1, <1>6
  <2>3. ASSUME NEW i \in DOMAIN queue', queue'[i].kind = "put"
        PROVE  index'[queue'[i].doc] <= queue'[i].ver /\ queue'[i].ver <= version'[queue'[i].doc]
    <3>1. CASE i \in DOMAIN queue
        BY <1>3, <1>6, <2>1, <2>3, <3>1
    <3>2. CASE queue'[i] = op
        BY <1>1, <1>6, <2>3, <3>2
    <3> QED
        BY <2>1, <3>1, <3>2
  <2>4. ASSUME NEW i \in DOMAIN queue', NEW j \in DOMAIN queue', i < j, queue'[i].doc = queue'[j].doc,
               queue'[i].kind = "put", queue'[j].kind = "put"
        PROVE  queue'[i].ver <= queue'[j].ver
    <3>1. i \in DOMAIN queue /\ queue'[i] = queue[i]
        BY <2>1, <2>4
    <3>2. CASE j \in DOMAIN queue
        BY <1>4, <2>1, <2>4, <3>1, <3>2
    <3>3. CASE queue'[j] = op
        BY <1>3, <1>6, <2>4, <3>1, <3>3
    <3> QED
        BY <2>1, <3>2, <3>3
  <2> QED
    BY <2>2, <2>3, <2>4 DEF InOrder
<1>7. ASSUME NEW w \in Workers, Submits(w) PROVE InOrder'
  <2>1. PICK kind \in {"put", "delete"} :
            /\ pc[w] = IF kind = "put" THEN "index" ELSE "remove"
            /\ queue' = Append(queue, [kind |-> kind, doc |-> claim[w].doc, ver |-> claim[w].ver, from |-> w])
    BY <1>7 DEF Submits
  <2>2. UNCHANGED <<index, version>>
    BY <1>7 DEF Submits, docVars
  <2>3. claim[w].doc \in Docs /\ (kind = "put" => claim[w].ver = version[claim[w].doc])
    BY <1>0, <2>1, ProjectedExists DEF ProjectorHolds, Projecting
  <2> QED
    BY <1>6, <2>1, <2>2, <2>3
<1>8. ASSUME NEW d \in Docs, BeginUnindex(d) PROVE InOrder'
  <2>1. /\ queue' = Append(queue, [kind |-> "delete", doc |-> d, ver |-> version[d], from |-> Eraser])
        /\ UNCHANGED <<index, version>>
    BY <1>8 DEF BeginUnindex, Submit, docVars
  <2> QED
    BY <1>6, <2>1
<1>9. CASE HeadLeaves
  <2>1. /\ 1 \in DOMAIN queue /\ DOMAIN queue \subseteq Nat
        /\ \A i \in DOMAIN queue' : i \in Nat /\ i + 1 \in DOMAIN queue /\ 1 < i + 1 /\ queue'[i] = queue[i + 1]
        /\ \A d \in Docs : d # queue[1].doc => index'[d] = index[d]
        /\ index'[queue[1].doc] \in
            {index[queue[1].doc], IF queue[1].kind = "put" THEN queue[1].ver ELSE 0}
    BY <1>0, <1>9, QueueTail
  <2>2. version' = version
    BY <1>9 DEF HeadLeaves
  <2>3. \A d \in Docs : index'[d] \in {index[d], 0}
                        \/ (d = queue[1].doc /\ queue[1].kind = "put" /\ index'[d] = queue[1].ver)
    BY <2>1
  <2>4. \A d \in Docs : index'[d] <= version'[d]
    BY <1>1, <1>3, <2>1, <2>2, <2>3
  <2>5. ASSUME NEW i \in DOMAIN queue', queue'[i].kind = "put"
        PROVE  index'[queue'[i].doc] <= queue'[i].ver /\ queue'[i].ver <= version'[queue'[i].doc]
    <3>1. i + 1 \in DOMAIN queue /\ 1 < i + 1 /\ queue'[i] = queue[i + 1]
        BY <2>1
    <3>2. /\ queue[i + 1].doc \in Docs /\ queue[i + 1].ver \in Nat
          /\ index[queue[i + 1].doc] <= queue[i + 1].ver /\ queue[i + 1].ver <= version[queue[i + 1].doc]
        BY <1>2, <1>3, <2>5, <3>1
    <3>3. queue[1].doc = queue[i + 1].doc /\ queue[1].kind = "put" => queue[1].ver <= queue[i + 1].ver
        BY <1>4, <2>1, <2>5, <3>1
    <3> QED
        BY <2>2, <2>3, <3>1, <3>2, <3>3
  <2>6. ASSUME NEW i \in DOMAIN queue', NEW j \in DOMAIN queue', i < j, queue'[i].doc = queue'[j].doc,
               queue'[i].kind = "put", queue'[j].kind = "put"
        PROVE  queue'[i].ver <= queue'[j].ver
    <3>1. /\ i + 1 \in DOMAIN queue /\ queue'[i] = queue[i + 1]
          /\ j + 1 \in DOMAIN queue /\ queue'[j] = queue[j + 1] /\ i + 1 < j + 1
        BY <2>1, <2>6
    <3> QED
        BY <1>4, <2>6, <3>1
  <2> QED
    BY <2>4, <2>5, <2>6 DEF InOrder
<1>10. CASE ResetIndex
  <2>1. queue' = <<>> /\ \A d \in Docs : index'[d] = 0
    BY <1>10 DEF ResetIndex
  <2> QED
    BY <1>1, <2>1 DEF InOrder
<1>11. ASSUME NEW d \in Docs, Reindex(d) PROVE InOrder'
  <2>1. queue' = <<>> /\ version' = version /\ index' = [index EXCEPT ![d] = version[d]]
    BY <1>0, <1>11 DEF Reindex, Barrier, docVars
  <2>2. \A e \in Docs : index'[e] \in {index[e], version[e]}
    BY <1>0, <2>1 DEF TypeOK, MeiliTypes
  <2> QED
    BY <1>1, <2>1, <2>2 DEF InOrder
<1> QED
    BY <1>5, <1>7, <1>8, <1>9, <1>10, <1>11, MeiliLeaves DEF QueueLook

LEMMA NextMirrored ==
    ASSUME Inductive, DocumentLook, TaskLook, QueueLook, ModeLook
    PROVE  ConsumedTaskMeansMirrored'
<1>0. /\ TypeOK /\ Versioned /\ ProjectorHolds /\ Replied /\ Barrier /\ ConsumedTaskMeansMirrored
    BY DEF Inductive
<1> SUFFICES ASSUME mode' = "serving", NEW d \in Docs, phase'[d] = "live",
                    task'[d][version'[d]] = "none"
             PROVE  /\ index'[d] = IF vis'[d] = "public" THEN version'[d] ELSE 0
                    /\ \A i \in DOMAIN queue' : queue'[i].doc # d
    BY DEF ConsumedTaskMeansMirrored, Projection, QueuedFor
<1> DEFINE v == version[d]
<1>1. phase[d] = "live" /\ version'[d] = v /\ vis'[d] = vis[d]
  <2>1. ~Created(d) /\ ~Updated(d) /\ ~Hidden(d) /\ ~Gone(d)
    BY DEF Created, Updated, Hidden, Gone
  <2> QED
    BY <2>1 DEF DocumentLook, DocSame
<1>2. v \in Versions
    BY <1>0, <1>1 DEF TypeOK, DocTypes
<1>3. ASSUME \A i \in DOMAIN queue : queue[i].doc # d,
             index[d] = IF vis[d] = "public" THEN v ELSE 0, mode = "serving", task[d][v] = "none"
      PROVE  /\ index'[d] = IF vis'[d] = "public" THEN version'[d] ELSE 0
             /\ \A i \in DOMAIN queue' : queue'[i].doc # d
  <2>1. ASSUME index'[d] = index[d], \A i \in DOMAIN queue' : queue'[i].doc # d
        PROVE  /\ index'[d] = IF vis'[d] = "public" THEN version'[d] ELSE 0
               /\ \A i \in DOMAIN queue' : queue'[i].doc # d
    BY <1>1, <1>3, <2>1
  <2>2. CASE Settled
    BY <1>3, <2>1, <2>2 DEF Settled
  <2>3. ASSUME NEW w \in Workers, Submits(w) PROVE index'[d] = index[d] /\ \A i \in DOMAIN queue' : queue'[i].doc # d
    <3>1. PICK kind \in {"put", "delete"} :
            /\ pc[w] = IF kind = "put" THEN "index" ELSE "remove"
            /\ queue' = Append(queue, [kind |-> kind, doc |-> claim[w].doc, ver |-> claim[w].ver, from |-> w])
        BY <2>3 DEF Submits
    <3>2. pc[w] \in Projecting
        BY <3>1 DEF Projecting
    <3>3. claim[w].doc # d
        BY <1>0, <1>1, <1>3, <3>2, ProjectedExists DEF ProjectorHolds, RowExists
    <3>4. \A i \in DOMAIN queue' : (i \in DOMAIN queue /\ queue'[i] = queue[i]) \/ queue'[i].doc = claim[w].doc
        BY <1>0, <3>1, QueueAppend
    <3> QED
        BY <1>3, <2>3, <3>3, <3>4 DEF Submits
  <2>4. ASSUME NEW e \in Docs, BeginUnindex(e) PROVE index'[d] = index[d] /\ \A i \in DOMAIN queue' : queue'[i].doc # d
    <3>1. /\ queue' = Append(queue, [kind |-> "delete", doc |-> e, ver |-> version[e], from |-> Eraser])
          /\ unindex[e] = "queued" /\ UNCHANGED index
        BY <2>4 DEF BeginUnindex, Submit
    <3>2. e # d
        BY <1>0, <1>1, <3>1 DEF TypeOK, DocTypes
    <3>3. \A i \in DOMAIN queue' : (i \in DOMAIN queue /\ queue'[i] = queue[i]) \/ queue'[i].doc = e
        BY <1>0, <3>1, QueueAppend
    <3> QED
        BY <1>3, <3>1, <3>2, <3>3
  <2>5. CASE HeadLeaves
    <3>1. /\ 1 \in DOMAIN queue
          /\ \A i \in DOMAIN queue' : i + 1 \in DOMAIN queue /\ queue'[i] = queue[i + 1]
          /\ \A e \in Docs : e # queue[1].doc => index'[e] = index[e]
        BY <1>0, <2>5, QueueTail
    <3> QED
        BY <1>3, <2>1, <3>1
  <2> QED
    BY <1>3, <2>1, <2>2, <2>3, <2>4, <2>5, MeiliLeaves DEF QueueLook, ResetIndex, Reindex
<1>4. CASE task[d][v] = "none" /\ mode = "serving"
  <2>1. index[d] = (IF vis[d] = "public" THEN v ELSE 0) /\ \A i \in DOMAIN queue : queue[i].doc # d
    BY <1>0, <1>1, <1>4 DEF ConsumedTaskMeansMirrored, Projection, QueuedFor
  <2> QED
    BY <1>3, <1>4, <2>1
<1>5. CASE FinishRebuild
  <2>1. /\ mode = "indexing" /\ UNCHANGED <<queue, index>>
        /\ RowExists(d) /\ vis[d] = "public" => d \in rebuilt
    BY <1>5 DEF FinishRebuild, meiliVars
  <2>2. queue = <<>> /\ IF d \in rebuilt THEN index[d] = v /\ vis[d] = "public" ELSE index[d] = 0
    BY <1>0, <2>1 DEF Barrier
  <2> QED
    BY <1>1, <2>1, <2>2 DEF RowExists
<1>6. CASE task[d][v] # "none" /\ ~FinishRebuild
  <2>1. PICK w \in Workers : Consumes(w) /\ claim[w].doc = d /\ claim[w].ver = v
    BY <1>1, <1>2, <1>6 DEF TaskLook, Kept, Touched
  <2>2. pc[w] \in Projecting /\ pc[w] \in {"putting", "deleting"} /\ reply[w] = "ok" /\ UNCHANGED <<queue, index>>
    BY <2>1 DEF Consumes, Projecting
  <2>3. \A i \in DOMAIN queue : queue[i].doc # d
    BY <1>0, <1>1, <2>1, <2>2 DEF Replied, QueuedFor
  <2>4. index[d] = IF pc[w] = "putting" THEN v ELSE 0
    BY <1>0, <1>1, <2>1, <2>2 DEF Replied
  <2>5. vis[d] = IF pc[w] = "putting" THEN "public" ELSE "private"
    BY <1>0, <1>1, <2>1, <2>2 DEF ProjectorHolds
  <2> QED
    BY <1>1, <2>2, <2>3, <2>4, <2>5
<1>7. mode = "serving" \/ FinishRebuild
    BY DEF ModeLook, Stopped, ResetIndex, Reindex
<1> QED
    BY <1>4, <1>5, <1>6, <1>7

LEMMA NextErased ==
    ASSUME Inductive, DocumentLook, TaskLook, QueueLook
    PROVE  ErasedMeansAbsent'
<1>0. /\ TypeOK /\ Versioned /\ ProjectorHolds /\ Replied /\ Barrier /\ ErasedMeansAbsent
    BY DEF Inductive
<1> SUFFICES ASSUME NEW d \in Docs, phase'[d] = "erased", \A v \in Versions : task'[d][v] = "none"
             PROVE  index'[d] = 0 /\ \A i \in DOMAIN queue' : queue'[i].doc = d => queue'[i].kind = "delete"
    BY DEF ErasedMeansAbsent, NoTask, QueuedFor
<1>1. phase[d] = "erased"
  <2>1. ~Gone(d)
    <3>1. phase[d] = "concealed" => version[d] \in Versions
        BY <1>0 DEF TypeOK, DocTypes
    <3> QED
        BY <3>1 DEF Gone
  <2> QED
    BY <2>1 DEF DocumentLook, DocSame, Created, Updated, Hidden
<1>2. CASE \A v \in Versions : task[d][v] = "none"
  <2>1. index[d] = 0 /\ \A i \in DOMAIN queue : queue[i].doc = d => queue[i].kind = "delete"
    BY <1>0, <1>1, <1>2 DEF ErasedMeansAbsent, NoTask, QueuedFor
  <2>2. CASE Settled
    BY <2>1, <2>2 DEF Settled
  <2>3. ASSUME NEW w \in Workers, Submits(w)
        PROVE  index'[d] = 0 /\ \A i \in DOMAIN queue' : queue'[i].doc = d => queue'[i].kind = "delete"
    <3>1. PICK kind \in {"put", "delete"} :
            /\ pc[w] = IF kind = "put" THEN "index" ELSE "remove"
            /\ queue' = Append(queue, [kind |-> kind, doc |-> claim[w].doc, ver |-> claim[w].ver, from |-> w])
        BY <2>3 DEF Submits
    <3>2. claim[w].doc # d
        BY <1>0, <1>2, <3>1, ProjectedExists DEF Projecting
    <3>3. \A i \in DOMAIN queue' : (i \in DOMAIN queue /\ queue'[i] = queue[i]) \/ queue'[i].doc = claim[w].doc
        BY <1>0, <3>1, QueueAppend
    <3> QED
        BY <2>1, <2>3, <3>2, <3>3 DEF Submits
  <2>4. ASSUME NEW e \in Docs, BeginUnindex(e)
        PROVE  index'[d] = 0 /\ \A i \in DOMAIN queue' : queue'[i].doc = d => queue'[i].kind = "delete"
    <3>1. /\ queue' = Append(queue, [kind |-> "delete", doc |-> e, ver |-> version[e], from |-> Eraser])
          /\ UNCHANGED index
        BY <2>4 DEF BeginUnindex, Submit
    <3>2. \A i \in DOMAIN queue' : (i \in DOMAIN queue /\ queue'[i] = queue[i]) \/ queue'[i].kind = "delete"
        BY <1>0, <3>1, QueueAppend
    <3> QED
        BY <2>1, <3>1, <3>2
  <2>5. CASE HeadLeaves
    <3>1. /\ 1 \in DOMAIN queue
          /\ \A i \in DOMAIN queue' : i + 1 \in DOMAIN queue /\ queue'[i] = queue[i + 1]
          /\ \A e \in Docs : e # queue[1].doc => index'[e] = index[e]
          /\ index'[queue[1].doc] \in
                {index[queue[1].doc], IF queue[1].kind = "put" THEN queue[1].ver ELSE 0}
        BY <1>0, <2>5, QueueTail
    <3> QED
        BY <2>1, <3>1
  <2>6. CASE ResetIndex
    BY <2>6 DEF ResetIndex
  <2>7. ASSUME NEW e \in Docs, Reindex(e)
        PROVE  index'[d] = 0 /\ \A i \in DOMAIN queue' : queue'[i].doc = d => queue'[i].kind = "delete"
    BY <1>0, <1>1, <2>1, <2>7 DEF Reindex, RowExists, TypeOK, MeiliTypes
  <2> QED
    BY <2>2, <2>3, <2>4, <2>5, <2>6, <2>7, MeiliLeaves DEF QueueLook
<1>3. ASSUME NEW v \in Versions, task[d][v] # "none"
      PROVE  index'[d] = 0 /\ \A i \in DOMAIN queue' : queue'[i].doc = d => queue'[i].kind = "delete"
  <2>1. CASE FinishRebuild
    BY <1>0, <1>1, <2>1 DEF FinishRebuild, Barrier, meiliVars
  <2>2. CASE ~FinishRebuild
    <3>1. PICK w \in Workers : Consumes(w) /\ claim[w].doc = d
        BY <1>3, <2>2 DEF TaskLook, Kept, Touched
    <3>2. pc[w] \in Projecting /\ pc[w] = "deleting"
        BY <1>0, <1>1, <3>1 DEF Consumes, ProjectorHolds, RowExists, Projecting
    <3>3. reply[w] = "ok" /\ index[d] = 0 /\ UNCHANGED <<queue, index>>
        BY <3>1, <3>2 DEF Consumes
    <3>4. \A i \in DOMAIN queue : queue[i].doc = d => queue[i].kind = "delete"
        BY <1>0, <3>1, <3>2, <3>3 DEF Replied, QueuedFor
    <3> QED
        BY <3>3, <3>4
  <2> QED
    BY <2>1, <2>2
<1> QED
    BY <1>2, <1>3

LEMMA NextDeadLetter ==
    ASSUME Inductive, DocumentLook, TaskLook
    PROVE  DeadLetterIsCurrent'
<1> USE BoundsAssumption DEF BoundsAssumption
<1>0. TypeOK /\ Versioned /\ DeadLetterIsCurrent
    BY DEF Inductive
<1> SUFFICES ASSUME NEW d \in Docs, NEW v \in Versions,
                    phase'[d] \in {"live", "concealed"}, task'[d][v] = "dead_letter"
             PROVE  v = version'[d]
    BY DEF DeadLetterIsCurrent, RowExists
<1>1. CASE Touched(d, v)
    BY <1>1 DEF Touched
<1>2. CASE Kept(d, v)
  <2>1. task[d][v] = "dead_letter" /\ v <= version[d] /\ v \in Nat /\ v >= 1 /\ version[d] \in Nat
    BY <1>0, <1>2 DEF Kept, Versioned, Versions, TypeOK, DocTypes
  <2>2. RowExists(d) => v = version[d]
    BY <1>0, <2>1 DEF DeadLetterIsCurrent
  <2>3. phase[d] # "new"
    BY <1>0, <2>1 DEF Versioned
  <2>4. ~Updated(d)
    BY <2>1 DEF Updated
  <2> QED
    BY <2>2, <2>3, <2>4 DEF DocumentLook, DocSame, Created, Hidden, Gone, RowExists
<1> QED
    BY <1>1, <1>2 DEF TaskLook

-----------------------------------------------------------------------------
(* The invariant and the theorems *)

LEMMA InitInductive == Init => Inductive
<1> SUFFICES ASSUME Init PROVE Inductive
    OBVIOUS
<1>1. TypeOK
    BY InitTypeOK
<1>2. Versioned /\ OneProjector /\ ProjectorHolds /\ Replied /\ Barrier
    BY DEF Init, Versioned, OneProjector, ProjectorHolds, Replied, Barrier, Projecting
<1>3. Attended /\ InOrder /\ ConsumedTaskMeansMirrored /\ ErasedMeansAbsent /\ DeadLetterIsCurrent
  <2>1. queue = <<>> /\ (\A d \in Docs : index[d] = 0 /\ version[d] = 0 /\ phase[d] = "new")
    BY DEF Init
  <2> QED
    BY <2>1 DEF Attended, InOrder, ConsumedTaskMeansMirrored, ErasedMeansAbsent,
       DeadLetterIsCurrent, RowExists
<1> QED
    BY <1>1, <1>2, <1>3 DEF Inductive

\* Every step of the system preserves the invariant.
LEMMA NextInductive == Inductive /\ [Next]_vars => Inductive'
<1> SUFFICES ASSUME Inductive, [Next]_vars PROVE Inductive'
    OBVIOUS
<1>1. TypeOK /\ Attended /\ Barrier
    BY DEF Inductive
<1>2. DocumentLook /\ WorkerLook /\ TaskLook /\ QueueLook /\ ModeLook
    BY <1>1, NextDocumentLook, NextWorkerLook, NextTaskLook, NextQueueLook, NextModeLook
<1>3. TypeOK'
    BY <1>1, NextTypeOK
<1>4. Versioned' /\ OneProjector' /\ ProjectorHolds'
    BY <1>2, NextVersioned, NextOneProjector, NextProjectorHolds
<1>5. Attended' /\ Replied' /\ InOrder' /\ Barrier'
    BY <1>2, NextAttended, NextReplied, NextInOrder, NextBarrier
<1>6. ConsumedTaskMeansMirrored' /\ ErasedMeansAbsent' /\ DeadLetterIsCurrent'
    BY <1>2, NextMirrored, NextErased, NextDeadLetter
<1> QED
    BY <1>3, <1>4, <1>5, <1>6 DEF Inductive

LEMMA InductiveHolds == Spec => []Inductive
BY InitInductive, NextInductive, PTL DEF Spec

\* What deleting the outbox task at the end of _project claims: a live document
\* without a task for its current version is mirrored by Meilisearch, with
\* nothing queued that could undo it, whatever crashed, timed out or retried.
THEOREM ConsumedIsMirrored == Spec => []ConsumedTaskMeansMirrored
<1>1. Inductive => ConsumedTaskMeansMirrored
    BY DEF Inductive
<1> QED
    BY <1>1, InductiveHolds, PTL

\* What _reconcile relies on: an erased document whose tombstone is consumed is
\* absent from the index for good.
THEOREM ErasedIsAbsent == Spec => []ErasedMeansAbsent
<1>1. Inductive => ErasedMeansAbsent
    BY DEF Inductive
<1> QED
    BY <1>1, InductiveHolds, PTL

\* _fail and DocumentService.update together: a dead letter is about the
\* current version.
THEOREM DeadLettersAreCurrent == Spec => []DeadLetterIsCurrent
<1>1. Inductive => DeadLetterIsCurrent
    BY DEF Inductive
<1> QED
    BY <1>1, InductiveHolds, PTL

\* A step of the system moves the index of a document forward or empties it.
LEMMA NextIndexAdvances ==
    ASSUME Inductive, [Next]_vars
    PROVE  [IndexAdvances]_index
<1> USE BoundsAssumption DEF BoundsAssumption
<1>0. TypeOK /\ InOrder /\ Attended
    BY DEF Inductive
<1>1. \A d \in Docs : index[d] \in Nat /\ version[d] \in Nat /\ index[d] <= version[d]
    BY <1>0 DEF InOrder, TypeOK, DocTypes, MeiliTypes
<1>2. QueueLook
    BY <1>0, NextQueueLook
<1>3. CASE UNCHANGED index
    BY <1>3
<1>4. CASE HeadLeaves
  <2>1. /\ 1 \in DOMAIN queue /\ queue[1] \in Op
        /\ \A d \in Docs : d # queue[1].doc => index'[d] = index[d]
        /\ index'[queue[1].doc] \in
            {index[queue[1].doc], IF queue[1].kind = "put" THEN queue[1].ver ELSE 0}
    BY <1>0, <1>4, QueueTail
  <2>2. queue[1].doc \in Docs /\ queue[1].ver \in Nat
    BY <2>1 DEF Op, Versions
  <2>3. queue[1].kind = "put" => index[queue[1].doc] <= queue[1].ver
    BY <1>0, <2>1 DEF InOrder
  <2>4. \A d \in Docs : index'[d] # 0 => index'[d] >= index[d]
    BY <1>1, <2>1, <2>2, <2>3
  <2> QED
    BY <2>4 DEF IndexAdvances
<1>5. CASE ResetIndex
    BY <1>5 DEF ResetIndex, IndexAdvances
<1>6. ASSUME NEW d \in Docs, Reindex(d) PROVE [IndexAdvances]_index
  <2>1. \A e \in Docs : index'[e] \in {index[e], version[e]}
    BY <1>0, <1>6 DEF Reindex, TypeOK, MeiliTypes
  <2>2. \A e \in Docs : index'[e] # 0 => index'[e] >= index[e]
    BY <1>1, <2>1
  <2> QED
    BY <2>2 DEF IndexAdvances
<1> QED
    BY <1>2, <1>3, <1>4, <1>5, <1>6, MeiliLeaves DEF QueueLook, Settled, Submits, BeginUnindex, Submit

\* Requests of crashed, timed-out or superseded workers that are still queued
\* at Meilisearch never bring back an older version of a document.
THEOREM IndexIsMonotone == Spec => IndexNeverGoesBack
BY InductiveHolds, NextIndexAdvances, PTL DEF Spec, IndexNeverGoesBack
=============================================================================
