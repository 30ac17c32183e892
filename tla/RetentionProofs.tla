--------------------------- MODULE RetentionProofs ---------------------------
(***************************************************************************)
(* What a hold preserves, for any tree of records and any number of        *)
(* workers, holds, crashes, failed commits and lost leases.  Of Lineage    *)
(* only its value per record matters, so it is never unfolded.             *)
(***************************************************************************)
EXTENDS Retention, TLAPS

\* A leased task has an owner and counts the attempt that is running.
LeaseCounts ==
    \A r \in Disposable : task[r] # None /\ task[r].state = "leased" => task[r].attempts > 0

\* Tasks are never deleted, so a claim has its task.
ClaimHasTask == \A w \in Workers : claim[w] # None => task[claim[w].record] # None

\* A disposal between its unlink and its commit holds the guard and its lease,
\* and no hold covers its record.
DisposalIsGuarded ==
    \A w \in Workers : At(w, "disposing") =>
        /\ guard = w /\ Owns(w)
        /\ ~ActiveHold(claim[w].record)

\* A record whose row is gone has a completed task.
GoneIsCompleted ==
    \A r \in Records \ rows : r \in Disposable /\ task[r] # None /\ task[r].state = "completed"

\* Holds name records that exist.
HoldsExist == holds \subseteq rows

\* A row without its file has a task that counts the attempt which unlinked it,
\* and a later claim counts one more: giving that one back leaves a trace.
MissingIsCounted ==
    \A r \in (rows \cap Filed) \ files :
        /\ task[r] # None /\ task[r].attempts > 0
        /\ \A w \in Workers :
            claim[w] # None /\ claim[w].record = r /\ Owns(w)
                /\ claim[w].stage \in {"claimed", "dependent"} => task[r].attempts > 1

Inductive ==
    /\ TypeOK
    /\ LeaseCounts
    /\ ClaimHasTask
    /\ DisposalIsGuarded
    /\ GoneIsCompleted
    /\ HoldsExist
    /\ MissingIsCounted
    /\ HeldIsWhole

-----------------------------------------------------------------------------
(* Types *)

\* What a step writes into a task.
LEMMA TaskWrites ==
    ASSUME NEW t \in LifecycleTask, NEW n \in Nat
    PROVE  /\ [state |-> "queued", attempts |-> n, token |-> None, lapsed |-> FALSE] \in LifecycleTask
           /\ \A w \in Workers :
                [state |-> "leased", attempts |-> n, token |-> w, lapsed |-> FALSE] \in LifecycleTask
           /\ [t EXCEPT !.state = "dead_letter", !.token = None, !.lapsed = FALSE] \in LifecycleTask
           /\ [t EXCEPT !.state = "completed", !.token = None, !.lapsed = FALSE] \in LifecycleTask
           /\ [t EXCEPT !.lapsed = TRUE] \in LifecycleTask
<1>1. [state |-> "queued", attempts |-> n, token |-> None, lapsed |-> FALSE] \in LifecycleTask
    BY DEF LifecycleTask
<1>2. \A w \in Workers :
        [state |-> "leased", attempts |-> n, token |-> w, lapsed |-> FALSE] \in LifecycleTask
    BY DEF LifecycleTask
<1>3. [t EXCEPT !.state = "dead_letter", !.token = None, !.lapsed = FALSE] \in LifecycleTask
    BY Zenon DEF LifecycleTask
<1>4. [t EXCEPT !.state = "completed", !.token = None, !.lapsed = FALSE] \in LifecycleTask
    BY Zenon DEF LifecycleTask
<1>5. [t EXCEPT !.lapsed = TRUE] \in LifecycleTask
    BY Zenon DEF LifecycleTask
<1> QED
    BY <1>1, <1>2, <1>3, <1>4, <1>5

\* Every step keeps the types.
LEMMA NextTypeOK == TypeOK /\ LeaseCounts /\ ClaimHasTask /\ [Next]_vars => TypeOK'
<1> SUFFICES ASSUME TypeOK, LeaseCounts, ClaimHasTask, [Next]_vars PROVE TypeOK'
    OBVIOUS
<1> USE RetentionAssumption DEF RetentionAssumption, TypeOK
<1>1. ASSUME NEW h \in Records, CreateRetentionHold(h) PROVE TypeOK'
    BY <1>1 DEF CreateRetentionHold
<1>2. ASSUME NEW h \in Records, ReleaseRetentionHold(h) PROVE TypeOK'
    BY <1>2 DEF ReleaseRetentionHold
<1>3. ASSUME NEW r \in Disposable, Discover(r) PROVE TypeOK'
    BY <1>3 DEF Discover, InsertTask, LifecycleTask
<1>4. ASSUME NEW r \in Disposable, LeaseExpires(r) PROVE TypeOK'
  <2>1. task' \in [Disposable -> LifecycleTask \cup {None}]
    <3>1. [task[r] EXCEPT !.lapsed = TRUE] \in LifecycleTask
        BY <1>4, 0 \in Nat, TaskWrites DEF LeaseExpires
    <3> QED
        BY <1>4, <3>1 DEF LeaseExpires
  <2>2. faults' \in 0..MaxFaults
    BY <1>4 DEF LeaseExpires, Fault
  <2> QED
    BY <1>4, <2>1, <2>2 DEF LeaseExpires
<1>5. ASSUME NEW r \in Disposable, NEW w \in Workers, ClaimOne(w, r) PROVE TypeOK'
  <2>1. task' \in [Disposable -> LifecycleTask \cup {None}]
    BY <1>5 DEF ClaimOne, LifecycleTask
  <2>2. claim' \in [Workers -> Claim \cup {None}]
    BY <1>5 DEF ClaimOne, Claim
  <2> QED
    BY <1>5, <2>1, <2>2 DEF ClaimOne
<1>6. ASSUME NEW w \in Workers, WorkerStep(w) \/ DisposalFails(w) \/ Crash(w) PROVE TypeOK'
  <2> DEFINE r == claim[w].record
  <2>0. claim[w] # None /\ r \in Disposable
    BY <1>6 DEF WorkerStep, LostClaim, DeferToHold, MeetDependency, DeferDependency, DisposeResource,
        CommitDisposal, RetryOrDeadLetter, DisposalFails, Crash, At, Claim
  <2>a. task[r] \in LifecycleTask /\ task[r].attempts \in Nat
    BY <2>0 DEF ClaimHasTask, LifecycleTask
  <2>1. CASE LostClaim(w)
    BY <2>1 DEF LostClaim, Drop
  <2>2. CASE DeferToHold(w)
    <3>1. task[r].attempts - 1 \in Nat
        BY <2>0, <2>a, <2>2 DEF DeferToHold, Owns, LeaseCounts, ClaimHasTask
    <3>2. task' \in [Disposable -> LifecycleTask \cup {None}]
        BY <2>0, <2>a, <2>2, <3>1, TaskWrites DEF DeferToHold, Requeued
    <3> QED
        BY <2>2, <3>2 DEF DeferToHold, Drop
  <2>3. CASE MeetDependency(w)
    BY <2>0, <2>3 DEF MeetDependency, Claim
  <2>4. CASE DeferDependency(w)
    <3>1. task[r].attempts - 1 \in Nat
        BY <2>0, <2>a, <2>4 DEF DeferDependency, Owns, LeaseCounts, ClaimHasTask
    <3>2. task' \in [Disposable -> LifecycleTask \cup {None}]
        BY <2>0, <2>a, <2>4, <3>1, TaskWrites DEF DeferDependency, Requeued
    <3> QED
        BY <2>4, <3>2 DEF DeferDependency, Drop
  <2>5. CASE DisposeResource(w)
    BY <2>0, <2>5 DEF DisposeResource, Claim
  <2>6. CASE CommitDisposal(w)
    <3>1. task' \in [Disposable -> LifecycleTask \cup {None}]
        BY <2>0, <2>a, <2>6, TaskWrites DEF CommitDisposal
    <3> QED
        BY <2>0, <2>6, <3>1 DEF CommitDisposal, Drop
  <2>7. CASE RetryOrDeadLetter(w)
    <3>1. task' \in [Disposable -> LifecycleTask \cup {None}]
        BY <2>0, <2>a, <2>7, TaskWrites DEF RetryOrDeadLetter, Requeued
    <3> QED
        BY <2>7, <3>1 DEF RetryOrDeadLetter, Drop
  <2>8. CASE DisposalFails(w)
    BY <2>0, <2>8 DEF DisposalFails, Fault, Claim
  <2>9. CASE Crash(w)
    BY <2>9 DEF Crash, Drop, Fault
  <2> QED
    BY <1>6, <2>1, <2>2, <2>3, <2>4, <2>5, <2>6, <2>7, <2>8, <2>9 DEF WorkerStep
<1>7. CASE UNCHANGED vars
    BY <1>7 DEF vars
<1> QED
    BY <1>1, <1>2, <1>3, <1>4, <1>5, <1>6, <1>7 DEF Next

-----------------------------------------------------------------------------
(* Safety *)

\* Everything exists and nothing is claimed or held.
LEMMA InitInductive == Init => Inductive
BY RetentionAssumption
   DEF RetentionAssumption, Init, Inductive, TypeOK, LeaseCounts, ClaimHasTask, DisposalIsGuarded, At,
       GoneIsCompleted, HoldsExist, MissingIsCounted, HeldIsWhole

\* What the steps that write a task leave alone.
OtherTasks(r) == \A q \in Disposable \ {r} : task'[q] = task[q]
Dropped(w) == claim'[w] = None /\ \A v \in Workers \ {w} : claim'[v] = claim[v]

\* A task that goes back to the queue keeps the attempts it is given.
LEMMA RequeueWrites ==
    ASSUME TypeOK, NEW r \in Disposable, NEW n \in Nat, task' = [task EXCEPT ![r] = Requeued(r, n)]
    PROVE  /\ OtherTasks(r)
           /\ task'[r] # None /\ task'[r].state = "queued" /\ task'[r].attempts = n
<1>1. Requeued(r, n) \in LifecycleTask
    BY DEF Requeued, LifecycleTask
<1>2. Requeued(r, n) # None
    BY <1>1, RetentionAssumption DEF RetentionAssumption
<1>3. task'[r] = Requeued(r, n) /\ OtherTasks(r)
    BY DEF TypeOK, OtherTasks
<1> QED
    BY <1>2, <1>3 DEF Requeued

\* A lease that runs out changes nothing but lapsed.
LEMMA LeaseExpiresWrites ==
    ASSUME TypeOK, NEW r \in Disposable, LeaseExpires(r)
    PROVE  /\ OtherTasks(r)
           /\ task[r] # None /\ task'[r] # None
           /\ task'[r].state = task[r].state /\ task'[r].attempts = task[r].attempts
           /\ task'[r].token = task[r].token
           /\ UNCHANGED <<rows, files, holds, guard, claim>>
<1> DEFINE t == [task[r] EXCEPT !.lapsed = TRUE]
<1>1. task' = [task EXCEPT ![r] = t] /\ task[r] # None /\ UNCHANGED <<rows, files, holds, guard, claim>>
    BY DEF LeaseExpires
<1>2. task[r] \in LifecycleTask
    BY <1>1 DEF TypeOK
<1>3. t \in LifecycleTask
    BY <1>2, 0 \in Nat, TaskWrites
<1>4. t # None
    BY <1>3, RetentionAssumption DEF RetentionAssumption
<1>5. task'[r] = t /\ OtherTasks(r)
    BY <1>1 DEF TypeOK, OtherTasks
<1>6. t.state = task[r].state /\ t.attempts = task[r].attempts /\ t.token = task[r].token
    BY <1>2 DEF LifecycleTask
<1> QED
    BY <1>1, <1>4, <1>5, <1>6

\* A claim leases a task that no disposal runs for, and counts the attempt.
LEMMA ClaimOneWrites ==
    ASSUME TypeOK, NEW r \in Disposable, NEW w \in Workers, ClaimOne(w, r)
    PROVE  /\ OtherTasks(r)
           /\ task[r] # None /\ task[r].state # "completed" /\ claim[w] = None
           /\ \A v \in Workers : At(v, "disposing") => claim[v].record # r
           /\ task'[r] # None /\ task'[r].state = "leased" /\ task'[r].token = w
           /\ task'[r].attempts = task[r].attempts + 1
           /\ claim'[w] # None /\ claim'[w].record = r /\ claim'[w].stage = "claimed"
           /\ \A v \in Workers \ {w} : claim'[v] = claim[v]
           /\ UNCHANGED <<rows, files, holds, guard>>
<1> DEFINE t == [state |-> "leased", attempts |-> task[r].attempts + 1, token |-> w, lapsed |-> FALSE]
           c == [record |-> r, stage |-> "claimed"]
<1>1. /\ task' = [task EXCEPT ![r] = t] /\ claim' = [claim EXCEPT ![w] = c]
      /\ UNCHANGED <<rows, files, holds, guard>>
    BY DEF ClaimOne
<1>2. /\ task[r] # None /\ task[r].state # "completed" /\ claim[w] = None
      /\ \A v \in Workers : At(v, "disposing") => claim[v].record # r
    BY DEF ClaimOne, TaskLocked, Due, At
<1>3. task[r].attempts \in Nat
    BY <1>2 DEF TypeOK, LifecycleTask
<1>4. t \in LifecycleTask /\ c \in Claim
    BY <1>3 DEF LifecycleTask, Claim
<1>5. t # None /\ c # None
    BY <1>4, RetentionAssumption DEF RetentionAssumption
<1>6. task'[r] = t /\ OtherTasks(r)
    BY <1>1 DEF TypeOK, OtherTasks
<1>7. claim'[w] = c /\ \A v \in Workers \ {w} : claim'[v] = claim[v]
    BY <1>1 DEF TypeOK
<1> QED
    BY <1>1, <1>2, <1>5, <1>6, <1>7

\* A task that is put back gives back one attempt.
LEMMA DeferWrites ==
    ASSUME TypeOK, LeaseCounts, ClaimHasTask, NEW w \in Workers, DeferToHold(w) \/ DeferDependency(w)
    PROVE  LET r == claim[w].record IN
           /\ r \in Disposable /\ claim[w] # None /\ task[r] # None /\ Owns(w)
           /\ \/ claim[w].stage = "claimed" /\ ActiveHold(r)
              \/ claim[w].stage = "dependent"
           /\ OtherTasks(r) /\ Dropped(w)
           /\ task'[r] # None /\ task'[r].state = "queued" /\ task'[r].attempts = task[r].attempts - 1
           /\ UNCHANGED <<rows, files, holds, guard>>
<1> DEFINE r == claim[w].record
<1>1. /\ claim[w] # None /\ Owns(w)
      /\ \/ claim[w].stage = "claimed" /\ ActiveHold(r)
         \/ claim[w].stage = "dependent"
      /\ task' = [task EXCEPT ![r] = Requeued(r, task[r].attempts - 1)]
      /\ claim' = [claim EXCEPT ![w] = None]
      /\ UNCHANGED <<rows, files, holds, guard>>
    BY DEF DeferToHold, DeferDependency, At, Drop
<1>2. r \in Disposable /\ task[r] # None
    BY <1>1 DEF TypeOK, Claim, ClaimHasTask
<1>3. task[r].attempts - 1 \in Nat
    BY <1>1, <1>2 DEF TypeOK, LifecycleTask, LeaseCounts, Owns
<1>4. OtherTasks(r) /\ task'[r] # None /\ task'[r].state = "queued"
        /\ task'[r].attempts = task[r].attempts - 1
    BY <1>1, <1>2, <1>3, RequeueWrites
<1>5. Dropped(w)
    BY <1>1 DEF TypeOK, Dropped
<1> QED
    BY <1>1, <1>2, <1>4, <1>5

\* A failed attempt stays counted, whether the task is retried or given up.
LEMMA RetryWrites ==
    ASSUME TypeOK, ClaimHasTask, NEW w \in Workers, RetryOrDeadLetter(w)
    PROVE  LET r == claim[w].record IN
           /\ r \in Disposable /\ claim[w] # None /\ claim[w].stage = "failed"
           /\ task[r] # None /\ Owns(w)
           /\ OtherTasks(r) /\ Dropped(w)
           /\ task'[r] # None /\ task'[r].state \in {"queued", "dead_letter"}
           /\ task'[r].attempts = task[r].attempts
           /\ UNCHANGED <<rows, files, holds, guard>>
<1> DEFINE r == claim[w].record
           d == [task[r] EXCEPT !.state = "dead_letter", !.token = None, !.lapsed = FALSE]
<1>1. /\ claim[w] # None /\ claim[w].stage = "failed" /\ Owns(w)
      /\ claim' = [claim EXCEPT ![w] = None]
      /\ UNCHANGED <<rows, files, holds, guard>>
    BY DEF RetryOrDeadLetter, At, Drop
<1>2. r \in Disposable /\ task[r] # None
    BY <1>1 DEF TypeOK, Claim, ClaimHasTask
<1>3. task[r] \in LifecycleTask /\ task[r].attempts \in Nat
    BY <1>2 DEF TypeOK, LifecycleTask
<1>4. Dropped(w)
    BY <1>1 DEF TypeOK, Dropped
<1>5. CASE task[r].attempts >= MaxAttempts
  <2>1. task' = [task EXCEPT ![r] = d]
    BY <1>5 DEF RetryOrDeadLetter
  <2>2. d \in LifecycleTask
    BY <1>3, TaskWrites
  <2>3. d # None
    BY <2>2, RetentionAssumption DEF RetentionAssumption
  <2>4. d.state = "dead_letter" /\ d.attempts = task[r].attempts
    BY <1>3 DEF LifecycleTask
  <2>5. task'[r] = d /\ OtherTasks(r)
    BY <1>2, <2>1 DEF TypeOK, OtherTasks
  <2> QED
    BY <1>1, <1>2, <1>4, <2>3, <2>4, <2>5
<1>6. CASE ~(task[r].attempts >= MaxAttempts)
  <2>1. task' = [task EXCEPT ![r] = Requeued(r, task[r].attempts)]
    BY <1>6 DEF RetryOrDeadLetter
  <2>2. OtherTasks(r) /\ task'[r] # None /\ task'[r].state = "queued"
        /\ task'[r].attempts = task[r].attempts
    BY <1>2, <1>3, <2>1, RequeueWrites
  <2> QED
    BY <1>1, <1>2, <1>4, <2>2
<1> QED
    BY <1>5, <1>6

\* A disposal that commits completes its task with its row.
LEMMA CommitWrites ==
    ASSUME TypeOK, ClaimHasTask, NEW w \in Workers, CommitDisposal(w)
    PROVE  LET r == claim[w].record IN
           /\ r \in Disposable /\ At(w, "disposing")
           /\ OtherTasks(r) /\ Dropped(w)
           /\ task'[r] # None /\ task'[r].state = "completed"
           /\ rows' = rows \ {r} /\ guard' = None
           /\ UNCHANGED <<files, holds>>
<1> DEFINE r == claim[w].record
           d == [task[r] EXCEPT !.state = "completed", !.token = None, !.lapsed = FALSE]
<1>1. /\ At(w, "disposing") /\ rows' = rows \ {r} /\ guard' = None
      /\ task' = [task EXCEPT ![r] = d]
      /\ claim' = [claim EXCEPT ![w] = None]
      /\ UNCHANGED <<files, holds>>
    BY DEF CommitDisposal, Drop
<1>2. r \in Disposable /\ task[r] # None
    BY <1>1 DEF TypeOK, Claim, ClaimHasTask, At
<1>3. task[r] \in LifecycleTask
    BY <1>2 DEF TypeOK
<1>4. d \in LifecycleTask
    BY <1>3, 0 \in Nat, TaskWrites
<1>5. d # None
    BY <1>4, RetentionAssumption DEF RetentionAssumption
<1>6. d.state = "completed"
    BY <1>3 DEF LifecycleTask
<1>7. task'[r] = d /\ OtherTasks(r) /\ Dropped(w)
    BY <1>1, <1>2 DEF TypeOK, OtherTasks, Dropped
<1> QED
    BY <1>1, <1>2, <1>5, <1>6, <1>7

\* Every step keeps the inductive invariant.
LEMMA NextInductive == Inductive /\ [Next]_vars => Inductive'
<1> SUFFICES ASSUME Inductive, [Next]_vars PROVE Inductive'
    OBVIOUS
<1> DEFINE Rest == LeaseCounts /\ ClaimHasTask /\ DisposalIsGuarded /\ GoneIsCompleted
                    /\ HoldsExist /\ MissingIsCounted /\ HeldIsWhole
<1>0. TypeOK /\ Rest /\ TypeOK'
    BY NextTypeOK DEF Inductive
<1> USE RetentionAssumption
    DEF RetentionAssumption, TypeOK, LifecycleTask, Claim, LeaseCounts, ClaimHasTask,
        DisposalIsGuarded, GoneIsCompleted, HoldsExist, MissingIsCounted, HeldIsWhole,
        At, Owns, ActiveHold, HoldAncestors, HeldBy
<1>1. ASSUME NEW h \in Records, CreateRetentionHold(h) PROVE Rest'
    BY <1>0, <1>1 DEF CreateRetentionHold, HoldDescendants, Progressed
<1>2. ASSUME NEW h \in Records, ReleaseRetentionHold(h) PROVE Rest'
    BY <1>0, <1>2 DEF ReleaseRetentionHold
<1>3. ASSUME NEW r \in Disposable, Discover(r) PROVE Rest'
    BY <1>0, <1>3 DEF Discover, InsertTask, Candidate
<1>4. ASSUME NEW r \in Disposable, LeaseExpires(r) PROVE Rest'
  <2>1. LeaseCounts' /\ ClaimHasTask'
    BY <1>0, <1>4, LeaseExpiresWrites DEF OtherTasks
  <2>2. DisposalIsGuarded'
    BY <1>0, <1>4, LeaseExpiresWrites DEF OtherTasks
  <2>3. GoneIsCompleted' /\ HoldsExist' /\ HeldIsWhole'
    BY <1>0, <1>4, LeaseExpiresWrites DEF OtherTasks
  <2>4. MissingIsCounted'
    BY <1>0, <1>4, LeaseExpiresWrites DEF OtherTasks
  <2> QED
    BY <2>1, <2>2, <2>3, <2>4, Zenon
<1>5. ASSUME NEW r \in Disposable, NEW w \in Workers, ClaimOne(w, r) PROVE Rest'
  <2>1. LeaseCounts' /\ ClaimHasTask'
    BY <1>0, <1>5, ClaimOneWrites DEF OtherTasks
  <2>2. DisposalIsGuarded'
    BY <1>0, <1>5, ClaimOneWrites DEF OtherTasks
  <2>3. GoneIsCompleted' /\ HoldsExist' /\ HeldIsWhole'
    BY <1>0, <1>5, ClaimOneWrites DEF OtherTasks
  <2>4. MissingIsCounted'
    BY <1>0, <1>5, ClaimOneWrites DEF OtherTasks
  <2> QED
    BY <2>1, <2>2, <2>3, <2>4, Zenon
<1>6. ASSUME NEW w \in Workers, LostClaim(w) PROVE Rest'
    BY <1>0, <1>6 DEF LostClaim, Drop
<1>7. ASSUME NEW w \in Workers, DeferToHold(w) \/ DeferDependency(w) PROVE Rest'
  <2>1. LeaseCounts' /\ ClaimHasTask'
    BY <1>0, <1>7, DeferWrites DEF OtherTasks, Dropped
  <2>2. DisposalIsGuarded'
    BY <1>0, <1>7, DeferWrites DEF OtherTasks, Dropped
  <2>3. GoneIsCompleted' /\ HoldsExist' /\ HeldIsWhole'
    BY <1>0, <1>7, DeferWrites DEF OtherTasks, Dropped
  <2>4. MissingIsCounted'
    BY <1>0, <1>7, DeferWrites DEF OtherTasks, Dropped
  <2> QED
    BY <2>1, <2>2, <2>3, <2>4, Zenon
<1>8. ASSUME NEW w \in Workers, MeetDependency(w) PROVE Rest'
    BY <1>0, <1>8 DEF MeetDependency
<1>9. ASSUME NEW w \in Workers, DisposeResource(w) PROVE Rest'
    BY <1>0, <1>9 DEF DisposeResource
<1>10. ASSUME NEW w \in Workers, CommitDisposal(w) PROVE Rest'
  <2>1. LeaseCounts' /\ ClaimHasTask'
    BY <1>0, <1>10, CommitWrites DEF OtherTasks, Dropped
  <2>2. DisposalIsGuarded'
    BY <1>0, <1>10, CommitWrites DEF OtherTasks, Dropped
  <2>3. GoneIsCompleted' /\ HoldsExist' /\ HeldIsWhole'
    BY <1>0, <1>10, CommitWrites DEF OtherTasks, Dropped
  <2>4. MissingIsCounted'
    BY <1>0, <1>10, CommitWrites DEF OtherTasks, Dropped
  <2> QED
    BY <2>1, <2>2, <2>3, <2>4, Zenon
<1>11. ASSUME NEW w \in Workers, RetryOrDeadLetter(w) PROVE Rest'
  <2>1. LeaseCounts' /\ ClaimHasTask' /\ DisposalIsGuarded'
    BY <1>0, <1>11, RetryWrites DEF OtherTasks, Dropped
  <2>2. GoneIsCompleted' /\ HoldsExist' /\ HeldIsWhole'
    BY <1>0, <1>11, RetryWrites DEF OtherTasks, Dropped
  <2>3. MissingIsCounted'
    BY <1>0, <1>11, RetryWrites DEF OtherTasks, Dropped
  <2> QED
    BY <2>1, <2>2, <2>3, Zenon
<1>12. ASSUME NEW w \in Workers, DisposalFails(w) PROVE Rest'
  <2>1. LeaseCounts' /\ ClaimHasTask'
    BY <1>0, <1>12 DEF DisposalFails
  <2>2. DisposalIsGuarded'
    BY <1>0, <1>12 DEF DisposalFails
  <2>3. GoneIsCompleted' /\ HoldsExist' /\ HeldIsWhole'
    BY <1>0, <1>12 DEF DisposalFails
  <2>4. MissingIsCounted'
    BY <1>0, <1>12 DEF DisposalFails
  <2> QED
    BY <2>1, <2>2, <2>3, <2>4, Zenon
<1>13. ASSUME NEW w \in Workers, Crash(w) PROVE Rest'
    BY <1>0, <1>13 DEF Crash, Drop
<1>14. ASSUME UNCHANGED vars PROVE Rest'
  <2>1. LeaseCounts' /\ ClaimHasTask' /\ DisposalIsGuarded'
    BY <1>0, <1>14 DEF vars
  <2>2. GoneIsCompleted' /\ HoldsExist' /\ MissingIsCounted'
    BY <1>0, <1>14 DEF vars
  <2>3. HeldIsWhole'
    BY <1>0, <1>14 DEF vars
  <2> QED
    BY <2>1, <2>2, <2>3, Zenon
<1> QED
    BY <1>0, <1>1, <1>2, <1>3, <1>4, <1>5, <1>6, <1>7, <1>8, <1>9, <1>10, <1>11, <1>12, <1>13, <1>14
    DEF Next, WorkerStep, Inductive

-----------------------------------------------------------------------------
(* Theorems *)

\* The inductive invariant holds in every reachable state.
LEMMA InductiveHolds == Spec => []Inductive
    BY InitInductive, NextInductive, PTL DEF Spec

\* Every reachable state is well typed: in particular an attempt that is given
\* back never takes the count of a task below zero.
THEOREM TypeCorrect == Spec => []TypeOK
<1>1. Inductive => TypeOK
    BY DEF Inductive
<1> QED
    BY <1>1, InductiveHolds, PTL

\* For any tree of records and any number of workers, holds and faults, a
\* record under an accepted hold of create_retention_hold has its file.
THEOREM HeldWhole == Spec => []HeldIsWhole
<1>1. Inductive => HeldIsWhole
    BY DEF Inductive
<1> QED
    BY <1>1, InductiveHolds, PTL

\* No step of a worker removes a row or a file under a hold: the unlink looks
\* for the hold, and the commit is still under the guard that hold admission
\* takes.
LEMMA StepPreservesHeld == Inductive /\ [Next]_vars => [HeldSurvives]_vars
<1> SUFFICES ASSUME Inductive, [Next]_vars, NEW h \in holds, NEW r \in Records, HeldBy(h, r)
             PROVE  (r \in rows => r \in rows') /\ (r \in files => r \in files')
    BY DEF HeldSurvives
<1>1. ASSUME NEW w \in Workers, DisposeResource(w)
      PROVE  (r \in rows => r \in rows') /\ (r \in files => r \in files')
    BY <1>1 DEF DisposeResource, ActiveHold, HoldAncestors, HeldBy, Inductive, HoldsExist
<1>2. ASSUME NEW w \in Workers, CommitDisposal(w)
      PROVE  (r \in rows => r \in rows') /\ (r \in files => r \in files')
    BY <1>2 DEF CommitDisposal, DisposalIsGuarded, ActiveHold, HoldAncestors, HeldBy, Inductive, HoldsExist
<1>3. CASE ~\E w \in Workers : DisposeResource(w) \/ CommitDisposal(w)
  <2>1. UNCHANGED <<rows, files>>
    BY <1>3 DEF Next, vars, WorkerStep, CreateRetentionHold, ReleaseRetentionHold, Discover, InsertTask, LeaseExpires,
        ClaimOne, LostClaim, DeferToHold, MeetDependency, DeferDependency, RetryOrDeadLetter,
        DisposalFails, Crash
  <2> QED
    BY <2>1
<1> QED
    BY <1>1, <1>2, <1>3

\* For any tree of records, a row or a file under an accepted hold survives
\* every step of every worker of RetentionExecutor.
THEOREM HoldsPreserve == Spec => HoldPreserves
    BY StepPreservesHeld, InductiveHolds, PTL DEF Spec, HoldPreserves
=============================================================================
