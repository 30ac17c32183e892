------------------------- MODULE AccountErasureProofs -------------------------
(* Theorems about AccountErasure, for every value of its constants. *)
EXTENDS AccountErasure, TLAPS

USE DEF vars, itemVars, contentVars, providerVars, backupVars, workerVars

\* Before the confirmation there is no inventory.
Unplanned == life = "pending" => \A i \in Items : state[i] = "none"

\* A generation has an item only once it is registered.
BackupItemsFollow ==
    \A g \in Gens : gen[g] \in {"none", "captured"} => state[Item("backup", g)] = "none"

\* Only search and provider items are called out for.
RemoteIsRemote ==
    \A w \in Workers : pc[w] \in {"calling", "answered"} => ~Local(work[w])

\* A confirmed account has a current generation, and the current one is active.
CurrentIsActive ==
    /\ Confirmed => current # None
    /\ current # None => gen[current] = "active"

NotTerminal == life # "fully_erased"

Inductive ==
    /\ TypeOK /\ Unplanned /\ BackupItemsFollow /\ RemoteIsRemote
    /\ CurrentIsActive /\ ActiveGenerationsAreOwed /\ NotTerminal

\* An account with a pending request is well typed.
LEMMA InitTypeOK == Init => TypeOK
<1> SUFFICES ASSUME Init PROVE TypeOK
  OBVIOUS
<1>1. /\ liveErased \in BOOLEAN /\ verified \in BOOLEAN /\ cipher \in BOOLEAN
      /\ sessions \in BOOLEAN /\ user \in BOOLEAN
  BY Zenon DEF Init
<1>2. /\ state \in [Items -> ItemStates]
      /\ attempts \in [Items -> Nat]
      /\ owner \in [Items -> Workers \cup {None}]
      /\ heldBy \in [Items -> Resources \cup {None, "policy"}]
      /\ \A i \in Items : state[i] = "leased" <=> owner[i] # None
      /\ \A i \in Items : state[i] = "held" <=> heldBy[i] # None
  BY DEF Init, ItemStates
<1>3. /\ hold \in [Resources -> {"none", "active", "released"}]
      /\ rows \subseteq Resources /\ files \subseteq Vers /\ proven \subseteq Vers
      /\ tombstone \in [Docs -> {"none", "pending", "dead_letter"}]
  BY DEF Init, Resources
<1> QED
  BY <1>1, <1>2, <1>3, ConstantsAssumption DEF Init, TypeOK, LifeStates, PCs, Outcomes

\* The items are records of a phase and a resource.
LEMMA ItemTypes ==
    /\ \A d \in Docs : Item("unindex", d) \in Items
    /\ \A g \in Gens : Item("backup", g) \in Items
  BY DEF Items, LocalItems, ContentItems, UnindexItems, BackupItems

\* A hold that covers a resource is on a resource, and a held item can name it.
LEMMA HolderIsResource ==
    ASSUME NEW x, ActiveHolds(x) # {}
    PROVE  Holder(x) \in Resources /\ Holder(x) # None
  BY ConstantsAssumption DEF Holder, ActiveHolds, Resources

\* The inventory a confirmation plans is well typed: held items name a hold.
LEMMA ConfirmTypeOK == TypeOK /\ Unplanned /\ Confirm => TypeOK'
<1> SUFFICES ASSUME TypeOK, Unplanned, Confirm PROVE TypeOK'
  OBVIOUS
<1>1. \A i \in Items : Inventory(i) \in {"none", "queued", "completed", "held"}
  BY DEF Inventory, Planned
<1>2. \A i \in Items : Inventory(i) = "held" /\ i.phase # "detach" => ActiveHolds(i.res) # {}
  BY DEF Inventory, Planned
<1>3. state' \in [Items -> ItemStates] /\ \A i \in Items : state'[i] # "leased"
  BY <1>1 DEF Confirm, ItemStates
<1>4. \A i \in Items : owner[i] = None
  BY DEF Unplanned, TypeOK, Confirm
<1> QED
  BY <1>1, <1>2, <1>3, <1>4, HolderIsResource, ConstantsAssumption
  DEF Confirm, TypeOK, LifeStates, ItemStates

\* One step per action of a pass; each needs the fields it writes only.
LEMMA WorkerTypeOK ==
    ASSUME TypeOK, NEW w \in Workers, WorkerStep(w) \/ Crash(w)
    PROVE  TypeOK'
<1>1. CASE RequeueReleased(w)
  BY <1>1, ConstantsAssumption DEF RequeueReleased, TypeOK, Goto, RetentionHeld, PCs, ItemStates, Freed
<1>2. ASSUME NEW i \in Items, ClaimHeld(w, i) PROVE TypeOK'
  BY <1>2, HolderIsResource, ConstantsAssumption DEF ClaimHeld, MarkHeld, Settle, Due, Fault, TypeOK, Goto, PCs, ItemStates
<1>3. ASSUME NEW i \in Items, Claim(w, i) PROVE TypeOK'
  BY <1>3, ConstantsAssumption DEF Claim, Due, Fault, TypeOK, Goto, PCs, ItemStates, Outcomes
<1>4. CASE LostLease(w)
  BY <1>4 DEF LostLease, TypeOK, Goto, PCs, Outcomes
<1>5. CASE Process(w)
  <2>1. work[w] \in Items /\ w \in DOMAIN work
    BY <1>5 DEF Process, LeasedItem, TypeOK
  <2>2. CASE ActiveHolds(work[w].res) # {}
    BY <1>5, <2>1, <2>2, HolderIsResource
    DEF Process, LeasedItem, MarkHeld, Settle, TypeOK, Goto, PCs, ItemStates
  <2>3. CASE DeleteFile(w)
    BY <1>5, <2>1, <2>3 DEF Process, LeasedItem, DeleteFile, Complete, Settle, TypeOK, Goto, PCs, ItemStates, Outcomes, FileItems, Item
  <2>4. CASE DeleteRow(w)
    BY <1>5, <2>1, <2>4 DEF Process, LeasedItem, DeleteRow, Complete, Raise, Settle, TypeOK, Goto, PCs, ItemStates, Outcomes
  <2>5. CASE EraseCipher(w)
    <3>1. cipher' \in BOOLEAN
      BY <2>5, Zenon DEF EraseCipher, TypeOK
    <3>2. CASE verified
      BY <1>5, <2>1, <2>5, <3>1, <3>2 DEF Process, LeasedItem, EraseCipher, Complete, Settle, TypeOK, Goto, PCs, ItemStates, Outcomes
    <3>3. CASE ~verified
      BY <1>5, <2>1, <2>5, <3>1, <3>3 DEF Process, LeasedItem, EraseCipher, Raise, TypeOK, Goto, PCs, Outcomes
    <3> QED
      BY <3>2, <3>3
  <2>6. CASE Postcheck(w)
    BY <1>5, <2>1, <2>6 DEF Process, LeasedItem, Postcheck, Complete, Raise, Settle, TypeOK, Goto, PCs, ItemStates, Outcomes
  <2>7. CASE VerifyBackup(w)
    BY <1>5, <2>1, <2>7 DEF Process, LeasedItem, VerifyBackup, Complete, Raise, Settle, TypeOK, Goto, PCs, ItemStates, Outcomes
  <2>8. CASE ExecutionFails(w)
    BY <1>5, <2>1, <2>8, ConstantsAssumption DEF Process, ExecutionFails, Fault, Raise, TypeOK, Goto, PCs, Outcomes
  <2> QED
    BY <1>5, <2>2, <2>3, <2>4, <2>5, <2>6, <2>7, <2>8 DEF Process
<1>6. CASE BeginCall(w)
  BY <1>6 DEF BeginCall, TypeOK, Goto, PCs, Raise, Outcomes
<1>7. CASE Call(w)
  <2>1. sessions' \in BOOLEAN /\ user' \in BOOLEAN
    BY <1>7, Zenon DEF Call, TypeOK
  <2> QED
    BY <1>7, <2>1, ConstantsAssumption DEF Call, TypeOK, Goto, PCs, Outcomes, Fault
<1>8. CASE FinishCall(w)
  <2>1. verified' \in BOOLEAN
    BY <1>8, Zenon DEF FinishCall, TypeOK
  <2>2. CASE outcome[w] = "ok"
    BY <1>8, <2>1, <2>2 DEF FinishCall, TypeOK, Goto, PCs, Outcomes, Complete, Settle, LeasedItem, ItemStates
  <2>3. CASE outcome[w] # "ok"
    BY <1>8, <2>1, <2>3 DEF FinishCall, TypeOK, Goto, PCs, Outcomes, Raise
  <2> QED
    BY <2>2, <2>3
<1>9. CASE RecordFailure(w)
  BY <1>9 DEF RecordFailure, TypeOK, Goto, PCs, Outcomes, Settle, LeasedItem, ItemStates
<1>10. CASE Reconcile(w)
  BY <1>10 DEF Reconcile, ReconcileLifecycle, ReconciledLife, TypeOK, Goto, PCs, LifeStates
<1>11. CASE EndPass(w)
  BY <1>11 DEF EndPass, ReconcileLifecycle, ReconciledLife, TypeOK, Goto, PCs, LifeStates
<1>12. CASE Crash(w)
  BY <1>12, ConstantsAssumption DEF Crash, Fault, TypeOK, Goto, PCs, Outcomes
<1> QED
  BY <1>1, <1>2, <1>3, <1>4, <1>5, <1>6, <1>7, <1>8, <1>9, <1>10, <1>11, <1>12 DEF WorkerStep

\* Every step of workers, holds, tombstones and backups keeps the types.
LEMMA NextTypeOK == TypeOK /\ Unplanned /\ BackupItemsFollow /\ [Next]_vars => TypeOK'
<1> SUFFICES ASSUME TypeOK, Unplanned, BackupItemsFollow, [Next]_vars PROVE TypeOK'
  OBVIOUS
<1>1. CASE Confirm
  BY <1>1, ConfirmTypeOK
<1>2. ASSUME NEW x \in Resources, CreateHold(x) \/ ReleaseHold(x) PROVE TypeOK'
  BY <1>2 DEF CreateHold, ReleaseHold, TypeOK
<1>3. ASSUME NEW w \in Workers, WorkerStep(w) \/ Crash(w) PROVE TypeOK'
  BY <1>3, WorkerTypeOK
<1>4. ASSUME NEW d \in Docs, ConsumeTombstone(d) \/ TombstoneDies(d) \/ RetryTombstone(d)
      PROVE TypeOK'
  BY <1>4, ConstantsAssumption DEF ConsumeTombstone, TombstoneDies, RetryTombstone, Fault, TypeOK
<1>5. ASSUME NEW g \in Gens, CaptureBackup(g) PROVE TypeOK'
  BY <1>5 DEF CaptureBackup, TypeOK
<1>6. ASSUME NEW g \in Gens, RegisterBackup(g) PROVE TypeOK'
  BY <1>6, ItemTypes DEF RegisterBackup, TypeOK, ItemStates, BackupItemsFollow
<1>7. ASSUME NEW g \in Gens, RetireBackup(g) PROVE TypeOK'
  BY <1>7 DEF RetireBackup, TypeOK
<1>8. CASE UNCHANGED vars
  BY <1>8 DEF TypeOK
<1> QED
  BY <1>1, <1>2, <1>3, <1>4, <1>5, <1>6, <1>7, <1>8 DEF Next

\* What a worker may do to the backup items: it completes one only when its
\* generation is retired, and settles no other obligation.
LEMMA WorkerBackups ==
    ASSUME TypeOK, RemoteIsRemote, NEW w \in Workers, WorkerStep(w) \/ Crash(w)
    PROVE  /\ gen' = gen /\ current' = current
           /\ \A g \in Gens :
                /\ state'[Item("backup", g)] = "none" <=> state[Item("backup", g)] = "none"
                /\ gen[g] = "active" /\ state[Item("backup", g)] # "completed"
                    => state'[Item("backup", g)] # "completed"
                /\ gen[g] = "active" => obligation'[g] = obligation[g]
<1> DEFINE B(g) == Item("backup", g)
<1>0. \A g \in Gens : B(g) \in Items /\ B(g).phase = "backup" /\ B(g).res = g
  BY ItemTypes DEF Item
<1> HIDE DEF B
<1>1. CASE RequeueReleased(w)
  BY <1>0, <1>1 DEF RequeueReleased, TypeOK, RetentionHeld, B
<1>2. ASSUME NEW i \in Items, ClaimHeld(w, i) \/ Claim(w, i)
      PROVE  /\ gen' = gen /\ current' = current /\ obligation' = obligation
             /\ \A g \in Gens :
                /\ state'[B(g)] = "none" <=> state[B(g)] = "none"
                /\ state[B(g)] # "completed" => state'[B(g)] # "completed"
  BY <1>0, <1>2 DEF ClaimHeld, Claim, MarkHeld, Settle, Due, TypeOK
<1>3. CASE Process(w)
  <2>1. work[w] \in Items /\ state[work[w]] = "leased"
    BY <1>3 DEF Process, LeasedItem, TypeOK
  <2>2. CASE ActiveHolds(work[w].res) # {}
    BY <1>0, <1>3, <2>1, <2>2 DEF Process, MarkHeld, Settle, TypeOK, B
  <2>3. CASE DeleteFile(w)
    BY <1>0, <1>3, <2>1, <2>3 DEF Process, DeleteFile, Complete, Settle, TypeOK, FileItems, Item, B
  <2>4. CASE DeleteRow(w)
    BY <1>0, <1>3, <2>1, <2>4 DEF Process, DeleteRow, Complete, Settle, Raise, TypeOK, RowItems, Item, B
  <2>5. CASE EraseCipher(w)
    BY <1>0, <1>3, <2>1, <2>5 DEF Process, EraseCipher, Complete, Settle, Raise, TypeOK, Cipher, Item, B
  <2>6. CASE Postcheck(w)
    BY <1>0, <1>3, <2>1, <2>6 DEF Process, Postcheck, Complete, Settle, Raise, TypeOK, PostCheck, Item, B
  <2>7. CASE VerifyBackup(w)
    BY <1>0, <1>3, <2>1, <2>7 DEF Process, VerifyBackup, Complete, Settle, Raise, TypeOK, BackupItems, Item, B
  <2>8. CASE ExecutionFails(w)
    BY <1>0, <1>3, <2>1, <2>8 DEF Process, ExecutionFails, Raise, TypeOK, B
  <2> QED
    BY <1>3, <2>2, <2>3, <2>4, <2>5, <2>6, <2>7, <2>8 DEF Process
<1>4. CASE FinishCall(w)
  <2>1. work[w] \in Items /\ state[work[w]] = "leased" /\ work[w].phase # "backup"
    <3>1. pc[w] = "answered" /\ LeasedItem(w)
      BY <1>4, Zenon DEF FinishCall, At
    <3>2. ~Local(work[w])
      BY <3>1 DEF RemoteIsRemote
    <3>3. work[w] \in Items /\ state[work[w]] = "leased"
      BY <3>1 DEF LeasedItem, TypeOK
    <3> QED
      BY <3>2, <3>3, Zenon DEF Local
  <2>2. state' = state \/ state' = [state EXCEPT ![work[w]] = "completed"]
    BY <1>4 DEF FinishCall, Complete, Settle, Raise
  <2>3. gen' = gen /\ current' = current /\ obligation' = obligation
    BY <1>4 DEF FinishCall
  <2> QED
    BY <1>0, <2>1, <2>2, <2>3 DEF TypeOK, B
<1>5. CASE RecordFailure(w)
  BY <1>0, <1>5 DEF RecordFailure, LeasedItem, Settle, TypeOK, B
<1>6. CASE LostLease(w) \/ BeginCall(w) \/ Call(w) \/ Reconcile(w) \/ EndPass(w) \/ Crash(w)
  <2>1. state' = state /\ gen' = gen /\ current' = current /\ obligation' = obligation
    BY <1>6, Zenon DEF LostLease, BeginCall, Call, Reconcile, EndPass, Crash, Raise
  <2> QED
    BY <2>1
<1> QED
  BY <1>1, <1>2, <1>3, <1>4, <1>5, <1>6 DEF WorkerStep, B

\* A worker leaves a pending lifecycle pending, a confirmed one confirmed, and
\* finishes none: the current generation is always still owed.
LEMMA WorkerLife ==
    ASSUME Inductive, NEW w \in Workers, WorkerStep(w) \/ Crash(w)
    PROVE  (life' = "pending" <=> life = "pending") /\ life' # "fully_erased"
<1>1. life # "pending" => ~BackupsDone
  BY DEF Inductive, BackupsDone, CurrentIsActive, ActiveGenerationsAreOwed, Open, Confirmed,
         NotTerminal, TypeOK
<1>2. (life' = life \/ life' = ReconciledLife) /\ life # "fully_erased"
  BY Zenon DEF WorkerStep, RequeueReleased, ClaimHeld, Claim, LostLease, Process, BeginCall,
         Call, FinishCall, RecordFailure, Reconcile, EndPass, Crash, ReconcileLifecycle,
         Inductive, NotTerminal
<1>3. ReconciledLife = "pending" <=> life = "pending"
  BY DEF ReconciledLife
<1>4. ReconciledLife # "fully_erased"
  BY <1>1, <1>2 DEF ReconciledLife
<1> QED
  BY <1>2, <1>3, <1>4

\* No step of a worker disturbs the strengthened invariant.
LEMMA WorkerInductive ==
    ASSUME Inductive, NEW w \in Workers, WorkerStep(w) \/ Crash(w)
    PROVE  Inductive'
<1>1. TypeOK'
  BY WorkerTypeOK DEF Inductive
<1>2. (life' = "pending" <=> life = "pending") /\ life' # "fully_erased"
  BY WorkerLife
<1>3. RemoteIsRemote'
  <2>1. CASE BeginCall(w)
    BY <2>1 DEF BeginCall, At, Raise, Goto, RemoteIsRemote, Inductive, TypeOK
  <2>2. CASE Call(w)
    BY <2>2 DEF Call, At, Goto, RemoteIsRemote, Inductive, TypeOK
  <2>3. CASE RequeueReleased(w)
    BY <2>3 DEF RequeueReleased, Goto, RemoteIsRemote, Inductive, TypeOK
  <2>4. ASSUME NEW i \in Items, ClaimHeld(w, i) \/ Claim(w, i) PROVE RemoteIsRemote'
    BY <2>4 DEF ClaimHeld, Claim, Goto, RemoteIsRemote, Inductive, TypeOK
  <2>5. CASE LostLease(w) \/ Reconcile(w) \/ EndPass(w) \/ Crash(w) \/ RecordFailure(w)
    BY <2>5 DEF LostLease, Reconcile, EndPass, Crash, RecordFailure, Goto, RemoteIsRemote, Inductive, TypeOK
  <2>6. CASE Process(w)
    BY <2>6 DEF Process, DeleteFile, DeleteRow, EraseCipher, Postcheck, VerifyBackup,
                ExecutionFails, Complete, Raise, Goto, RemoteIsRemote, Inductive, TypeOK
  <2>7. CASE FinishCall(w)
    BY <2>7 DEF FinishCall, Complete, Raise, Goto, RemoteIsRemote, Inductive, TypeOK
  <2> QED
    BY <2>1, <2>2, <2>3, <2>4, <2>5, <2>6, <2>7 DEF WorkerStep
<1>4. Unplanned'
  <2> SUFFICES ASSUME life = "pending" PROVE \A i \in Items : state'[i] = "none"
    BY <1>2 DEF Unplanned
  <2>1. \A i \in Items : state[i] = "none"
    BY DEF Inductive, Unplanned
  <2>2. ~LeasedItem(w)
    BY <2>1 DEF LeasedItem, Inductive, TypeOK
  <2>3. \A i \in Items : ~Due(i)
    BY <2>1 DEF Due
  <2>4. state' = state
    BY <2>2, <2>3, Zenon DEF WorkerStep, RequeueReleased, Confirmed, ClaimHeld, Claim, LostLease, Process,
       BeginCall, Call, FinishCall, RecordFailure, Reconcile, EndPass, Crash
  <2> QED
    BY <2>1, <2>4
<1>5. BackupItemsFollow' /\ CurrentIsActive' /\ ActiveGenerationsAreOwed'
  <2>1. TypeOK /\ RemoteIsRemote
    BY DEF Inductive
  <2>2. /\ gen' = gen /\ current' = current
        /\ \A g \in Gens :
            /\ state'[Item("backup", g)] = "none" <=> state[Item("backup", g)] = "none"
            /\ gen[g] = "active" /\ state[Item("backup", g)] # "completed"
                => state'[Item("backup", g)] # "completed"
            /\ gen[g] = "active" => obligation'[g] = obligation[g]
    BY <2>1, WorkerBackups
  <2>3. BackupItemsFollow'
    BY <2>2 DEF Inductive, BackupItemsFollow
  <2>4. CurrentIsActive'
    BY <1>2, <2>2 DEF Inductive, CurrentIsActive, Confirmed
  <2>5. ActiveGenerationsAreOwed'
    BY <1>2, <2>2 DEF Inductive, ActiveGenerationsAreOwed, Open, Confirmed, NotTerminal
  <2> QED
    BY <2>3, <2>4, <2>5
<1> QED
  BY <1>1, <1>2, <1>3, <1>4, <1>5 DEF Inductive, NotTerminal

\* Before the confirmation nothing is planned, owed or current.
LEMMA InitInductive == Init => Inductive
<1> SUFFICES ASSUME Init PROVE Inductive
  OBVIOUS
<1>1. TypeOK
  BY InitTypeOK
<1>2. Unplanned /\ BackupItemsFollow
  BY ItemTypes DEF Init, Unplanned, BackupItemsFollow
<1>3. RemoteIsRemote /\ CurrentIsActive /\ ActiveGenerationsAreOwed /\ NotTerminal
  BY DEF Init, RemoteIsRemote, CurrentIsActive, ActiveGenerationsAreOwed, NotTerminal, Open, Confirmed
<1> QED
  BY <1>1, <1>2, <1>3 DEF Inductive

\* Every step keeps the strengthened invariant.
LEMMA NextInductive == Inductive /\ [Next]_vars => Inductive'
<1> SUFFICES ASSUME Inductive, [Next]_vars PROVE Inductive'
  OBVIOUS
<1>1. TypeOK'
  BY NextTypeOK DEF Inductive
<1>2. CASE Confirm
  <2>1. \A g \in Gens : Inventory(Item("backup", g)) = IF gen[g] = "active" THEN "queued" ELSE "none"
    BY DEF Inventory, BackupItems, OwedAtConfirm, Item
  <2>2. \A g \in Gens : state'[Item("backup", g)] = IF gen[g] = "active" THEN "queued" ELSE "none"
    BY <1>2, <2>1, ItemTypes DEF Confirm
  <2>3. Unplanned' /\ BackupItemsFollow' /\ RemoteIsRemote' /\ CurrentIsActive' /\ NotTerminal'
    BY <1>2, <2>2 DEF Confirm, Inductive, Unplanned, BackupItemsFollow, RemoteIsRemote,
       CurrentIsActive, NotTerminal, Confirmed
  <2>4. ActiveGenerationsAreOwed'
    BY <1>2, <2>2 DEF Confirm, ActiveGenerationsAreOwed, OwedAtConfirm
  <2> QED
    BY <1>1, <2>3, <2>4 DEF Inductive
<1>3. ASSUME NEW w \in Workers, WorkerStep(w) \/ Crash(w) PROVE Inductive'
  BY <1>3, WorkerInductive
<1>4. ASSUME NEW g \in Gens, RegisterBackup(g) PROVE Inductive'
  <2>1. \A h \in Gens : Item("backup", h) \in Items /\ (Item("backup", h) = Item("backup", g) => h = g)
    BY ItemTypes DEF Item
  <2>2. CASE Open
    BY <1>1, <1>4, <2>1, <2>2, ConstantsAssumption DEF RegisterBackup, Inductive, TypeOK, Unplanned, BackupItemsFollow,
       RemoteIsRemote, CurrentIsActive, ActiveGenerationsAreOwed, NotTerminal, Open, Confirmed
  <2>3. CASE ~Open
    BY <1>1, <1>4, <2>1, <2>3, ConstantsAssumption DEF RegisterBackup, Inductive, TypeOK, Unplanned, BackupItemsFollow,
       RemoteIsRemote, CurrentIsActive, ActiveGenerationsAreOwed, NotTerminal, Open, Confirmed
  <2> QED
    BY <2>2, <2>3
<1>5. ASSUME NEW g \in Gens, CaptureBackup(g) \/ RetireBackup(g) PROVE Inductive'
  BY <1>1, <1>5 DEF CaptureBackup, RetireBackup, Inductive, TypeOK, Unplanned, BackupItemsFollow,
     RemoteIsRemote, CurrentIsActive, ActiveGenerationsAreOwed, NotTerminal, Open, Confirmed
<1>6. CASE \/ \E x \in Resources : CreateHold(x) \/ ReleaseHold(x)
           \/ \E d \in Docs : ConsumeTombstone(d) \/ TombstoneDies(d) \/ RetryTombstone(d)
           \/ UNCHANGED vars
  <2>1. /\ life' = life /\ state' = state /\ gen' = gen /\ current' = current
        /\ obligation' = obligation /\ pc' = pc /\ work' = work
    BY <1>6, Zenon DEF CreateHold, ReleaseHold, ConsumeTombstone, TombstoneDies, RetryTombstone
  <2> QED
    BY <1>1, <2>1 DEF Inductive, Unplanned, BackupItemsFollow, RemoteIsRemote, CurrentIsActive,
       ActiveGenerationsAreOwed, NotTerminal, Open, Confirmed
<1> QED
  BY <1>2, <1>3, <1>4, <1>5, <1>6 DEF Next

\* The strengthened invariant holds in every reachable state.
THEOREM InductiveHolds == Spec => []Inductive
<1> QED
  BY InitInductive, NextInductive, PTL DEF Spec

\* Every reachable state of an erasure is well typed.
THEOREM TypeCorrect == Spec => []TypeOK
<1>1. Inductive => TypeOK
  BY DEF Inductive
<1> QED
  BY <1>1, InductiveHolds, PTL

\* An open erasure owes every active backup generation, in whatever order
\* capture, confirmation, registration and retirement happen.
THEOREM GenerationsOwed == Spec => []ActiveGenerationsAreOwed
<1>1. Inductive => ActiveGenerationsAreOwed
  BY DEF Inductive
<1> QED
  BY <1>1, InductiveHolds, PTL

\* No erasure is ever fully_erased: the current generation is owed, cannot be
\* retired while it is current, and its replacement is owed in its turn.
THEOREM NeverFullyErased == Spec => []NotTerminal
<1>1. Inductive => NotTerminal
  BY DEF Inductive
<1> QED
  BY <1>1, InductiveHolds, PTL

-----------------------------------------------------------------------------
(* The order of an erasure *)

\* A confirmed account has its whole inventory; before, it has all its content
\* and no worker has work.
WholeInventory ==
    /\ Confirmed => \A i \in LocalItems : state[i] # "none"
    /\ ~Confirmed => ~liveErased /\ rows = Resources /\ files = Vers /\ user
    /\ ~Confirmed => \A w \in Workers : work[w] \notin Items

\* What was complete when the item could be claimed stays complete.
Earned(i) ==
    /\ i \in LocalItems \ {Session} => state[Session] = "completed"
    /\ i = Cipher => verified
    /\ \A v \in Vers : i = Item("delete_row", v) => state[Item("delete_file", v)] = "completed"
    /\ \A d \in Docs : i = Item("delete_row", d) =>
        \A v \in Vers : state[Item("delete_row", v)] = "completed"

WorkIsEarned == \A w \in Workers : work[w] \in Items => Earned(work[w])

\* A provider that has answered, or whose answer is recorded, has acted.
ProviderActed ==
    /\ \A w \in Workers : pc[w] = "answered" /\ outcome[w] = "ok" =>
        (work[w] = Session => ~sessions) /\ (work[w] = User => ~user)
    /\ state[Session] = "completed" => ~sessions
    /\ state[User] = "completed" \/ verified => ~user

\* What is recorded as destroyed is gone.
DestroyedIsGone ==
    /\ \A x \in Resources : state[Item("delete_row", x)] = "completed" => x \notin rows
    /\ \A v \in Vers : state[Item("delete_file", v)] = "completed" => v \notin files

Orderly ==
    /\ WholeInventory /\ WorkIsEarned /\ ProviderActed /\ DestroyedIsGone
    /\ ErasureOrder /\ LiveErasedIsClean

\* The items a theorem names are items, and distinct ones.
LEMMA ItemNames ==
    /\ {Session, User, Cipher, PostCheck} \subseteq LocalItems
    /\ \A x \in Resources : Item("delete_row", x) \in LocalItems /\ Item("delete_row", x) # Cipher
    /\ \A v \in Vers : Item("delete_file", v) \in LocalItems
    /\ LocalItems \subseteq Items
    /\ \A i \in LocalItems : i.phase # "backup" /\ i \notin BackupItems
    /\ Vers \subseteq Resources /\ Docs \subseteq Resources /\ Asks \subseteq Resources
<1>1. {Session, User, Cipher, PostCheck} \subseteq LocalItems /\ LocalItems \subseteq Items
  BY DEF LocalItems, Items
<1>2. Vers \subseteq Resources /\ Docs \subseteq Resources /\ Asks \subseteq Resources
  BY DEF Resources
<1>3. \A x \in Resources : Item("delete_row", x) \in LocalItems
  BY DEF LocalItems, ContentItems, RowItems
<1>4. \A v \in Vers : Item("delete_file", v) \in LocalItems
  BY DEF LocalItems, ContentItems, FileItems
<1>5. \A x \in Resources : Item("delete_row", x) # Cipher
  BY NamesAssumption DEF Cipher, Item, NamesAssumption
<1>6. \A i \in LocalItems : i.phase # "backup"
  BY DEF LocalItems, ContentItems, RowItems, FileItems, UnindexItems, DetachItems, Session, User,
     Cipher, PostCheck, Item
<1>7. \A i \in BackupItems : i.phase = "backup"
  BY DEF BackupItems, Item
<1> QED
  BY <1>1, <1>2, <1>3, <1>4, <1>5, <1>6, <1>7

-----------------------------------------------------------------------------
(* What a step does to a local item *)

\* A local item keeps its state, moves while it is open, is planned, or is
\* completed by the worker that holds its lease.
ItemLook ==
    \A i \in LocalItems :
        \/ state'[i] = state[i]
        \/ state[i] \notin {"none", "completed"} /\ state'[i] \notin {"none", "completed"}
        \/ \E w \in Workers : /\ Process(w) \/ FinishCall(w)
                              /\ work[w] = i /\ LeasedItem(w) /\ state'[i] = "completed"
        \/ Confirm

LEMMA NextItemLook ==
    ASSUME TypeOK, [Next]_vars
    PROVE  ItemLook
<1>0. LocalItems \subseteq Items
  BY ItemNames
<1>1. ASSUME state' = state PROVE ItemLook
  BY <1>1 DEF ItemLook
<1>2. ASSUME NEW i \in Items, NEW s \in {"queued", "leased", "held", "dead_letter"},
             state[i] \notin {"none", "completed"}, state' = [state EXCEPT ![i] = s]
      PROVE  ItemLook
  BY <1>0, <1>2 DEF ItemLook, TypeOK
<1>3. ASSUME NEW w \in Workers, RequeueReleased(w) PROVE ItemLook
  <2>1. \A i \in Items : state'[i] # state[i] => state[i] = "held" /\ state'[i] \in {"queued", "dead_letter"}
    BY <1>3 DEF RequeueReleased, RetentionHeld
  <2> QED
    BY <1>0, <2>1 DEF ItemLook
<1>4. ASSUME NEW w \in Workers, NEW i \in Items, ClaimHeld(w, i) \/ Claim(w, i) PROVE ItemLook
  <2>1. state[i] \in {"queued", "leased"}
    BY <1>4 DEF ClaimHeld, Claim, Due
  <2>2. state' = [state EXCEPT ![i] = "held"] \/ state' = [state EXCEPT ![i] = "leased"]
    BY <1>4 DEF ClaimHeld, Claim, MarkHeld, Settle
  <2> QED
    BY <1>2, <2>1, <2>2
<1>5. ASSUME NEW w \in Workers, Process(w) \/ FinishCall(w) PROVE ItemLook
  <2>1. LeasedItem(w) /\ work[w] \in Items /\ state[work[w]] = "leased"
    BY <1>5 DEF Process, FinishCall, LeasedItem, TypeOK
  <2>2. \/ state' = state \/ state' = [state EXCEPT ![work[w]] = "held"]
        \/ state' = [state EXCEPT ![work[w]] = "completed"]
    BY <1>5, Zenon DEF Process, FinishCall, MarkHeld, DeleteFile, DeleteRow, EraseCipher, Postcheck, VerifyBackup,
       ExecutionFails, Complete, Raise, Settle
  <2>3. CASE state' = [state EXCEPT ![work[w]] = "completed"]
    BY <1>0, <1>5, <2>1, <2>3 DEF ItemLook, TypeOK
  <2>4. CASE state' = [state EXCEPT ![work[w]] = "held"]
    BY <1>2, <2>1, <2>4
  <2> QED
    BY <1>1, <2>2, <2>3, <2>4
<1>6. ASSUME NEW w \in Workers, RecordFailure(w) PROVE ItemLook
  <2>1. work[w] \in Items /\ state[work[w]] = "leased"
    BY <1>6 DEF RecordFailure, LeasedItem, TypeOK
  <2>2. \/ state' = [state EXCEPT ![work[w]] = "queued"]
        \/ state' = [state EXCEPT ![work[w]] = "dead_letter"]
    BY <1>6 DEF RecordFailure, Settle
  <2> QED
    BY <1>2, <2>1, <2>2
<1>7. ASSUME NEW w \in Workers, LostLease(w) \/ BeginCall(w) \/ Call(w) \/ Reconcile(w) \/ EndPass(w) \/ Crash(w)
      PROVE  ItemLook
  <2>1. state' = state
    BY <1>7, Zenon DEF LostLease, BeginCall, Call, Reconcile, EndPass, Crash, Raise
  <2> QED
    BY <1>1, <2>1
<1>8. ASSUME Confirm PROVE ItemLook
  BY <1>8 DEF ItemLook
<1>9. ASSUME NEW g \in Gens, RegisterBackup(g) PROVE ItemLook
  <2>1. Item("backup", g) \in Items /\ Item("backup", g).phase = "backup"
    BY ItemTypes DEF Item
  <2>2. \A i \in LocalItems : i # Item("backup", g)
    BY <2>1, ItemNames
  <2>3. state' = state \/ state' = [state EXCEPT ![Item("backup", g)] = "queued"]
    BY <1>9 DEF RegisterBackup
  <2> QED
    BY <1>0, <2>2, <2>3 DEF ItemLook, TypeOK
<1>10. ASSUME \/ \E x \in Resources : CreateHold(x) \/ ReleaseHold(x)
              \/ \E d \in Docs : ConsumeTombstone(d) \/ TombstoneDies(d) \/ RetryTombstone(d)
              \/ \E g \in Gens : CaptureBackup(g) \/ RetireBackup(g)
              \/ UNCHANGED vars
       PROVE  ItemLook
  <2>1. state' = state
    BY <1>10, Zenon DEF CreateHold, ReleaseHold, ConsumeTombstone, TombstoneDies, RetryTombstone,
       CaptureBackup, RetireBackup
  <2> QED
    BY <1>1, <2>1
<1> QED
  BY <1>3, <1>4, <1>5, <1>6, <1>7, <1>8, <1>9, <1>10 DEF Next, WorkerStep

-----------------------------------------------------------------------------
(* What a step destroys *)

\* Rows and files only go: at the confirmation a contact request that nobody
\* holds; after it the claimed resource, when no hold covers it.
ContentLook ==
    \/ /\ UNCHANGED <<rows, files>>
       /\ \A d \in Docs : tombstone'[d] # "none" => tombstone[d] # "none"
    \/ Confirm
    \/ \E w \in Workers, x \in Docs \cup Vers :
        /\ Process(w) /\ DeleteRow(w)
        /\ work[w] = Item("delete_row", x) /\ ActiveHolds(x) = {}
        /\ rows' = rows \ {x} /\ UNCHANGED files
        /\ \A d \in Docs : tombstone'[d] # "none" => tombstone[d] # "none" \/ d \in rows
    \/ \E w \in Workers, v \in Vers :
        /\ Process(w) /\ work[w] = Item("delete_file", v) /\ ActiveHolds(v) = {}
        /\ (DeleteFile(w) /\ v \notin rows) \/ files' = files \ {v}
        /\ files' \in {files, files \ {v}} /\ UNCHANGED <<rows, tombstone>>

LEMMA NextContentLook ==
    ASSUME TypeOK, [Next]_vars
    PROVE  ContentLook
<1>1. ASSUME UNCHANGED <<rows, files, tombstone>> PROVE ContentLook
  BY <1>1 DEF ContentLook
<1>2. ASSUME NEW w \in Workers, Process(w) PROVE ContentLook
  <2>1. work[w] \in Items
    BY <1>2 DEF Process, LeasedItem, TypeOK
  <2>2. CASE UNCHANGED <<rows, files, tombstone>>
    BY <1>1, <2>2
  <2>3. ASSUME ActiveHolds(work[w].res) = {}, DeleteFile(w) PROVE ContentLook
    <3>1. PICK v \in Vers : work[w] = Item("delete_file", v) /\ work[w].res = v
      BY <2>3 DEF DeleteFile, FileItems, Item
    <3>2. files' = (IF v \in rows THEN files \ {v} ELSE files) /\ UNCHANGED <<rows, tombstone>>
      BY <2>3, <3>1 DEF DeleteFile
    <3> QED
      BY <1>2, <2>3, <3>1, <3>2 DEF ContentLook
  <2>4. ASSUME ActiveHolds(work[w].res) = {}, DeleteRow(w), work[w].res \notin Asks PROVE ContentLook
    <3>1. PICK x \in Resources : work[w] = Item("delete_row", x) /\ work[w].res = x
      BY <2>4 DEF DeleteRow, RowItems, Item
    <3>2. /\ rows' = rows \ {x} /\ UNCHANGED files
          /\ tombstone' = IF x \in Docs \cap rows THEN [tombstone EXCEPT ![x] = "pending"] ELSE tombstone
      BY <2>4, <3>1 DEF DeleteRow
    <3>3. \A d \in Docs : tombstone'[d] # "none" => tombstone[d] # "none" \/ d \in rows
      BY <3>2 DEF TypeOK
    <3>4. x \in Docs \cup Vers
      BY <2>4, <3>1 DEF Resources
    <3> QED
      BY <1>2, <2>4, <3>1, <3>2, <3>3, <3>4 DEF ContentLook
  <2>5. ASSUME ActiveHolds(work[w].res) = {}, ExecutionFails(w), files' # files PROVE ContentLook
    <3>1. work[w] \in FileItems /\ files' = files \ {work[w].res} /\ UNCHANGED <<rows, tombstone>>
      BY <2>5 DEF ExecutionFails
    <3>2. PICK v \in Vers : work[w] = Item("delete_file", v) /\ work[w].res = v
      BY <3>1 DEF FileItems, Item
    <3> QED
      BY <1>2, <2>5, <3>1, <3>2 DEF ContentLook
  <2>6. CASE ~UNCHANGED <<rows, files, tombstone>>
    <3>1. /\ ActiveHolds(work[w].res) = {}
          /\ \/ DeleteFile(w) \/ DeleteRow(w) \/ EraseCipher(w) \/ Postcheck(w)
             \/ VerifyBackup(w) \/ ExecutionFails(w)
      BY <1>2, <2>6 DEF Process
    <3>2. ~EraseCipher(w) /\ ~Postcheck(w) /\ ~VerifyBackup(w)
      BY <2>6 DEF EraseCipher, Postcheck, VerifyBackup
    <3>3. DeleteRow(w) => work[w].res \notin Asks
      BY <2>6 DEF DeleteRow
    <3>4. ExecutionFails(w) => files' # files
      BY <2>6 DEF ExecutionFails
    <3> QED
      BY <2>3, <2>4, <2>5, <3>1, <3>2, <3>3, <3>4
  <2> QED
    BY <2>2, <2>6
<1>3. ASSUME Confirm PROVE ContentLook
  BY <1>3 DEF ContentLook
<1>4. ASSUME NEW w \in Workers,
             RequeueReleased(w) \/ (\E i \in Items : ClaimHeld(w, i) \/ Claim(w, i)) \/ LostLease(w)
             \/ BeginCall(w) \/ Call(w) \/ FinishCall(w) \/ RecordFailure(w) \/ Reconcile(w) \/ EndPass(w)
             \/ Crash(w)
      PROVE  ContentLook
  <2>1. UNCHANGED <<rows, files, tombstone>>
    BY <1>4, Zenon DEF RequeueReleased, ClaimHeld, Claim, LostLease, BeginCall, Call, FinishCall, RecordFailure,
       Reconcile, EndPass, Crash
  <2> QED
    BY <1>1, <2>1
<1>5. ASSUME NEW d \in Docs, ConsumeTombstone(d) \/ TombstoneDies(d) \/ RetryTombstone(d) PROVE ContentLook
  <2>1. UNCHANGED <<rows, files>> /\ \A e \in Docs : tombstone'[e] # "none" => tombstone[e] # "none"
    BY <1>5 DEF ConsumeTombstone, TombstoneDies, RetryTombstone, TypeOK
  <2> QED
    BY <2>1 DEF ContentLook
<1>6. ASSUME \/ \E x \in Resources : CreateHold(x) \/ ReleaseHold(x)
             \/ \E g \in Gens : CaptureBackup(g) \/ RegisterBackup(g) \/ RetireBackup(g)
             \/ UNCHANGED vars
      PROVE  ContentLook
  <2>1. UNCHANGED <<rows, files, tombstone>>
    BY <1>6, Zenon DEF CreateHold, ReleaseHold, CaptureBackup, RegisterBackup, RetireBackup
  <2> QED
    BY <1>1, <2>1
<1> QED
  BY <1>2, <1>3, <1>4, <1>5, <1>6 DEF Next, WorkerStep

-----------------------------------------------------------------------------
(* What a step does to the workers, the provider and the lifecycle *)

\* A worker gets its work by a claim, and a good answer by a call that acted.
WorkLook ==
    \A w \in Workers :
        /\ work'[w] \in Items =>
            work'[w] = work[w] \/ \E i \in Items : Claim(w, i) /\ work'[w] = i
        /\ pc'[w] = "answered" /\ outcome'[w] = "ok" =>
            /\ work'[w] = work[w]
            /\ \/ pc[w] = "answered" /\ outcome[w] = "ok"
               \/ (work[w] = Session => ~sessions') /\ (work[w] = User => ~user')

LEMMA NextWorkLook ==
    ASSUME TypeOK, [Next]_vars
    PROVE  WorkLook
<1>1. ASSUME UNCHANGED workerVars PROVE WorkLook
  BY <1>1 DEF WorkLook
<1>2. ASSUME NEW w \in Workers, NEW q, q # "answered",
             pc' = [pc EXCEPT ![w] = q],
             work' = work \/ work' = [work EXCEPT ![w] = None],
             \A x \in Workers \ {w} : outcome'[x] = outcome[x]
      PROVE  WorkLook
  <2>1. \A x \in Workers \ {w} : pc'[x] = pc[x] /\ work'[x] = work[x] /\ outcome'[x] = outcome[x]
    BY <1>2 DEF TypeOK
  <2>2. pc'[w] # "answered" /\ work'[w] \in {work[w], None}
    BY <1>2 DEF TypeOK
  <2> QED
    BY <2>1, <2>2, NamesAssumption DEF WorkLook, NamesAssumption
<1>3. ASSUME NEW w \in Workers, NEW i \in Items, Claim(w, i) PROVE WorkLook
  <2>1. /\ work'[w] = i /\ pc'[w] = "claimed"
        /\ \A x \in Workers \ {w} : pc'[x] = pc[x] /\ work'[x] = work[x] /\ outcome'[x] = outcome[x]
    BY <1>3 DEF Claim, Goto, TypeOK
  <2> QED
    BY <1>3, <2>1 DEF WorkLook
<1>4. ASSUME NEW w \in Workers, Call(w) PROVE WorkLook
  <2>1. /\ work' = work
        /\ \A x \in Workers \ {w} : pc'[x] = pc[x] /\ outcome'[x] = outcome[x]
    BY <1>4 DEF Call, Goto, TypeOK
  <2>2. outcome'[w] = "ok" => sessions' = (sessions /\ work[w] # Session) /\ user' = (user /\ work[w] # User)
    BY <1>4 DEF Call, TypeOK
  <2>3. outcome'[w] = "ok" => (work[w] = Session => ~sessions') /\ (work[w] = User => ~user')
    BY <2>2, Zenon
  <2> QED
    BY <2>1, <2>3 DEF WorkLook
<1>5. ASSUME NEW w \in Workers, \/ RequeueReleased(w) \/ (\E i \in Items : ClaimHeld(w, i)) \/ LostLease(w)
                                \/ BeginCall(w) \/ RecordFailure(w) \/ Reconcile(w) \/ EndPass(w) \/ Crash(w)
      PROVE  WorkLook
  <2>1. \A x \in Workers \ {w} : outcome'[x] = outcome[x]
    BY <1>5 DEF RequeueReleased, ClaimHeld, LostLease, BeginCall, RecordFailure, Reconcile, EndPass, Crash, Raise,
       TypeOK
  <2>2. work' = work \/ work' = [work EXCEPT ![w] = None]
    BY <1>5 DEF RequeueReleased, ClaimHeld, LostLease, BeginCall, RecordFailure, Reconcile, EndPass, Crash, Raise
  <2>3. \E q \in {"pass", "reconcile", "idle", "failed", "calling"} : pc' = [pc EXCEPT ![w] = q]
    BY <1>5 DEF RequeueReleased, ClaimHeld, LostLease, BeginCall, RecordFailure, Reconcile, EndPass, Crash, Raise,
       Goto
  <2> QED
    BY <1>2, <2>1, <2>2, <2>3
<1>6. ASSUME NEW w \in Workers, Process(w) \/ FinishCall(w) PROVE WorkLook
  <2>1. \/ /\ Goto(w, "pass") /\ work' = [work EXCEPT ![w] = None] /\ UNCHANGED outcome
        \/ Complete(w) \/ \E what \in {"permanent", "retryable", "backup_expiry_pending", outcome[w]} : Raise(w, what)
    BY <1>6, Zenon DEF Process, FinishCall, DeleteFile, DeleteRow, EraseCipher, Postcheck, VerifyBackup, ExecutionFails
  <2>2. \A x \in Workers \ {w} : outcome'[x] = outcome[x]
    BY <2>1 DEF Complete, Raise, TypeOK
  <2>3. work' = work \/ work' = [work EXCEPT ![w] = None]
    BY <2>1 DEF Complete, Raise
  <2>4. \E q \in {"pass", "reconcile", "failed"} : pc' = [pc EXCEPT ![w] = q]
    BY <2>1 DEF Complete, Raise, Goto
  <2> QED
    BY <1>2, <2>2, <2>3, <2>4
<1>7. ASSUME \/ Confirm
             \/ \E x \in Resources : CreateHold(x) \/ ReleaseHold(x)
             \/ \E d \in Docs : ConsumeTombstone(d) \/ TombstoneDies(d) \/ RetryTombstone(d)
             \/ \E g \in Gens : CaptureBackup(g) \/ RegisterBackup(g) \/ RetireBackup(g)
             \/ UNCHANGED vars
      PROVE  WorkLook
  <2>1. UNCHANGED workerVars
    BY <1>7, Zenon DEF Confirm, CreateHold, ReleaseHold, ConsumeTombstone, TombstoneDies, RetryTombstone,
       CaptureBackup, RegisterBackup, RetireBackup
  <2> QED
    BY <1>1, <2>1
<1> QED
  BY <1>3, <1>4, <1>5, <1>6, <1>7 DEF Next, WorkerStep

\* Sessions, user and ciphertext go, each by the worker that has the item, and
\* nothing but the confirmation keeps a ciphertext.
ProviderLook ==
    /\ sessions' => sessions
    /\ user' => user
    /\ verified => verified'
    /\ user /\ ~user' => \E w \in Workers : work[w] = User
    /\ verified' /\ ~verified =>
        \E w \in Workers : pc[w] = "answered" /\ outcome[w] = "ok" /\ work[w] = User
    /\ cipher /\ ~cipher' => verified /\ \E w \in Workers : work[w] = Cipher
    /\ cipher' /\ ~cipher => Confirm

LEMMA NextProviderLook ==
    ASSUME TypeOK, [Next]_vars
    PROVE  ProviderLook
<1>1. ASSUME UNCHANGED providerVars PROVE ProviderLook
  BY <1>1, Zenon DEF ProviderLook
<1>2. ASSUME Confirm PROVE ProviderLook
  BY <1>2, Zenon DEF Confirm, ProviderLook
<1>3. ASSUME NEW w \in Workers, Process(w) PROVE ProviderLook
  <2>1. CASE UNCHANGED cipher
    <3>1. UNCHANGED providerVars
      BY <1>3, <2>1, Zenon DEF Process, DeleteFile, DeleteRow, EraseCipher, Postcheck, VerifyBackup, ExecutionFails
    <3> QED
      BY <1>1, <3>1
  <2>2. CASE cipher' # cipher
    <3>1. EraseCipher(w)
      BY <1>3, <2>2, Zenon DEF Process, DeleteFile, DeleteRow, Postcheck, VerifyBackup, ExecutionFails
    <3>2. work[w] = Cipher /\ verified /\ cipher' = FALSE /\ UNCHANGED <<verified, sessions, user>>
      BY <1>3, <2>2, <3>1, Zenon DEF EraseCipher, Process
    <3> QED
      BY <3>2, Zenon DEF ProviderLook
  <2> QED
    BY <2>1, <2>2
<1>4. ASSUME NEW w \in Workers, Call(w) PROVE ProviderLook
  <2>1. UNCHANGED <<verified, cipher>>
    BY <1>4, Zenon DEF Call
  <2>2. sessions' \in {sessions, sessions /\ work[w] # Session} /\ user' \in {user, user /\ work[w] # User}
    BY <1>4, Zenon DEF Call
  <2>3. sessions \in BOOLEAN /\ user \in BOOLEAN
    BY DEF TypeOK
  <2> QED
    BY <2>1, <2>2, <2>3, Zenon DEF ProviderLook
<1>5. ASSUME NEW w \in Workers, FinishCall(w) PROVE ProviderLook
  <2>1. UNCHANGED <<cipher, sessions, user>> /\ pc[w] = "answered"
    BY <1>5, Zenon DEF FinishCall, At
  <2>2. \/ verified' = verified
        \/ outcome[w] = "ok" /\ verified' = (verified \/ work[w] = User)
    BY <1>5, Zenon DEF FinishCall
  <2>3. CASE verified' = verified
    BY <1>1, <2>1, <2>3
  <2>4. CASE outcome[w] = "ok" /\ verified' = (verified \/ work[w] = User)
    <3>1. verified' <=> verified \/ work[w] = User
      BY <2>4, Zenon
    <3>2. sessions' = sessions /\ user' = user /\ cipher' = cipher
      BY <2>1
    <3>3. verified' /\ ~verified =>
            \E x \in Workers : pc[x] = "answered" /\ outcome[x] = "ok" /\ work[x] = User
      BY <2>1, <2>4, <3>1
    <3>4. verified => verified'
      BY <3>1
    <3> QED
      BY <3>2, <3>3, <3>4 DEF ProviderLook
  <2> QED
    BY <2>2, <2>3, <2>4
<1>6. ASSUME NEW w \in Workers, \/ RequeueReleased(w) \/ (\E i \in Items : ClaimHeld(w, i) \/ Claim(w, i)) \/ LostLease(w)
                                \/ BeginCall(w) \/ RecordFailure(w) \/ Reconcile(w) \/ EndPass(w) \/ Crash(w)
      PROVE  ProviderLook
  <2>1. UNCHANGED providerVars
    BY <1>6, Zenon DEF RequeueReleased, ClaimHeld, Claim, LostLease, BeginCall, RecordFailure, Reconcile, EndPass, Crash
  <2> QED
    BY <1>1, <2>1
<1>7. ASSUME \/ \E x \in Resources : CreateHold(x) \/ ReleaseHold(x)
             \/ \E d \in Docs : ConsumeTombstone(d) \/ TombstoneDies(d) \/ RetryTombstone(d)
             \/ \E g \in Gens : CaptureBackup(g) \/ RegisterBackup(g) \/ RetireBackup(g)
             \/ UNCHANGED vars
      PROVE  ProviderLook
  <2>1. UNCHANGED providerVars
    BY <1>7, Zenon DEF CreateHold, ReleaseHold, ConsumeTombstone, TombstoneDies, RetryTombstone,
       CaptureBackup, RegisterBackup, RetireBackup
  <2> QED
    BY <1>1, <2>1
<1> QED
  BY <1>2, <1>3, <1>4, <1>5, <1>6, <1>7 DEF Next, WorkerStep

\* The lifecycle is confirmed once, and live_erased_at is set by a
\* reconciliation that changes nothing else of the account.
Reconciled ==
    /\ ReconciledLife \in {"backup_expiry_pending", "fully_erased"}
    /\ UNCHANGED <<rows, files, tombstone, providerVars>>

LifeLook ==
    /\ Confirm \/ (life' = "pending" <=> life = "pending")
    /\ liveErased' => liveErased \/ Reconciled

LEMMA NextLifeLook ==
    ASSUME Inductive, [Next]_vars
    PROVE  LifeLook
<1>1. ASSUME UNCHANGED liveErased, UNCHANGED life \/ Confirm PROVE LifeLook
  BY <1>1, Zenon DEF LifeLook
<1>2. ASSUME NEW w \in Workers, Reconcile(w) \/ EndPass(w) PROVE LifeLook
  <2>1. life' = "pending" <=> life = "pending"
    BY <1>2, WorkerLife DEF WorkerStep
  <2>2. /\ liveErased' = (liveErased \/ ReconciledLife \in {"backup_expiry_pending", "fully_erased"})
        /\ UNCHANGED <<rows, files, tombstone, providerVars>>
    BY <1>2, Zenon DEF Reconcile, EndPass, ReconcileLifecycle
  <2> QED
    BY <2>1, <2>2, Zenon DEF LifeLook, Reconciled
<1>3. ASSUME NEW w \in Workers, \/ RequeueReleased(w) \/ (\E i \in Items : ClaimHeld(w, i) \/ Claim(w, i)) \/ LostLease(w)
                                \/ Process(w) \/ BeginCall(w) \/ Call(w) \/ FinishCall(w) \/ RecordFailure(w) \/ Crash(w)
      PROVE  LifeLook
  <2>1. UNCHANGED <<life, liveErased>>
    BY <1>3, Zenon DEF RequeueReleased, ClaimHeld, Claim, LostLease, Process, BeginCall, Call, FinishCall,
       RecordFailure, Crash
  <2> QED
    BY <1>1, <2>1
<1>4. ASSUME \/ Confirm
             \/ \E x \in Resources : CreateHold(x) \/ ReleaseHold(x)
             \/ \E d \in Docs : ConsumeTombstone(d) \/ TombstoneDies(d) \/ RetryTombstone(d)
             \/ \E g \in Gens : CaptureBackup(g) \/ RegisterBackup(g) \/ RetireBackup(g)
             \/ UNCHANGED vars
      PROVE  LifeLook
  <2>1. UNCHANGED liveErased /\ (UNCHANGED life \/ Confirm)
    BY <1>4, Zenon DEF Confirm, CreateHold, ReleaseHold, ConsumeTombstone, TombstoneDies, RetryTombstone,
       CaptureBackup, RegisterBackup, RetireBackup
  <2> QED
    BY <1>1, <2>1
<1> QED
  BY <1>2, <1>3, <1>4 DEF Next, WorkerStep

-----------------------------------------------------------------------------
(* The order is kept *)

\* Completing an item is doing what it says.
LEMMA CompletionActs ==
    ASSUME Inductive, Orderly, NEW w \in Workers, Process(w) \/ FinishCall(w), LeasedItem(w),
           state'[work[w]] = "completed"
    PROVE  /\ work[w] = Session => ~sessions
           /\ work[w] = User => ~user
           /\ \A x \in Resources : work[w] = Item("delete_row", x) => x \notin rows'
           /\ \A v \in Vers : work[w] = Item("delete_file", v) => v \notin files'
<1>1. TypeOK /\ RemoteIsRemote /\ ProviderActed /\ files \subseteq rows
  BY Zenon DEF Inductive, Orderly, ErasureOrder
<1>2. work[w] \in Items /\ state[work[w]] = "leased" /\ state' # state
  BY <1>1 DEF LeasedItem, TypeOK
<1>3. CASE FinishCall(w)
  <2>1. pc[w] = "answered" /\ ~Local(work[w]) /\ outcome[w] = "ok"
    BY <1>1, <1>2, <1>3, Zenon DEF FinishCall, At, RemoteIsRemote, Raise
  <2>2. \A x : work[w] # Item("delete_row", x) /\ work[w] # Item("delete_file", x)
    BY <2>1 DEF Local, Item
  <2> QED
    BY <1>1, <2>1, <2>2, Zenon DEF ProviderActed
<1>4. CASE Process(w)
  <2>1. Local(work[w])
    BY <1>4 DEF Process
  <2>2. work[w] # Session /\ work[w] # User
    BY <2>1 DEF Local, Session, User, Item
  <2>3. ~(ActiveHolds(work[w].res) # {} /\ MarkHeld(work[w])) /\ ~\E what : Raise(w, what)
    BY <1>1, <1>2 DEF MarkHeld, Settle, Raise, TypeOK
  <2>4. ASSUME NEW x \in Resources, work[w] = Item("delete_row", x) PROVE x \notin rows'
    <3>1. work[w].phase = "delete_row" /\ work[w].res = x /\ work[w] # Cipher
      BY <2>4, ItemNames DEF Item
    <3>2. work[w] \notin FileItems /\ work[w] # PostCheck /\ work[w] \notin BackupItems
      BY <3>1 DEF FileItems, PostCheck, BackupItems, Item
    <3>3. DeleteRow(w) /\ x \notin Asks
      BY <1>4, <2>3, <3>1, <3>2, Zenon DEF Process, DeleteFile, DeleteRow, EraseCipher, Postcheck,
         VerifyBackup, ExecutionFails
    <3> QED
      BY <3>1, <3>3 DEF DeleteRow
  <2>5. ASSUME NEW v \in Vers, work[w] = Item("delete_file", v) PROVE v \notin files'
    <3>1. work[w].phase = "delete_file" /\ work[w].res = v
      BY <2>5 DEF Item
    <3>2. work[w] \notin RowItems /\ work[w] # Cipher /\ work[w] # PostCheck /\ work[w] \notin BackupItems
      BY <3>1 DEF RowItems, Cipher, PostCheck, BackupItems, Item
    <3>3. DeleteFile(w)
      BY <1>4, <2>3, <3>2, Zenon DEF Process, DeleteRow, EraseCipher, Postcheck, VerifyBackup, ExecutionFails
    <3> QED
      BY <1>1, <3>1, <3>3 DEF DeleteFile
  <2> QED
    BY <2>2, <2>4, <2>5
<1> QED
  BY <1>3, <1>4

\* A claim finds its prerequisites complete.
LEMMA ClaimEarns ==
    ASSUME Inductive, Orderly, NEW w \in Workers, NEW i \in Items, Claim(w, i)
    PROVE  Confirmed /\ Earned(i)
<1>1. state[i] # "none" /\ Prerequisites(i)
  BY DEF Claim, Due
<1>2. Confirmed
  BY <1>1 DEF Inductive, Unplanned, Confirmed
<1>3. \A j \in LocalItems : state[j] # "none"
  BY <1>2, Zenon DEF Orderly, WholeInventory
<1>4. ASSUME NEW S \in SUBSET LocalItems, ~Incomplete(S) PROVE \A j \in S : state[j] = "completed"
  BY <1>3, <1>4 DEF Incomplete
<1>5. i \in LocalItems \ {Session} =>
        /\ state[Session] = "completed"
        /\ CASE i = PostCheck -> ~Incomplete(BeforePostcheck)
            [] i = User -> ~Incomplete({PostCheck})
            [] i = Cipher -> verified /\ ~Incomplete({User})
            [] i.phase = "delete_row" /\ i.res \in Vers -> ~Incomplete({Item("delete_file", i.res)})
            [] i.phase = "delete_row" /\ i.res \in Docs ->
                ~Incomplete({Item("unindex", i.res)}
                            \cup {j \in RowItems \cup FileItems : j.res \in Vers})
            [] OTHER -> TRUE
  BY <1>1, <1>4, ItemNames DEF Prerequisites
<1>6. i = Cipher => verified
  <2>1. Cipher \in LocalItems \ {Session} /\ Cipher # PostCheck /\ Cipher # User
    BY ItemNames DEF Cipher, Session, PostCheck, User, Item
  <2>2. Cipher.phase = "delete_row" /\ Cipher.res \notin Vers /\ Cipher.res \notin Docs
    BY NamesAssumption DEF Cipher, Item, NamesAssumption, Resources
  <2> QED
    BY <1>5, <2>1, <2>2
<1>7. ASSUME NEW v \in Vers, i = Item("delete_row", v) PROVE state[Item("delete_file", v)] = "completed"
  <2>1. /\ i \in LocalItems \ {Session} /\ i # PostCheck /\ i # User /\ i # Cipher
        /\ i.phase = "delete_row" /\ i.res = v /\ v \notin Docs
        /\ Item("delete_file", v) \in LocalItems
    BY <1>7, ItemNames, NamesAssumption DEF Session, PostCheck, User, Item, NamesAssumption
  <2>2. ~Incomplete({Item("delete_file", v)})
    BY <1>5, <2>1
  <2> QED
    BY <1>4, <2>1, <2>2
<1>8. ASSUME NEW d \in Docs, i = Item("delete_row", d), NEW v \in Vers
      PROVE  state[Item("delete_row", v)] = "completed"
  <2> DEFINE S == {Item("unindex", d)} \cup {j \in RowItems \cup FileItems : j.res \in Vers}
  <2>1. /\ i \in LocalItems \ {Session} /\ i # PostCheck /\ i # User /\ i # Cipher
        /\ i.phase = "delete_row" /\ i.res = d /\ d \notin Vers
    BY <1>8, ItemNames, NamesAssumption DEF Session, PostCheck, User, Item, NamesAssumption
  <2>2. ~Incomplete(S)
    BY <1>5, <2>1
  <2>3. Item("delete_row", v) \in S /\ S \subseteq LocalItems
    BY DEF RowItems, LocalItems, ContentItems, UnindexItems, Item, Resources
  <2> QED
    BY <1>4, <2>2, <2>3
<1> QED
  BY <1>2, <1>5, <1>6, <1>7, <1>8 DEF Earned

LEMMA InitOrderly == Init => Orderly
<1> SUFFICES ASSUME Init PROVE Orderly
  OBVIOUS
<1>1. /\ life = "pending" /\ ~liveErased /\ ~verified /\ user
      /\ rows = Resources /\ files = Vers
      /\ \A i \in Items : state[i] = "none"
      /\ \A w \in Workers : work[w] = None /\ pc[w] = "idle"
  BY Zenon DEF Init
<1>2. WholeInventory
  BY <1>1, NamesAssumption, Zenon DEF WholeInventory, Confirmed, NamesAssumption
<1>3. WorkIsEarned
  BY <1>1, NamesAssumption DEF WorkIsEarned, NamesAssumption
<1>4. \A i \in LocalItems : state[i] # "completed"
  BY <1>1, ItemNames
<1>5. ProviderActed /\ DestroyedIsGone
  BY <1>1, <1>4, ItemNames DEF ProviderActed, DestroyedIsGone
<1>6. ErasureOrder /\ LiveErasedIsClean
  BY <1>1, ConstantsAssumption, ItemNames DEF ErasureOrder, LiveErasedIsClean, Confirmed, ConstantsAssumption
<1> QED
  BY <1>2, <1>3, <1>5, <1>6 DEF Orderly

\* The confirmation plans everything and destroys nothing but free requests.
LEMMA ConfirmOrderly ==
    ASSUME Inductive, Orderly, Confirm
    PROVE  Orderly'
<1>1. /\ ~Confirmed /\ Confirmed' /\ cipher'
      /\ rows' = rows \ {q \in Asks : ActiveHolds(q) = {}}
      /\ UNCHANGED <<liveErased, files, sessions, user, verified, tombstone, workerVars>>
  BY Zenon DEF Confirm, Confirmed
<1>2. ~liveErased /\ rows = Resources /\ files = Vers /\ user /\ \A w \in Workers : work[w] \notin Items
  BY <1>1, Zenon DEF Orderly, WholeInventory
<1>3. \A i \in LocalItems : state'[i] = Inventory(i)
  BY ItemNames DEF Confirm
<1>4. \A i \in LocalItems : /\ Inventory(i) # "none"
                            /\ Inventory(i) = "completed" => i.res \in Asks /\ ActiveHolds(i.res) = {}
  BY ItemNames DEF Inventory, Planned
<1>5. WholeInventory'
  BY <1>1, <1>3, <1>4, Zenon DEF WholeInventory
<1>6. WorkIsEarned'
  BY <1>1, <1>2 DEF WorkIsEarned
<1>7. state'[Session] # "completed" /\ state'[User] # "completed"
  <2>1. Session.res \notin Asks /\ User.res \notin Asks
    BY NamesAssumption DEF Session, User, Item, NamesAssumption, Resources
  <2> QED
    BY <1>3, <1>4, <2>1, ItemNames
<1>8. ProviderActed'
  <2>1. \A w \in Workers : pc[w] = "answered" /\ outcome[w] = "ok" =>
            (work[w] = Session => ~sessions) /\ (work[w] = User => ~user)
    BY Zenon DEF Orderly, ProviderActed
  <2>2. verified => ~user
    BY Zenon DEF Orderly, ProviderActed
  <2>3. verified' => ~user'
    BY <1>1, <2>2
  <2>4. \A w \in Workers : pc'[w] = "answered" /\ outcome'[w] = "ok" =>
            (work'[w] = Session => ~sessions') /\ (work'[w] = User => ~user')
    BY <1>1, <2>1
  <2> QED
    BY <1>7, <2>3, <2>4, Zenon DEF ProviderActed
<1>9. DestroyedIsGone'
  <2>1. \A x \in Resources : Item("delete_row", x) \in LocalItems /\ Item("delete_row", x).res = x
    BY ItemNames DEF Item
  <2>2. \A v \in Vers : Item("delete_file", v) \in LocalItems /\ Item("delete_file", v).res = v /\ v \notin Asks
    BY ItemNames, NamesAssumption DEF Item, NamesAssumption
  <2> QED
    BY <1>1, <1>3, <1>4, <2>1, <2>2 DEF DestroyedIsGone
<1>10. ErasureOrder' /\ LiveErasedIsClean'
  <2>1. Docs \cup Vers \subseteq rows' /\ files' = Vers /\ user' /\ ~liveErased'
    BY <1>1, <1>2, NamesAssumption DEF NamesAssumption, Resources
  <2>2. \A v \in Vers : DocOf[v] \in Docs
    BY ConstantsAssumption DEF ConstantsAssumption
  <2> QED
    BY <1>1, <2>1, <2>2 DEF ErasureOrder, LiveErasedIsClean
<1> QED
  BY <1>5, <1>6, <1>8, <1>9, <1>10 DEF Orderly

\* Every other step keeps the order: what it destroys was earned.
LEMMA StepOrderly ==
    ASSUME Inductive, Orderly, [Next]_vars, ~Confirm
    PROVE  Orderly'
<1>0. TypeOK /\ Unplanned /\ NotTerminal /\ WholeInventory /\ WorkIsEarned /\ ProviderActed
      /\ DestroyedIsGone /\ ErasureOrder /\ LiveErasedIsClean
  BY DEF Inductive, Orderly
<1>1. ItemLook /\ ContentLook /\ WorkLook /\ ProviderLook
  BY <1>0, NextItemLook, NextContentLook, NextWorkLook, NextProviderLook
<1>2. LifeLook
  BY NextLifeLook
<1>3. Confirmed' <=> Confirmed
  BY <1>2 DEF LifeLook, Confirmed
<1>4. \A i \in LocalItems : /\ state[i] = "completed" => state'[i] = "completed"
                            /\ state[i] # "none" => state'[i] # "none"
  BY <1>1 DEF ItemLook
<1>5. rows' \subseteq rows /\ files' \subseteq files
  BY <1>1 DEF ContentLook
<1>6. ASSUME NEW i \in Items, Earned(i) PROVE Earned(i)'
  <2>1. verified => verified'
    BY <1>1 DEF ProviderLook
  <2> QED
    BY <1>4, <1>6, <2>1, ItemNames DEF Earned
<1>7. ASSUME NEW w \in Workers, work[w] \in LocalItems \ {Session} PROVE ~sessions
  BY <1>0, <1>7, ItemNames DEF WorkIsEarned, Earned, ProviderActed
<1>8. WorkIsEarned'
  <2> SUFFICES ASSUME NEW w \in Workers, NEW i \in Items, work'[w] = i PROVE Earned(i)'
    BY DEF WorkIsEarned
  <2>1. CASE work[w] = i
    BY <1>0, <1>6, <2>1 DEF WorkIsEarned
  <2>2. CASE work[w] # i
    <3>1. Claim(w, i)
      BY <1>1, <2>2 DEF WorkLook
    <3> QED
      BY <1>6, <3>1, ClaimEarns
  <2> QED
    BY <2>1, <2>2
<1>9. WholeInventory'
  <2>1. CASE Confirmed
    BY <1>0, <1>3, <1>4, <2>1 DEF WholeInventory
  <2>2. CASE ~Confirmed
    <3>1. \A w \in Workers : work[w] \notin Items
      BY <1>0, <2>2 DEF WholeInventory
    <3>2. \A w \in Workers, i \in Items : ~Claim(w, i)
      BY <2>2, ClaimEarns
    <3>3. \A w \in Workers : work'[w] \notin Items
      BY <1>1, <3>1, <3>2 DEF WorkLook
    <3>4. ~liveErased'
      <4>1. ~liveErased
        BY <1>0, <2>2, Zenon DEF WholeInventory
      <4>2. ~Reconciled
        BY <2>2 DEF Reconciled, ReconciledLife, Confirmed
      <4> QED
        BY <1>2, <4>1, <4>2 DEF LifeLook
    <3>5. \A w \in Workers : ~Process(w)
      BY <1>0, <3>1 DEF Process, LeasedItem, TypeOK
    <3>6. UNCHANGED <<rows, files>>
      BY <1>1, <3>5 DEF ContentLook
    <3>7. user'
      <4>1. user
        BY <1>0, <2>2, Zenon DEF WholeInventory
      <4>2. \A w \in Workers : work[w] # User
        BY <3>1, ItemNames
      <4> QED
        BY <1>1, <4>1, <4>2 DEF ProviderLook
    <3>8. rows = Resources /\ files = Vers
      BY <1>0, <2>2, Zenon DEF WholeInventory
    <3> QED
      BY <1>3, <2>2, <3>3, <3>4, <3>6, <3>7, <3>8 DEF WholeInventory
  <2> QED
    BY <2>1, <2>2
<1>10. ASSUME NEW i \in LocalItems, state'[i] = "completed", state[i] # "completed"
       PROVE  \E w \in Workers : /\ Process(w) \/ FinishCall(w)
                                 /\ work[w] = i /\ LeasedItem(w) /\ state'[work[w]] = "completed"
  BY <1>1, <1>10 DEF ItemLook
<1>11. ProviderActed'
  <2>1. sessions' => sessions
    BY <1>1 DEF ProviderLook
  <2>2. user' => user
    BY <1>1 DEF ProviderLook
  <2>3. ASSUME NEW w \in Workers, pc'[w] = "answered", outcome'[w] = "ok"
        PROVE  (work'[w] = Session => ~sessions') /\ (work'[w] = User => ~user')
    BY <1>0, <1>1, <2>1, <2>2, <2>3 DEF WorkLook, ProviderActed
  <2>4. ASSUME state'[Session] = "completed" PROVE ~sessions'
    <3>1. CASE state[Session] = "completed"
      BY <1>0, <2>1, <3>1 DEF ProviderActed
    <3>2. CASE state[Session] # "completed"
      <4>1. ~sessions
        BY <1>10, <2>4, <3>2, ItemNames, CompletionActs
      <4> QED
        BY <2>1, <4>1
    <3> QED
      BY <3>1, <3>2
  <2>5. ASSUME state'[User] = "completed" PROVE ~user'
    <3>1. CASE state[User] = "completed"
      BY <1>0, <2>2, <3>1 DEF ProviderActed
    <3>2. CASE state[User] # "completed"
      <4>1. ~user
        BY <1>10, <2>5, <3>2, ItemNames, CompletionActs
      <4> QED
        BY <2>2, <4>1
    <3> QED
      BY <3>1, <3>2
  <2>6. ASSUME verified' PROVE ~user'
    BY <1>0, <1>1, <2>2, <2>6 DEF ProviderLook, ProviderActed
  <2> QED
    BY <2>3, <2>4, <2>5, <2>6 DEF ProviderActed
<1>12. DestroyedIsGone'
  <2>1. ASSUME NEW x \in Resources, state'[Item("delete_row", x)] = "completed" PROVE x \notin rows'
    <3>1. CASE state[Item("delete_row", x)] = "completed"
      BY <1>0, <1>5, <3>1 DEF DestroyedIsGone
    <3>2. CASE state[Item("delete_row", x)] # "completed"
      BY <1>10, <2>1, <3>2, ItemNames, CompletionActs
    <3> QED
      BY <3>1, <3>2
  <2>2. ASSUME NEW v \in Vers, state'[Item("delete_file", v)] = "completed" PROVE v \notin files'
    <3>1. CASE state[Item("delete_file", v)] = "completed"
      BY <1>0, <1>5, <3>1 DEF DestroyedIsGone
    <3>2. CASE state[Item("delete_file", v)] # "completed"
      BY <1>10, <2>2, <3>2, ItemNames, CompletionActs
    <3> QED
      BY <3>1, <3>2
  <2> QED
    BY <2>1, <2>2 DEF DestroyedIsGone
<1>13. ASSUME NEW w \in Workers, NEW x \in Docs \cup Vers, work[w] = Item("delete_row", x), rows' = rows \ {x}
       PROVE  /\ \A v \in Vers \cap rows' : DocOf[v] \in rows'
              /\ files \subseteq rows'
  <2>1. Earned(Item("delete_row", x))
    BY <1>0, <1>13, ItemNames DEF WorkIsEarned
  <2>2. \A v \in Vers \cap rows : DocOf[v] \in rows
    BY <1>0 DEF ErasureOrder
  <2>3. x \in Docs => \A v \in Vers : v \notin rows
    BY <1>0, <2>1, ItemNames DEF Earned, DestroyedIsGone
  <2>4. x \in Vers => x \notin files
    BY <1>0, <2>1 DEF Earned, DestroyedIsGone
  <2>5. files \subseteq Vers /\ files \subseteq rows /\ (x \in Docs => x \notin Vers)
    BY <1>0, NamesAssumption DEF TypeOK, NamesAssumption, ErasureOrder
  <2>6. \A v \in Vers : DocOf[v] \in Docs
    BY ConstantsAssumption DEF ConstantsAssumption
  <2>7. files \subseteq rows'
    BY <1>13, <2>4, <2>5
  <2>8. ASSUME NEW v \in Vers \cap rows' PROVE DocOf[v] \in rows'
    <3>1. v \in rows /\ DocOf[v] \in rows
      BY <1>13, <2>2, <2>8
    <3>2. DocOf[v] # x
      BY <2>3, <2>6, <3>1
    <3> QED
      BY <1>13, <3>1, <3>2
  <2> QED
    BY <2>7, <2>8
<1>14. ErasureOrder'
  <2>1. sessions' => sessions
    BY <1>1 DEF ProviderLook
  <2>2. (\A v \in Vers \cap rows' : DocOf[v] \in rows') /\ files' \subseteq rows'
    <3>1. CASE UNCHANGED rows
      BY <1>0, <1>5, <3>1 DEF ErasureOrder
    <3>2. CASE ~UNCHANGED rows
      <4>1. PICK w \in Workers, x \in Docs \cup Vers : work[w] = Item("delete_row", x) /\ rows' = rows \ {x}
        BY <1>1, <3>2 DEF ContentLook
      <4> QED
        BY <1>5, <1>13, <4>1
    <3> QED
      BY <3>1, <3>2
  <2>3. ASSUME Confirmed, ~(Docs \cup Vers \subseteq rows') \/ files' # Vers \/ ~user' PROVE ~sessions
    <3>1. CASE ~(Docs \cup Vers \subseteq rows) \/ files # Vers \/ ~user
      BY <1>0, <2>3, <3>1 DEF ErasureOrder
    <3>2. CASE rows' # rows \/ files' # files
      <4>1. \E w \in Workers, x \in Resources :
                work[w] = Item("delete_row", x) \/ (x \in Vers /\ work[w] = Item("delete_file", x))
        BY <1>1, <3>2, ItemNames DEF ContentLook
      <4>2. \A x : Item("delete_row", x) # Session /\ Item("delete_file", x) # Session
        BY DEF Item, Session
      <4> QED
        BY <1>7, <4>1, <4>2, ItemNames
    <3>3. CASE user /\ ~user'
      <4>1. \E w \in Workers : work[w] = User
        BY <1>1, <3>3 DEF ProviderLook
      <4>2. User # Session
        BY DEF User, Session, Item
      <4> QED
        BY <1>7, <4>1, <4>2, ItemNames
    <3> QED
      BY <2>3, <3>1, <3>2, <3>3
  <2>4. ASSUME Confirmed, ~cipher' PROVE ~sessions' /\ ~user'
    <3>1. user' => user
      BY <1>1 DEF ProviderLook
    <3>2. CASE ~cipher
      BY <1>0, <2>1, <2>4, <3>1, <3>2 DEF ErasureOrder
    <3>3. CASE cipher
      <4>1. verified /\ \E w \in Workers : work[w] = Cipher
        BY <1>1, <2>4, <3>3 DEF ProviderLook
      <4>2. Cipher # Session
        BY DEF Cipher, Session, Item
      <4>3. ~sessions
        BY <1>7, <4>1, <4>2, ItemNames
      <4>4. ~user
        BY <1>0, <4>1 DEF ProviderActed
      <4> QED
        BY <2>1, <3>1, <4>3, <4>4
    <3> QED
      BY <3>2, <3>3
  <2> QED
    BY <1>3, <2>1, <2>2, <2>3, <2>4 DEF ErasureOrder
<1>15. LiveErasedIsClean'
  <2> SUFFICES ASSUME liveErased'
               PROVE  /\ rows' = {} /\ files' = {}
                      /\ \A d \in Docs : tombstone'[d] = "none"
                      /\ ~sessions' /\ ~user' /\ ~cipher'
    BY DEF LiveErasedIsClean
  <2>1. CASE liveErased
    <3>1. /\ rows = {} /\ files = {} /\ (\A d \in Docs : tombstone[d] = "none")
          /\ ~sessions /\ ~user /\ ~cipher
      BY <1>0, <2>1, Zenon DEF LiveErasedIsClean
    <3>2. \A d \in Docs : tombstone'[d] = "none"
      BY <1>1, <3>1 DEF ContentLook
    <3>3. ~sessions' /\ ~user' /\ ~cipher'
      BY <1>1, <3>1 DEF ProviderLook
    <3> QED
      BY <1>5, <3>1, <3>2, <3>3
  <2>2. CASE Reconciled
    <3>1. life # "pending" /\ life # "fully_erased"
      BY <1>0, <2>2 DEF Reconciled, ReconciledLife, NotTerminal
    <3>2. ~Incomplete(LocalItems) /\ verified /\ ~cipher /\ \A d \in Docs : tombstone[d] = "none"
      BY <2>2, <3>1 DEF Reconciled, ReconciledLife
    <3>3. \A i \in LocalItems : state[i] = "completed"
      BY <1>0, <3>1, <3>2 DEF Incomplete, WholeInventory, Confirmed
    <3>4. rows = {} /\ files = {}
      BY <1>0, <3>3, ItemNames DEF DestroyedIsGone, TypeOK
    <3>5. ~sessions /\ ~user
      BY <1>0, <3>2, <3>3, ItemNames DEF ProviderActed
    <3>6. UNCHANGED <<rows, files, tombstone, sessions, user, cipher>>
      BY <2>2 DEF Reconciled
    <3> QED
      BY <3>2, <3>4, <3>5, <3>6
  <2> QED
    BY <1>2, <2>1, <2>2 DEF LifeLook
<1> QED
  BY <1>8, <1>9, <1>11, <1>12, <1>14, <1>15 DEF Orderly

LEMMA NextOrderly == Inductive /\ Orderly /\ [Next]_vars => Orderly'
BY ConfirmOrderly, StepOrderly

LEMMA OrderlyHolds == Spec => []Orderly
BY InductiveHolds, InitOrderly, NextOrderly, PTL DEF Spec

\* Whatever is retried, held, released or crashes: sessions are revoked before
\* anything is destroyed, files and versions go before what records them, and
\* the encrypted subject goes last of the provider's data.
THEOREM ErasureIsOrdered == Spec => []ErasureOrder
<1>1. Orderly => ErasureOrder
  BY DEF Orderly
<1> QED
  BY <1>1, OrderlyHolds, PTL

\* When _reconcile sets live_erased_at nothing of the account is left in the
\* live system, and nothing comes back.
THEOREM LiveErasureIsClean == Spec => []LiveErasedIsClean
<1>1. Orderly => LiveErasedIsClean
  BY DEF Orderly
<1> QED
  BY <1>1, OrderlyHolds, PTL

\* A step destroys only what no active hold covers: a file has its row, so the
\* hold of its document is found.
LEMMA NextHeldSurvives ==
    ASSUME Inductive, Orderly, [Next]_vars
    PROVE  HeldSurvives
<1>0. TypeOK /\ files \subseteq rows
  BY DEF Inductive, Orderly, ErasureOrder
<1>1. ContentLook
  BY <1>0, NextContentLook
<1> SUFFICES ASSUME NEW x \in Resources, NEW h \in Resources, hold[h] = "active",
                    h \in {x} \cup (IF x \in Vers THEN {DocOf[x]} ELSE {})
             PROVE  (x \in rows => x \in rows') /\ (x \in files => x \in files')
  BY DEF HeldSurvives
<1>2. x \in rows => h \in ActiveHolds(x)
  BY DEF ActiveHolds, Lineage
<1>3. ASSUME Confirm, x \in rows PROVE x \in rows' /\ files' = files
  BY <1>2, <1>3 DEF Confirm
<1>4. CASE Confirm
  BY <1>0, <1>3, <1>4 DEF Confirm
<1>5. ASSUME NEW y \in Resources, ActiveHolds(y) = {}, x \in rows PROVE x # y
  BY <1>2, <1>5
<1>6. CASE ~Confirm
  <2>1. rows' = rows \/ \E y \in Resources : ActiveHolds(y) = {} /\ rows' = rows \ {y}
    BY <1>1, <1>6, ItemNames DEF ContentLook
  <2>2. files' = files \/ \E y \in Resources : ActiveHolds(y) = {} /\ files' = files \ {y}
    BY <1>1, <1>6, ItemNames DEF ContentLook
  <2>3. x \in rows => x \in rows'
    BY <1>5, <2>1
  <2>4. x \in files => x \in files'
    BY <1>0, <1>5, <2>2
  <2> QED
    BY <2>3, <2>4
<1> QED
  BY <1>4, <1>6

\* Nothing that an active hold covers is destroyed, not by a claim made before
\* the hold, a retry or a late reclaim.
THEOREM HoldsPreserve == Spec => HeldIsPreserved
<1>1. Inductive /\ Orderly /\ [Next]_vars => [HeldSurvives]_vars
  BY NextHeldSurvives
<1> QED
  BY <1>1, InductiveHolds, OrderlyHolds, PTL DEF Spec, HeldIsPreserved
=============================================================================
