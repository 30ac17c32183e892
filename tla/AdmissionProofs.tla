--------------------------- MODULE AdmissionProofs ---------------------------
(***************************************************************************)
(* Safety of what admits a change, for any number of everything.           *)
(*                                                                         *)
(*   DeletionCommitment: the commitment boundary, under concurrent         *)
(*   requests, crashes, failed writes, backups and restores.               *)
(*                                                                         *)
(*   Receipts implements ExactlyOnce: the work of a request and its        *)
(*   receipt are committed together and disposed of together, so a key has *)
(*   a receipt exactly while one effect of it stands; a success is told    *)
(*   from a receipt or with its commit.                                    *)
(*                                                                         *)
(*   Contacts: decisions, blocks and quotas of contact requests.           *)
(***************************************************************************)
EXTENDS DeletionCommitment, Receipts, Contacts, SequenceTheorems, FiniteSetTheorems, TLAPS

-----------------------------------------------------------------------------
(* The commitment boundary *)

\* One confirmation at a time holds the authority row, and requests die with
\* the process.
OneHolder ==
    /\ \A r, s \in Requests : pc[r] \in Holding /\ pc[s] \in Holding => r = s
    /\ \A r \in Requests : pc[r] # "idle" => api = "up"

\* How far the append of the confirmation in progress has come.
AppendProgress ==
    \A r \in Requests :
        /\ pc[r] \in {"entry", "head", "appended"} => ~consistent /\ target[r] \in Committed
        /\ pc[r] = "entry" => Len(entries) = head + 1 /\ witness = head
        /\ pc[r] = "head" => Len(entries) = head
        /\ pc[r] = "appended" => JournalSound

\* A backup's concealed accounts are the first entries of the journal, up to
\* its checkpoint.
BackupCoversPrefix ==
    backup # NoBackup =>
        /\ backup.head <= Len(entries)
        /\ \A d \in Ids :
            backup.row[d] = "concealed" <=> \E i \in 1..backup.head : entries[i] = d

Inductive ==
    /\ TypeOK
    /\ OneHolder
    /\ AppendProgress
    /\ BackupCoversPrefix
    /\ ConcealedIsCommitted
    /\ HalfWrittenIsClosed

\* An empty journal mirrors a database without deletions.
LEMMA InitInductive == Init => Inductive
BY ConstantsAssumption
   DEF ConstantsAssumption, Init, Inductive, TypeOK, OneHolder, AppendProgress, BackupCoversPrefix,
       ConcealedIsCommitted, HalfWrittenIsClosed, Rows, RowStates, PCs, Holding, NoBackup,
       Concealed, Committed, JournalSound, WitnessCurrent, Open

\* Every step keeps the types.
LEMMA NextTypeOK == TypeOK /\ [Next]_vars => TypeOK'
<1> SUFFICES ASSUME TypeOK, [Next]_vars PROVE TypeOK'
    OBVIOUS
<1> USE ConstantsAssumption DEF ConstantsAssumption, TypeOK, Rows, RowStates, PCs
<1>1. ASSUME NEW d \in Ids, RequestDeletion(d) PROVE TypeOK'
    BY <1>1 DEF RequestDeletion, journalVars, apiVars, requestVars
<1>2. ASSUME NEW r \in Requests, RequestStep(r) PROVE TypeOK'
  <2>1. ASSUME NEW d \in Ids, NEW kind \in {"confirm", "cancel"}, Admit(r, d, kind) PROVE TypeOK'
    BY <2>1 DEF Admit, Goto, journalVars, apiVars
  <2>2. CASE BeginConfirm(r)
    BY <2>2 DEF BeginConfirm, Goto, Done, journalVars, apiVars
  <2>3. CASE AppendEntry(r)
    <3>1. target[r] \in Ids
        BY <2>3 DEF AppendEntry
    <3>2. entries' \in Seq(Ids)
        BY <2>3, <3>1 DEF AppendEntry
    <3>3. pc' \in [Requests -> PCs] /\ target' \in [Requests -> Ids \cup {NoId}]
        BY <2>3, <3>1 DEF AppendEntry, Goto, Done
    <3>4. \A q \in Requests : pc'[q] # "idle" => target'[q] \in Ids
        BY <2>3 DEF AppendEntry, Goto, Done
    <3>5. consistent' \in BOOLEAN /\ UNCHANGED <<row, head, witness, api, backup, faults>>
        BY <2>3 DEF AppendEntry
    <3> QED
        BY <3>2, <3>3, <3>4, <3>5
  <2>4. CASE ReplaceState(r)
    BY <2>4 DEF ReplaceState, Goto, apiVars
  <2>5. CASE WriteWitness(r)
    BY <2>5 DEF WriteWitness, Goto, apiVars
  <2>6. CASE AppendFails(r)
    <3>1. consistent' \in BOOLEAN
        BY <2>6, Zenon DEF AppendFails
    <3>2. faults' \in 0..MaxFaults
        BY <2>6 DEF AppendFails, Fault
    <3> QED
        BY <2>6, <3>1, <3>2 DEF AppendFails, Done, journalVars
  <2>7. CASE Commit(r)
    BY <2>7 DEF Commit, Done, journalVars
  <2>8. CASE CommitFails(r)
    BY <2>8 DEF CommitFails, Done, Fault, journalVars, apiVars
  <2>9. CASE Cancel(r)
    BY <2>9 DEF Cancel, Done, journalVars, apiVars
  <2> QED
    BY <1>2, <2>1, <2>2, <2>3, <2>4, <2>5, <2>6, <2>7, <2>8, <2>9 DEF RequestStep
<1>3. CASE Crash
  <2>1. row' \in Rows
    BY <1>3 DEF Crash
  <2> QED
    BY <1>3, <2>1 DEF Crash, Fault, AllIdle, journalVars
<1>4. CASE Stop
    BY <1>4 DEF Stop, journalVars, requestVars
<1>5. CASE Start
    BY <1>5 DEF Start, journalVars, requestVars
<1>6. CASE Backup
    BY <1>6 DEF Backup, journalVars, apiVars, requestVars
<1>7. CASE Restore
    BY <1>7 DEF Restore, NoBackup, journalVars, apiVars, requestVars
<1>8. CASE UNCHANGED vars
    BY <1>8 DEF vars, journalVars, apiVars, requestVars
<1> QED
    BY <1>1, <1>2, <1>3, <1>4, <1>5, <1>6, <1>7, <1>8 DEF Next

\* The journal only grows, and keeps what it holds.
LEMMA CommittedAfterAppend ==
    ASSUME TypeOK, NEW d \in Ids, entries' = Append(entries, d)
    PROVE  /\ Committed' = Committed \cup {d}
           /\ Len(entries') = Len(entries) + 1
           /\ \A i \in 1..Len(entries) : entries'[i] = entries[i]
<1>1. /\ Len(entries) \in Nat
      /\ Len(entries') = Len(entries) + 1
      /\ DOMAIN entries = 1..Len(entries)
      /\ DOMAIN entries' = 1..(Len(entries) + 1)
      /\ \A i \in 1..Len(entries) : entries'[i] = entries[i]
      /\ entries'[Len(entries) + 1] = d
    BY DEF TypeOK
<1>2. Committed' \subseteq Committed \cup {d}
    BY <1>1 DEF Committed
<1>3. Committed \subseteq Committed'
    BY <1>1 DEF Committed
<1>4. d \in Committed'
    BY <1>1 DEF Committed
<1> QED
    BY <1>1, <1>2, <1>3, <1>4

\* What is committed depends on the entry files only.
LEMMA CommittedUnchanged ==
    ASSUME UNCHANGED entries PROVE Committed' = Committed
BY DEF Committed

\* Every step keeps the inductive invariant.
LEMMA NextInductive == Inductive /\ [Next]_vars => Inductive'
<1> SUFFICES ASSUME Inductive, [Next]_vars PROVE Inductive'
    OBVIOUS
<1> USE DEF Inductive
<1>0. TypeOK'
    BY NextTypeOK
<1> DEFINE Rest == OneHolder /\ AppendProgress /\ BackupCoversPrefix
                    /\ ConcealedIsCommitted /\ HalfWrittenIsClosed
<1>1. ASSUME NEW d \in Ids, RequestDeletion(d) PROVE Rest'
    BY <1>1 DEF RequestDeletion, journalVars, apiVars, requestVars, TypeOK, Rows, OneHolder,
        AppendProgress, BackupCoversPrefix, ConcealedIsCommitted, HalfWrittenIsClosed, Concealed,
        Committed, JournalSound, WitnessCurrent, Open
<1>2. ASSUME NEW r \in Requests, RequestStep(r) PROVE Rest'
  <2>1. ASSUME NEW d \in Ids, NEW kind \in {"confirm", "cancel"}, Admit(r, d, kind) PROVE Rest'
    BY <2>1 DEF Admit, Goto, journalVars, apiVars, TypeOK, OneHolder, Holding,
        AppendProgress, BackupCoversPrefix, ConcealedIsCommitted, HalfWrittenIsClosed, Concealed,
        Committed, JournalSound, WitnessCurrent, Open
  <2>2. CASE BeginConfirm(r)
    BY <2>2 DEF BeginConfirm, AuthorityLocked, Goto, Done, journalVars, apiVars, TypeOK, OneHolder,
        Holding, AppendProgress, BackupCoversPrefix, ConcealedIsCommitted, HalfWrittenIsClosed,
        Concealed, Committed, JournalSound, WitnessCurrent, Open
  <2>3. CASE AppendEntry(r)
    <3>1. target[r] \in Ids /\ pc[r] \in Holding
        BY <2>3 DEF AppendEntry, TypeOK, Holding
    <3>2. UNCHANGED entries \/ entries' = Append(entries, target[r])
        BY <2>3 DEF AppendEntry
    <3>3. /\ Committed \subseteq Committed' /\ Len(entries) <= Len(entries')
          /\ \A i \in 1..Len(entries) : entries'[i] = entries[i]
        BY <3>1, <3>2, CommittedAfterAppend, CommittedUnchanged DEF TypeOK
    <3>4. OneHolder'
        BY <2>3, <3>1 DEF AppendEntry, Goto, Done, OneHolder, Holding, TypeOK
    <3>5. AppendProgress'
      <4>1. \A q \in Requests : q # r => pc'[q] \notin {"entry", "head", "appended"}
        BY <2>3, <3>1 DEF AppendEntry, Goto, Done, OneHolder, Holding, TypeOK
      <4>2. CASE ~Appendable
        BY <2>3, <4>1, <4>2 DEF AppendEntry, Done, AppendProgress, TypeOK
      <4>3. CASE Appendable /\ target[r] \in Committed
        BY <2>3, <3>3, <4>1, <4>3 DEF AppendEntry, Appendable, Goto, AppendProgress, TypeOK,
            JournalSound, WitnessCurrent, Committed
      <4>4. CASE Appendable /\ target[r] \notin Committed
        <5>1. entries' = Append(entries, target[r]) /\ pc' = [pc EXCEPT ![r] = "entry"]
              /\ UNCHANGED <<target, head, witness>> /\ ~consistent'
            BY <2>3, <4>4 DEF AppendEntry, Goto
        <5>2. target[r] \in Committed' /\ Len(entries') = Len(entries) + 1
            BY <3>1, <5>1, CommittedAfterAppend
        <5> QED
            BY <4>1, <4>4, <5>1, <5>2 DEF Appendable, AppendProgress, TypeOK,
                JournalSound, WitnessCurrent
      <4> QED
        BY <4>2, <4>3, <4>4
    <3>6. BackupCoversPrefix'
      <4>1. UNCHANGED backup
        BY <2>3 DEF AppendEntry
      <4>2. CASE backup = NoBackup
        BY <4>1, <4>2 DEF BackupCoversPrefix
      <4>3. CASE backup # NoBackup
        <5>1. /\ backup.head \in Nat /\ backup.head <= Len(entries)
              /\ Len(entries) \in Nat /\ Len(entries') \in Nat
            BY <2>3, <3>1, <3>2, <4>3 DEF BackupCoversPrefix, TypeOK
        <5>2. backup.head <= Len(entries') /\ \A i \in 1..backup.head : entries'[i] = entries[i]
            BY <3>3, <5>1
        <5> QED
            BY <4>1, <4>3, <5>2 DEF BackupCoversPrefix
      <4> QED
        BY <4>2, <4>3
    <3>7. ConcealedIsCommitted'
        BY <2>3, <3>3 DEF AppendEntry, ConcealedIsCommitted, Concealed
    <3>8. HalfWrittenIsClosed'
        BY <2>3 DEF AppendEntry, HalfWrittenIsClosed, Open
    <3> QED
        BY <3>4, <3>5, <3>6, <3>7, <3>8
  <2>4. CASE ReplaceState(r)
    BY <2>4, CommittedUnchanged DEF ReplaceState, Goto, apiVars, TypeOK, OneHolder, Holding, AppendProgress,
        BackupCoversPrefix, ConcealedIsCommitted, HalfWrittenIsClosed, Concealed,
        JournalSound, WitnessCurrent, Open
  <2>5. CASE WriteWitness(r)
    BY <2>5, CommittedUnchanged DEF WriteWitness, Goto, apiVars, TypeOK, OneHolder, Holding, AppendProgress,
        BackupCoversPrefix, ConcealedIsCommitted, HalfWrittenIsClosed, Concealed,
        JournalSound, WitnessCurrent, Open
  <2>6. CASE AppendFails(r)
    BY <2>6, CommittedUnchanged DEF AppendFails, Done, journalVars, TypeOK, OneHolder, Holding, AppendProgress,
        BackupCoversPrefix, ConcealedIsCommitted, HalfWrittenIsClosed, Concealed,
        JournalSound, WitnessCurrent, Open
  <2>7. CASE Commit(r)
    BY <2>7, CommittedUnchanged DEF Commit, Done, journalVars, TypeOK, Rows, OneHolder, Holding, AppendProgress,
        BackupCoversPrefix, ConcealedIsCommitted, HalfWrittenIsClosed, Concealed,
        JournalSound, WitnessCurrent, Open
  <2>8. CASE CommitFails(r)
    BY <2>8, CommittedUnchanged DEF CommitFails, Done, journalVars, apiVars, TypeOK, Rows, OneHolder, Holding,
        AppendProgress, BackupCoversPrefix, ConcealedIsCommitted, HalfWrittenIsClosed, Concealed,
        JournalSound, WitnessCurrent, Open
  <2>9. CASE Cancel(r)
    BY <2>9, CommittedUnchanged DEF Cancel, Done, journalVars, apiVars, TypeOK, Rows, OneHolder, Holding,
        AppendProgress, BackupCoversPrefix, ConcealedIsCommitted, HalfWrittenIsClosed, Concealed,
        JournalSound, WitnessCurrent, Open
  <2> QED
    BY <1>2, <2>1, <2>2, <2>3, <2>4, <2>5, <2>6, <2>7, <2>8, <2>9 DEF RequestStep
<1>3. CASE Crash
  <2>1. Committed' = Committed
    BY <1>3, CommittedUnchanged DEF Crash, journalVars
  <2>2. ConcealedIsCommitted'
    BY <1>3, <2>1 DEF Crash, ConcealedIsCommitted, Concealed, AppendProgress, TypeOK
  <2>3. OneHolder' /\ AppendProgress' /\ HalfWrittenIsClosed'
    BY <1>3 DEF Crash, AllIdle, OneHolder, AppendProgress, HalfWrittenIsClosed, Holding, Open
  <2>4. BackupCoversPrefix'
    BY <1>3 DEF Crash, journalVars, BackupCoversPrefix
  <2> QED
    BY <1>0, <2>2, <2>3, <2>4
<1>4. CASE Stop
    BY <1>0, <1>4, CommittedUnchanged DEF Stop, journalVars, requestVars, TypeOK, OneHolder, Holding,
        AppendProgress, BackupCoversPrefix, ConcealedIsCommitted, HalfWrittenIsClosed, Concealed,
        JournalSound, WitnessCurrent, Open
<1>5. CASE Start
    BY <1>0, <1>5, CommittedUnchanged DEF Start, journalVars, requestVars, TypeOK, OneHolder, Holding,
        AppendProgress, BackupCoversPrefix, ConcealedIsCommitted, HalfWrittenIsClosed, Concealed,
        JournalSound, WitnessCurrent, Open
<1>6. CASE Backup
  <2>1. BackupCoversPrefix'
    <3>1. /\ DOMAIN entries = 1..head /\ head = Len(entries) /\ UNCHANGED entries
          /\ Committed = Concealed /\ backup' = [row |-> row, head |-> head]
        BY <1>6 DEF Backup, Mirrored, JournalSound, journalVars, TypeOK
    <3>2. \A d \in Ids : row[d] = "concealed" <=> d \in Committed
        BY <3>1 DEF Concealed
    <3>3. \A d \in Ids : d \in Committed <=> \E i \in 1..head : entries[i] = d
        BY <3>1 DEF Committed
    <3> QED
        BY <3>1, <3>2, <3>3 DEF BackupCoversPrefix, TypeOK
  <2> QED
    BY <1>0, <1>6, <2>1, CommittedUnchanged DEF Backup, journalVars, apiVars, requestVars, TypeOK,
        OneHolder, Holding, AppendProgress, ConcealedIsCommitted, HalfWrittenIsClosed, Concealed,
        JournalSound, WitnessCurrent, Open
<1>7. CASE Restore
  <2>1. ConcealedIsCommitted'
    BY <1>7 DEF Restore, CurrentCheckpoint, JournalSound, journalVars, BackupCoversPrefix,
        ConcealedIsCommitted, Concealed, Committed, TypeOK
  <2> QED
    BY <1>0, <1>7, <2>1, CommittedUnchanged DEF Restore, journalVars, apiVars, requestVars, TypeOK,
        OneHolder, Holding, AppendProgress, BackupCoversPrefix, HalfWrittenIsClosed,
        JournalSound, WitnessCurrent, Open
<1>8. CASE UNCHANGED vars
    BY <1>0, <1>8, CommittedUnchanged DEF vars, journalVars, apiVars, requestVars, OneHolder, Holding,
        AppendProgress, BackupCoversPrefix, ConcealedIsCommitted, HalfWrittenIsClosed, Concealed,
        JournalSound, WitnessCurrent, Open
<1> QED
    BY <1>0, <1>1, <1>2, <1>3, <1>4, <1>5, <1>6, <1>7, <1>8 DEF Next

\* No step makes a concealed account live again, restores included: the
\* accepted checkpoint is the current head, so the backup conceals them all.
LEMMA StepKeepsConcealed == Inductive /\ [Next]_vars => Concealed \subseteq Concealed'
<1> SUFFICES ASSUME Inductive, [Next]_vars PROVE Concealed \subseteq Concealed'
    OBVIOUS
<1> USE DEF Inductive
<1>1. ASSUME NEW d \in Ids, RequestDeletion(d) PROVE Concealed \subseteq Concealed'
    BY <1>1 DEF RequestDeletion, Concealed, TypeOK, Rows
<1>2. ASSUME NEW r \in Requests, RequestStep(r) PROVE Concealed \subseteq Concealed'
  <2>1. CASE UNCHANGED row
    BY <2>1 DEF Concealed
  <2>2. CASE row' = [row EXCEPT ![target[r]] = "concealed"]
    BY <2>2 DEF Concealed, TypeOK, Rows
  <2>3. CASE Cancel(r)
    BY <2>3 DEF Cancel, Concealed, TypeOK, Rows
  <2> QED
    BY <1>2, <2>1, <2>2, <2>3 DEF RequestStep, Admit, BeginConfirm, AppendEntry, ReplaceState,
        WriteWitness, AppendFails, Commit, CommitFails
<1>3. CASE Crash
    BY <1>3 DEF Crash, Concealed, TypeOK
<1>4. CASE Stop \/ Start \/ Backup \/ UNCHANGED vars
    BY <1>4 DEF Stop, Start, Backup, vars, Concealed
<1>5. CASE Restore
  <2>1. Concealed \subseteq Committed /\ backup.head = Len(entries) /\ row' = backup.row
    BY <1>5 DEF Restore, CurrentCheckpoint, JournalSound, ConcealedIsCommitted
  <2>2. \A d \in Committed : d \in Ids => backup.row[d] = "concealed"
    BY <1>5, <2>1 DEF Restore, BackupCoversPrefix, Committed, TypeOK
  <2> QED
    BY <2>1, <2>2 DEF Concealed
<1> QED
    BY <1>1, <1>2, <1>3, <1>4, <1>5 DEF Next

\* The inductive invariant, and with it the types, holds in every state.
THEOREM InductiveHolds == Spec => []Inductive
BY InitInductive, NextInductive, PTL DEF Spec

\* Every concealed account is committed in the journal.
THEOREM CommitmentFirst == Spec => []ConcealedIsCommitted
<1>1. Inductive => ConcealedIsCommitted
    BY DEF Inductive
<1> QED
    BY <1>1, InductiveHolds, PTL

\* An open API has a whole journal.
THEOREM HalfWrittenClosed == Spec => []HalfWrittenIsClosed
<1>1. Inductive => HalfWrittenIsClosed
    BY DEF Inductive
<1> QED
    BY <1>1, InductiveHolds, PTL

\* A concealed account never becomes live again.
THEOREM ConcealedForever == Spec => NoResurrection
<1>1. Inductive /\ [Next]_vars => [Concealed \subseteq Concealed']_vars
    BY StepKeepsConcealed
<1> QED
    BY <1>1, InductiveHolds, PTL DEF Spec, NoResurrection

-----------------------------------------------------------------------------
(* Receipts *)

Stands(e) == effects[e].state # "disposed"

\* A receipt is that of a standing effect of its key and intent.
ReceiptIsOfEffect ==
    \A k \in Keys : receipts[k] # None =>
        LET e == receipts[k].effect IN
        /\ e \in DOMAIN effects /\ Stands(e)
        /\ effects[e].key = k /\ effects[e].intent = receipts[k].intent

\* A standing effect is the one the receipt of its key names.
EffectHasReceipt ==
    \A e \in DOMAIN effects : Stands(e) =>
        receipts[effects[e].key] # None /\ receipts[effects[e].key].effect = e

AnswersAreOfEffects == \A a \in answers : a.effect \in DOMAIN effects

ReceiptsInductive ==
    /\ ReceiptsTypeOK
    /\ ReceiptIsOfEffect
    /\ EffectHasReceipt
    /\ AnswersAreOfEffects

-----------------------------------------------------------------------------
(* What a step does to the effects, the receipts and the answers *)

\* The number of an effect that is added.
NextEffect == Len(effects) + 1

\* A commit: the effect of a key without a receipt, and its receipt.
EffectAdded(k, i) ==
    /\ Len(effects) < MaxEffects /\ receipts[k] = None
    /\ effects' = Append(effects, [key |-> k, intent |-> i, state |-> "answered"])
    /\ \E c \in BOOLEAN :
        receipts' = [receipts EXCEPT ![k] = [intent |-> i, effect |-> NextEffect, complete |-> c]]
    /\ answers' \in {answers, answers \cup {[effect |-> NextEffect, shows |-> "first"]}}

\* A later operation on the resource; its disposal takes the receipt along.
EffectChanged(e, st) ==
    /\ Stands(e)
    /\ effects' = [effects EXCEPT ![e].state = st]
    /\ receipts' = IF st = "disposed" THEN [receipts EXCEPT ![effects[e].key] = None] ELSE receipts
    /\ UNCHANGED answers

Shown == {"first", "later", "recovery"}

\* An answer for the effect that the receipt of a key names.
AnsweredFor(k, shows) ==
    /\ receipts[k] # None
    /\ answers' = answers \cup {[effect |-> receipts[k].effect, shows |-> shows]}

\* No effect: a receipt is completed, or a request is answered, or neither.
EffectsKept ==
    /\ UNCHANGED effects
    /\ \/ UNCHANGED receipts
       \/ \E k \in Keys : receipts[k] # None /\ receipts' = [receipts EXCEPT ![k].complete = TRUE]
    /\ \/ UNCHANGED answers
       \/ \E k \in Keys, shows \in Shown : AnsweredFor(k, shows)

EffectLook ==
    \/ EffectsKept
    \/ \E k \in Keys, i \in Intents : EffectAdded(k, i)
    \/ \E e \in DOMAIN effects, st \in {"moved", "rewritten", "gone", "disposed"} : EffectChanged(e, st)

\* What the rebuilt answer of a family can show.
LEMMA RebuiltShows ==
    ASSUME ReceiptsTypeOK, NEW r \in IdempotencyRecord, r.effect \in DOMAIN effects, Rebuilt(r) # None
    PROVE  Rebuilt(r) \in Shown
<1> DEFINE st == effects[r.effect].state
<1> USE DEF Shown, Rebuilt, Rendered, WhileAnswered, WhileThere
<1>1. CASE family \in {"agent_identity", "application_transition", "social_graph", "agent_outreach",
                       "moderation_review", "contact_decision", "invitation", "membership",
                       "proposal_decision"}
    BY <1>1 DEF AgentIdentityReplay, ApplicationTransitionReplay, SocialGraphReplay, AgentOutreachReplay,
        ModerationReviewReplay, ContactDecisionReplay, InvitationReplay, MembershipReplay, ProposalDecisionReplay
<1>2. CASE family \in Recoveries
    BY <1>2 DEF Recoveries, AgentGrantReplay, ApiKeyReplay, MandateReplay
<1>3. CASE family \in {"contact_request", "proposal", "appeal", "application", "verification_submission",
                       "verification_decision", "report", "document", "job"}
    BY <1>3 DEF ContactRequestReplay, ProposalReplay, AppealReplay, ApplicationReplay,
        VerificationSubmissionReplay, VerificationDecisionReplay, ReportReplay, DocumentReplay, JobReplay
<1>4. CASE family \in {"contact_policy", "stored", "post"}
    BY <1>4 DEF ContactPolicyReplay, StoredReplay, PostReplay
<1> QED
    BY <1>1, <1>2, <1>3, <1>4 DEF ReceiptsTypeOK, Families, TwoPhase, Retained, Recoveries

\* idempotency_replay answers for the effect of the receipt.
LEMMA ReplayAnswers ==
    ASSUME ReceiptsTypeOK, ReceiptIsOfEffect, NEW k \in Keys, NEW i \in Intents, Replay(k, i)
    PROVE  \/ UNCHANGED answers
           \/ \E shows \in Shown : AnsweredFor(k, shows)
<1>1. CASE receipts[k] # None /\ receipts[k].intent = i /\ Rebuilt(receipts[k]) # None
    <2>1. receipts[k] \in IdempotencyRecord /\ receipts[k].effect \in DOMAIN effects
        BY <1>1 DEF ReceiptsTypeOK, ReceiptIsOfEffect
    <2>2. Rebuilt(receipts[k]) \in Shown
        BY <1>1, <2>1, RebuiltShows
    <2>3. answers' = answers \cup {[effect |-> receipts[k].effect, shows |-> Rebuilt(receipts[k])]}
        BY <1>1 DEF Replay
    <2> QED
        BY <1>1, <2>2, <2>3 DEF AnsweredFor
<1>2. CASE ~(receipts[k] # None /\ receipts[k].intent = i /\ Rebuilt(receipts[k]) # None)
    BY <1>2 DEF Replay
<1> QED
    BY <1>1, <1>2

LEMMA NextEffectLook ==
    ASSUME ReceiptsTypeOK, ReceiptIsOfEffect, ReceiptsNext
    PROVE  EffectLook /\ UNCHANGED family
<1> DEFINE Goal == EffectLook /\ UNCHANGED family
<1>1. ASSUME NEW k \in Keys, NEW i \in Intents, Retry(k, i)
      PROVE  Goal
    BY <1>1, ReplayAnswers DEF Retry, EffectLook, EffectsKept
<1>2. ASSUME NEW k \in Keys, NEW i \in Intents, NEW s \in Slots, Begin(s, k, i)
      PROVE  Goal
    BY <1>2 DEF Begin, EffectLook, EffectsKept
<1>3. ASSUME NEW s \in Slots, req[s] # None
      PROVE  req[s].key \in Keys /\ req[s].intent \in Intents
    BY <1>3 DEF ReceiptsTypeOK, Request
<1>4. ASSUME NEW s \in Slots, Store(s)
      PROVE  Goal
    BY <1>3, <1>4, ReplayAnswers DEF Store, EffectLook, EffectsKept
<1>5. ASSUME NEW s \in Slots, CommitReceipt(s)
      PROVE  Goal
    <2>1. EffectAdded(req[s].key, req[s].intent) /\ UNCHANGED family
        BY <1>5 DEF CommitReceipt, Unique, NewReceipt, EffectAdded, NextEffect
    <2> QED
        BY <1>3, <1>5, <2>1 DEF CommitReceipt, EffectLook
<1>6. ASSUME NEW s \in Slots, Conflict(s)
      PROVE  Goal
    BY <1>3, <1>6, ReplayAnswers DEF Conflict, EffectLook, EffectsKept
<1>7. ASSUME NEW s \in Slots, Complete(s)
      PROVE  Goal
    <2>1. req[s].key \in Keys
        BY <1>3, <1>7 DEF Complete
    <2>2. answers' = answers \/ AnsweredFor(req[s].key, "first")
        BY <1>7 DEF Complete, AnsweredFor
    <2> QED
        BY <1>7, <2>1, <2>2 DEF Complete, EffectLook, EffectsKept, Shown
<1>8. ASSUME NEW s \in Slots, Abandon(s)
      PROVE  Goal
    BY <1>8 DEF Abandon, EffectLook, EffectsKept
<1>9. ASSUME NEW e \in DOMAIN effects, Move(e) \/ Rewrite(e) \/ Remove(e) \/ Dispose(e)
      PROVE  Goal
    <2>1. ASSUME Move(e)
          PROVE  EffectChanged(e, "moved") /\ UNCHANGED family
        BY <2>1 DEF Move, Becomes, EffectChanged, Stands
    <2>2. ASSUME Remove(e)
          PROVE  EffectChanged(e, "gone") /\ UNCHANGED family
        BY <2>2 DEF Remove, Becomes, EffectChanged, Stands
    <2>3. ASSUME Dispose(e)
          PROVE  EffectChanged(e, "disposed") /\ UNCHANGED family
        BY <2>3 DEF Dispose, Becomes, EffectChanged, Stands
    <2>4. ASSUME Rewrite(e)
          PROVE  EffectChanged(e, "rewritten") /\ UNCHANGED family
        BY <2>4 DEF Rewrite, Becomes, EffectChanged, Stands
    <2> QED
        BY <1>9, <2>1, <2>2, <2>3, <2>4 DEF EffectLook
<1> QED
    BY <1>1, <1>2, <1>4, <1>5, <1>6, <1>7, <1>8, <1>9 DEF ReceiptsNext

-----------------------------------------------------------------------------
(* Preservation *)

\* What EffectAdded writes.
LEMMA AddedRows ==
    ASSUME ReceiptsTypeOK, NEW k \in Keys, NEW i \in Intents, EffectAdded(k, i)
    PROVE  /\ NextEffect \in 1..MaxEffects /\ NextEffect \notin DOMAIN effects
           /\ effects' \in Seq(Effect) /\ Len(effects') <= MaxEffects
           /\ DOMAIN effects' = DOMAIN effects \cup {NextEffect}
           /\ effects'[NextEffect].key = k /\ effects'[NextEffect].intent = i /\ effects'[NextEffect].state = "answered"
           /\ \A d \in DOMAIN effects : effects'[d] = effects[d]
           /\ receipts'[k] \in IdempotencyRecord /\ receipts'[k] # None
           /\ receipts'[k].intent = i /\ receipts'[k].effect = NextEffect
           /\ receipts' \in [Keys -> IdempotencyRecord \cup {None}]
           /\ \A j \in Keys \ {k} : receipts'[j] = receipts[j]
<1> DEFINE new == [key |-> k, intent |-> i, state |-> "answered"]
<1>1. new \in Effect /\ effects \in Seq(Effect) /\ Len(effects) \in Nat /\ DOMAIN effects = 1..Len(effects)
    BY DEF Effect, ReceiptsTypeOK
<1>2. effects' = Append(effects, new) /\ Len(effects) < MaxEffects
    BY DEF EffectAdded
<1>3. /\ effects' \in Seq(Effect) /\ Len(effects') = NextEffect
      /\ effects'[NextEffect] = new /\ \A d \in 1..Len(effects) : effects'[d] = effects[d]
    BY <1>1, <1>2, AppendProperties DEF NextEffect
<1>4. DOMAIN effects' = 1..NextEffect
    BY <1>3
<1>5. NextEffect \in 1..MaxEffects /\ NextEffect \notin DOMAIN effects /\ Len(effects') <= MaxEffects
    BY <1>1, <1>2, <1>3, ReceiptsAssumption DEF NextEffect
<1>6. PICK c \in BOOLEAN : receipts' = [receipts EXCEPT ![k] = [intent |-> i, effect |-> NextEffect, complete |-> c]]
    BY DEF EffectAdded
<1>7. [intent |-> i, effect |-> NextEffect, complete |-> c] \in IdempotencyRecord
    BY <1>5 DEF IdempotencyRecord
<1>8. receipts'[k] = [intent |-> i, effect |-> NextEffect, complete |-> c]
    BY <1>6 DEF ReceiptsTypeOK
<1>9. receipts'[k] # None
    BY <1>7, <1>8, ReceiptsAssumption
<1>10. receipts' \in [Keys -> IdempotencyRecord \cup {None}] /\ \A j \in Keys \ {k} : receipts'[j] = receipts[j]
    BY <1>6, <1>7 DEF ReceiptsTypeOK
<1>11. DOMAIN effects' = DOMAIN effects \cup {NextEffect}
    BY <1>1, <1>4 DEF NextEffect
<1>12. \A d \in DOMAIN effects : effects'[d] = effects[d]
    BY <1>1, <1>3
<1> QED
    BY <1>3, <1>5, <1>7, <1>8, <1>9, <1>10, <1>11, <1>12

\* What EffectChanged writes.
LEMMA ChangedRows ==
    ASSUME ReceiptsTypeOK, NEW e \in DOMAIN effects, NEW st \in {"moved", "rewritten", "gone", "disposed"}, EffectChanged(e, st)
    PROVE  /\ effects' \in Seq(Effect) /\ Len(effects') = Len(effects)
           /\ DOMAIN effects' = DOMAIN effects
           /\ effects'[e].key = effects[e].key /\ effects'[e].intent = effects[e].intent
           /\ effects'[e].state = st
           /\ \A d \in DOMAIN effects \ {e} : effects'[d] = effects[d]
           /\ effects[e].key \in Keys
           /\ receipts' \in [Keys -> IdempotencyRecord \cup {None}]
           /\ st = "disposed" => receipts'[effects[e].key] = None
           /\ \A j \in Keys : (j # effects[e].key \/ st # "disposed") => receipts'[j] = receipts[j]
<1>1. DOMAIN effects = 1..Len(effects) /\ effects[e] \in Effect /\ effects \in Seq(Effect)
    BY DEF ReceiptsTypeOK
<1> DEFINE new == [effects[e] EXCEPT !.state = st]
<1>2. /\ new \in Effect /\ new.key = effects[e].key /\ new.intent = effects[e].intent /\ new.state = st
      /\ effects[e].key \in Keys
    BY <1>1 DEF Effect
<1>3. effects' = [effects EXCEPT ![e] = new]
    BY DEF EffectChanged
<1>4. /\ effects' \in Seq(Effect) /\ Len(effects') = Len(effects)
      /\ \A d \in 1..Len(effects) : effects'[d] = IF d = e THEN new ELSE effects[d]
    BY <1>1, <1>2, <1>3, ExceptSeq
<1>5. /\ receipts' \in [Keys -> IdempotencyRecord \cup {None}]
      /\ st = "disposed" => receipts'[effects[e].key] = None
      /\ \A j \in Keys : (j # effects[e].key \/ st # "disposed") => receipts'[j] = receipts[j]
    BY <1>2 DEF EffectChanged, ReceiptsTypeOK
<1>6. DOMAIN effects' = DOMAIN effects
    BY <1>1, <1>4
<1>7. effects'[e] = new /\ \A d \in DOMAIN effects \ {e} : effects'[d] = effects[d]
    BY <1>1, <1>4
<1> QED
    BY <1>2, <1>4, <1>5, <1>6, <1>7

\* What EffectsKept writes.
LEMMA KeptRows ==
    ASSUME ReceiptsTypeOK, EffectsKept
    PROVE  /\ effects' = effects
           /\ receipts' \in [Keys -> IdempotencyRecord \cup {None}]
           /\ \A k \in Keys :
                /\ receipts[k] = None => receipts'[k] = None
                /\ receipts[k] # None =>
                    /\ receipts'[k] # None
                    /\ receipts'[k].intent = receipts[k].intent /\ receipts'[k].effect = receipts[k].effect
<1>1. CASE UNCHANGED receipts
    BY <1>1 DEF EffectsKept, ReceiptsTypeOK
<1>2. ASSUME NEW k \in Keys, receipts[k] # None, receipts' = [receipts EXCEPT ![k].complete = TRUE]
      PROVE  /\ receipts' \in [Keys -> IdempotencyRecord \cup {None}]
             /\ receipts'[k] \in IdempotencyRecord
             /\ receipts'[k].intent = receipts[k].intent /\ receipts'[k].effect = receipts[k].effect
             /\ \A j \in Keys \ {k} : receipts'[j] = receipts[j]
    <2>1. receipts[k] \in IdempotencyRecord
        BY <1>2 DEF ReceiptsTypeOK
    <2> DEFINE new == [receipts[k] EXCEPT !.complete = TRUE]
    <2>2. /\ new \in IdempotencyRecord
          /\ new.intent = receipts[k].intent /\ new.effect = receipts[k].effect
        BY <2>1 DEF IdempotencyRecord
    <2>3. receipts' = [receipts EXCEPT ![k] = new]
        BY <1>2
    <2> QED
        BY <2>2, <2>3 DEF ReceiptsTypeOK
<1> QED
    BY <1>1, <1>2, ReceiptsAssumption DEF EffectsKept

LEMMA AnswersKeepType ==
    ASSUME ReceiptsTypeOK, ReceiptIsOfEffect, AnswersAreOfEffects, EffectLook
    PROVE  (answers \subseteq Answer)' /\ AnswersAreOfEffects'
<1> DEFINE Goal == (answers \subseteq Answer)' /\ AnswersAreOfEffects'
           Good(a) == a \in Answer /\ a.effect \in DOMAIN effects'
<1>1. ASSUME \A a \in answers' : Good(a)
      PROVE  Goal
    BY <1>1 DEF AnswersAreOfEffects
<1>2. ASSUME DOMAIN effects \subseteq DOMAIN effects'
      PROVE  \A a \in answers : Good(a)
    BY <1>2 DEF AnswersAreOfEffects, ReceiptsTypeOK
<1>3. ASSUME EffectsKept
      PROVE  Goal
    <2>1. \A a \in answers : Good(a)
        BY <1>2, <1>3 DEF EffectsKept
    <2>2. CASE UNCHANGED answers
        BY <1>1, <2>1, <2>2
    <2>3. ASSUME NEW k \in Keys, NEW shows \in Shown, AnsweredFor(k, shows)
          PROVE  Goal
        <3> DEFINE a == [effect |-> receipts[k].effect, shows |-> shows]
        <3>1. receipts[k] \in IdempotencyRecord /\ receipts[k].effect \in DOMAIN effects
            BY <2>3 DEF AnsweredFor, ReceiptIsOfEffect, ReceiptsTypeOK
        <3>2. Good(a)
            BY <1>3, <2>3, <3>1 DEF Answer, Shown, IdempotencyRecord, EffectsKept
        <3> QED
            BY <1>1, <2>1, <2>3, <3>2 DEF AnsweredFor
    <2> QED
        BY <1>3, <2>2, <2>3 DEF EffectsKept
<1>4. ASSUME NEW k \in Keys, NEW i \in Intents, EffectAdded(k, i)
      PROVE  Goal
    <2> DEFINE a == [effect |-> NextEffect, shows |-> "first"]
    <2>4. NextEffect \in 1..MaxEffects /\ DOMAIN effects' = DOMAIN effects \cup {NextEffect}
        BY <1>4, AddedRows
    <2>1. \A b \in answers : Good(b)
        BY <1>2, <2>4
    <2>2. Good(a)
        BY <2>4 DEF Answer
    <2>3. \A b \in answers' : b \in answers \/ b = a
        BY <1>4 DEF EffectAdded
    <2> QED
        BY <1>1, <2>1, <2>2, <2>3
<1>5. ASSUME NEW e \in DOMAIN effects, NEW st \in {"moved", "rewritten", "gone", "disposed"}, EffectChanged(e, st)
      PROVE  Goal
    <2>1. \A a \in answers : Good(a)
        BY <1>2, <1>5, ChangedRows
    <2> QED
        BY <1>1, <1>5, <2>1 DEF EffectChanged
<1> QED
    BY <1>3, <1>4, <1>5 DEF EffectLook

\* A key has a receipt exactly while an effect of it stands.
LEMMA ReceiptsMatch ==
    ASSUME ReceiptsTypeOK, ReceiptIsOfEffect, EffectHasReceipt, EffectLook
    PROVE  ReceiptIsOfEffect' /\ EffectHasReceipt'
<1> DEFINE Goal == ReceiptIsOfEffect' /\ EffectHasReceipt'
<1>0. \A d \in DOMAIN effects : effects[d].key \in Keys
    <2>1. \A d \in DOMAIN effects : effects[d] \in Effect
        BY DEF ReceiptsTypeOK
    <2> QED
        BY <2>1 DEF Effect
<1>1. ASSUME EffectsKept
      PROVE  Goal
    BY <1>0, <1>1, KeptRows DEF ReceiptIsOfEffect, EffectHasReceipt, Stands
<1>2. ASSUME NEW k \in Keys, NEW i \in Intents, EffectAdded(k, i)
      PROVE  Goal
    <2>1. receipts[k] = None
        BY <1>2 DEF EffectAdded
    <2>4. /\ NextEffect \notin DOMAIN effects /\ DOMAIN effects' = DOMAIN effects \cup {NextEffect}
          /\ effects'[NextEffect].key = k /\ effects'[NextEffect].intent = i /\ effects'[NextEffect].state = "answered"
          /\ \A d \in DOMAIN effects : effects'[d] = effects[d]
          /\ receipts'[k] # None /\ receipts'[k].intent = i /\ receipts'[k].effect = NextEffect
          /\ \A j \in Keys \ {k} : receipts'[j] = receipts[j]
        BY <1>2, AddedRows
    <2>2. ReceiptIsOfEffect'
        BY <2>4 DEF ReceiptIsOfEffect, Stands
    <2>3. EffectHasReceipt'
        BY <1>0, <2>1, <2>4 DEF EffectHasReceipt, Stands
    <2> QED
        BY <2>2, <2>3
<1>3. ASSUME NEW e \in DOMAIN effects, NEW st \in {"moved", "rewritten", "gone", "disposed"}, EffectChanged(e, st)
      PROVE  Goal
    <2>1. receipts[effects[e].key] # None /\ receipts[effects[e].key].effect = e
        BY <1>3 DEF EffectChanged, EffectHasReceipt
    <2>2. ReceiptIsOfEffect'
        BY <1>3, <2>1, ChangedRows DEF ReceiptIsOfEffect, Stands
    <2>3. EffectHasReceipt'
        BY <1>0, <1>3, <2>1, ChangedRows DEF EffectHasReceipt, Stands
    <2> QED
        BY <2>2, <2>3
<1> QED
    BY <1>1, <1>2, <1>3 DEF EffectLook

\* The requests under way.
LEMMA RequestsKeepType ==
    ASSUME ReceiptsTypeOK, ReceiptsNext
    PROVE  req' \in [Slots -> Request \cup {None}]
<1> DEFINE Goal == req' \in [Slots -> Request \cup {None}]
<1> USE DEF ReceiptsTypeOK
<1>1. ASSUME NEW s \in Slots, NEW q \in Request \cup {None}, req' = [req EXCEPT ![s] = q]
      PROVE  Goal
    BY <1>1
<1>2. ASSUME NEW k \in Keys, NEW i \in Intents, NEW s \in Slots, Begin(s, k, i)
      PROVE  Goal
    BY <1>1, <1>2, ReceiptsAssumption DEF Begin, Request
<1>3. ASSUME NEW s \in Slots, Store(s)
      PROVE  Goal
    <2>1. [req[s] EXCEPT !.stage = "commit"] \in Request
        BY <1>3 DEF Store, Request
    <2> QED
        BY <1>1, <1>3, <2>1 DEF Store, Ended
<1>4. ASSUME NEW s \in Slots, CommitReceipt(s)
      PROVE  Goal
    <2>0. Len(effects) + 1 \in 0..MaxEffects
        BY <1>4, ReceiptsAssumption DEF CommitReceipt
    <2>1. [req[s] EXCEPT !.stage = "complete", !.effect = Len(effects) + 1] \in Request
        BY <1>4, <2>0 DEF CommitReceipt, Request
    <2> QED
        BY <1>1, <1>4, <2>1 DEF CommitReceipt, Ended
<1>5. ASSUME NEW s \in Slots, Conflict(s) \/ Complete(s) \/ Abandon(s)
      PROVE  Goal
    BY <1>1, <1>5 DEF Conflict, Complete, Abandon, Ended
<1>6. ASSUME UNCHANGED req
      PROVE  Goal
    BY <1>6
<1> QED
    BY <1>2, <1>3, <1>4, <1>5, <1>6 DEF ReceiptsNext, Retry, Move, Rewrite, Remove, Dispose

LEMMA InductiveInit == ReceiptsInit => ReceiptsInductive
<1> SUFFICES ASSUME ReceiptsInit PROVE ReceiptsInductive
    OBVIOUS
<1>1. ReceiptsTypeOK
    BY ReceiptsAssumption DEF ReceiptsInit, ReceiptsTypeOK
<1> QED
    BY <1>1 DEF ReceiptsInit, ReceiptsInductive, ReceiptIsOfEffect, EffectHasReceipt, AnswersAreOfEffects

LEMMA InductiveStep == ReceiptsInductive /\ [ReceiptsNext]_receiptVars => ReceiptsInductive'
<1> SUFFICES ASSUME ReceiptsInductive, [ReceiptsNext]_receiptVars PROVE ReceiptsInductive'
    OBVIOUS
<1>1. ASSUME ReceiptsNext
      PROVE  ReceiptsInductive'
    <2>1. EffectLook /\ UNCHANGED family
        BY <1>1, NextEffectLook DEF ReceiptsInductive
    <2>2. (answers \subseteq Answer)' /\ AnswersAreOfEffects'
        BY <2>1, AnswersKeepType DEF ReceiptsInductive
    <2>3. ReceiptIsOfEffect' /\ EffectHasReceipt'
        BY <2>1, ReceiptsMatch DEF ReceiptsInductive
    <2>4. req' \in [Slots -> Request \cup {None}]
        BY <1>1, RequestsKeepType DEF ReceiptsInductive
    <2>5. /\ receipts' \in [Keys -> IdempotencyRecord \cup {None}]
          /\ effects' \in Seq(Effect) /\ Len(effects') <= MaxEffects
        <3>1. ReceiptsTypeOK
            BY DEF ReceiptsInductive
        <3>2. CASE EffectsKept
            BY <3>1, <3>2, KeptRows DEF ReceiptsTypeOK
        <3>3. ASSUME NEW k \in Keys, NEW i \in Intents, EffectAdded(k, i)
              PROVE  <2>5!1 /\ <2>5!2
            BY <3>1, <3>3, AddedRows
        <3>4. ASSUME NEW e \in DOMAIN effects, NEW st \in {"moved", "rewritten", "gone", "disposed"}, EffectChanged(e, st)
              PROVE  <2>5!1 /\ <2>5!2
            BY <3>1, <3>4, ChangedRows DEF ReceiptsTypeOK
        <3> QED
            BY <2>1, <3>2, <3>3, <3>4 DEF EffectLook
    <2>6. family' \in Families
        BY <2>1 DEF ReceiptsInductive, ReceiptsTypeOK
    <2>7. ReceiptsTypeOK'
        BY <2>2, <2>4, <2>5, <2>6 DEF ReceiptsTypeOK
    <2> QED
        BY <2>2, <2>3, <2>7 DEF ReceiptsInductive
<1>2. CASE UNCHANGED receiptVars
    BY <1>2 DEF ReceiptsInductive, ReceiptsTypeOK, ReceiptIsOfEffect, EffectHasReceipt, AnswersAreOfEffects,
        Stands, receiptVars
<1> QED
    BY <1>1, <1>2

LEMMA ReceiptsInductiveHolds == ReceiptsSpec => []ReceiptsInductive
    BY InductiveInit, InductiveStep, PTL DEF ReceiptsSpec

-----------------------------------------------------------------------------
(* Theorems *)

\* Every reachable state is well typed: at most MaxEffects effects, receipts
\* that name one of them, requests that are in one of their stages.
THEOREM TypeCorrect == ReceiptsSpec => []ReceiptsTypeOK
<1>1. ReceiptsInductive => ReceiptsTypeOK
    BY DEF ReceiptsInductive
<1> QED
    BY <1>1, ReceiptsInductiveHolds, PTL

-----------------------------------------------------------------------------
(* The refinement *)

\* The abstract state, read from the receipts.
Holder(k) == IF receipts[k] = None THEN None ELSE receipts[k].intent
Standing == [k \in Keys |-> StandingIntent(k)]
Told == {<<effects[a.effect].key, effects[a.effect].intent>> : a \in answers}
Mapped == \A k \in Keys : StandingIntent(k) = Holder(k)

\* One effect at most stands under a key, and its receipt has its intent.
LEMMA StandingIsHeld == ReceiptsInductive => Mapped
<1> SUFFICES ASSUME ReceiptsInductive, NEW k \in Keys PROVE StandingIntent(k) = Holder(k)
    BY DEF Mapped
<1> USE DEF ReceiptsInductive
<1>1. CASE receipts[k] = None
    <2>1. StandingEffects(k) = {}
        BY <1>1 DEF StandingEffects, EffectHasReceipt, Stands
    <2> QED
        BY <1>1, <2>1 DEF StandingIntent, Holder
<1>2. CASE receipts[k] # None
    <2> DEFINE e == receipts[k].effect
    <2>1. e \in DOMAIN effects /\ Stands(e) /\ effects[e].key = k /\ effects[e].intent = receipts[k].intent
        BY <1>2 DEF ReceiptIsOfEffect
    <2>2. \A d \in StandingEffects(k) : d = e
        BY DEF StandingEffects, EffectHasReceipt, Stands
    <2>3. e \in StandingEffects(k)
        BY <2>1 DEF StandingEffects, Stands
    <2> HIDE DEF e
    <2>4. StandingEffects(k) = {e}
        BY <2>2, <2>3
    <2>5. Cardinality({e}) = 1 /\ (CHOOSE d \in {e} : TRUE) = e
        BY FS_Singleton
    <2>6. StandingIntent(k) = effects[e].intent
        BY <2>4, <2>5 DEF StandingIntent
    <2> QED
        BY <1>2, <2>1, <2>6 DEF Holder
<1> QED
    BY <1>1, <1>2

\* What was told stays told: an effect keeps its key and its intent.
LEMMA ToldGrows ==
    ASSUME AnswersAreOfEffects, NEW new,
           \A d \in DOMAIN effects : effects'[d].key = effects[d].key /\ effects'[d].intent = effects[d].intent,
           answers' = answers \cup new
    PROVE  Told' = Told \cup {<<effects'[a.effect].key, effects'[a.effect].intent>> : a \in new}
<1>1. \A a \in answers :
        <<effects'[a.effect].key, effects'[a.effect].intent>> = <<effects[a.effect].key, effects[a.effect].intent>>
    BY DEF AnswersAreOfEffects
<1> QED
    BY <1>1 DEF Told

\* A commit applies, a disposal forgets, an answer for a receipt tells; every
\* other step is a stutter.
LEMMA StepRefines ==
    ASSUME ReceiptsInductive, Mapped, Mapped', EffectLook
    PROVE  Abstract!Next \/ UNCHANGED <<Standing, Told>>
<1> DEFINE Goal == Abstract!Next \/ UNCHANGED <<Standing, Told>>
<1>1. Standing = [k \in Keys |-> Holder(k)] /\ Standing' = [k \in Keys |-> Holder(k)']
    BY DEF Standing, Mapped
<1>2. ReceiptsTypeOK /\ ReceiptIsOfEffect /\ EffectHasReceipt /\ AnswersAreOfEffects
    BY DEF ReceiptsInductive
<1>3. ASSUME NEW k \in Keys, receipts[k] # None
      PROVE  receipts[k].intent \in Intents /\ Holder(k) # None /\ Holder(k) = receipts[k].intent
    BY <1>2, <1>3, ReceiptsAssumption DEF ReceiptsTypeOK, IdempotencyRecord, Holder
<1>4. ASSUME EffectsKept
      PROVE  Goal
    <2>1. effects' = effects /\ \A k \in Keys : Holder(k)' = Holder(k)
        BY <1>2, <1>4, KeptRows DEF Holder
    <2>2. UNCHANGED Standing
        BY <1>1, <2>1
    <2>3. ASSUME UNCHANGED answers
          PROVE  Goal
        BY <2>1, <2>2, <2>3 DEF Told
    <2>4. ASSUME NEW k \in Keys, NEW shows \in Shown, AnsweredFor(k, shows)
          PROVE  Goal
        <3> DEFINE a == [effect |-> receipts[k].effect, shows |-> shows]
        <3>1. receipts[k] # None /\ answers' = answers \cup {a}
            BY <2>4 DEF AnsweredFor
        <3>2. Told' = Told \cup {<<effects'[b.effect].key, effects'[b.effect].intent>> : b \in {a}}
            BY <1>2, <2>1, <3>1, ToldGrows
        <3>3. effects'[a.effect].key = k /\ effects'[a.effect].intent = Holder(k)
            BY <1>2, <1>3, <2>1, <3>1 DEF ReceiptIsOfEffect
        <3>4. Told' = Told \cup {<<k, Standing[k]>>} /\ Standing[k] # None
            BY <1>1, <1>3, <3>1, <3>2, <3>3
        <3>5. Abstract!Tell(k)
            BY <2>2, <3>4 DEF Abstract!Tell, Standing, Told
        <3> QED
            BY <3>5 DEF Abstract!Next
    <2> QED
        BY <1>4, <2>3, <2>4 DEF EffectsKept
<1>5. ASSUME NEW k \in Keys, NEW i \in Intents, EffectAdded(k, i)
      PROVE  Goal
    <2> DEFINE a == [effect |-> NextEffect, shows |-> "first"]
    <2>6. ReceiptsTypeOK
        BY <1>2
    <2>1. /\ NextEffect \notin DOMAIN effects /\ DOMAIN effects' = DOMAIN effects \cup {NextEffect}
          /\ effects'[NextEffect].key = k /\ effects'[NextEffect].intent = i /\ effects'[NextEffect].state = "answered"
          /\ \A d \in DOMAIN effects : effects'[d] = effects[d]
          /\ receipts'[k] # None /\ receipts'[k].intent = i /\ receipts'[k].effect = NextEffect
          /\ \A j \in Keys \ {k} : receipts'[j] = receipts[j]
        BY <1>5, <2>6, AddedRows
    <2>2. Standing[k] = None
        BY <1>1, <1>5 DEF EffectAdded, Holder
    <2>3. Standing' = [Standing EXCEPT ![k] = i]
        BY <1>1, <2>1 DEF Holder
    <2>4. Told' \in {Told, Told \cup {<<k, i>>}}
        <3>1. CASE answers' = answers
            <4>1. answers' = answers \cup {}
                BY <3>1
            <4>2. Told' = Told \cup {<<effects'[b.effect].key, effects'[b.effect].intent>> : b \in {}}
                BY <1>2, <2>1, <4>1, ToldGrows
            <4> QED
                BY <4>2
        <3>2. CASE answers' = answers \cup {a}
            <4>1. Told' = Told \cup {<<effects'[b.effect].key, effects'[b.effect].intent>> : b \in {a}}
                BY <1>2, <2>1, <3>2, ToldGrows
            <4> QED
                BY <2>1, <4>1
        <3> QED
            BY <1>5, <3>1, <3>2 DEF EffectAdded
    <2>5. Abstract!Apply(k, i)
        BY <2>2, <2>3, <2>4 DEF Abstract!Apply, Standing, Told
    <2> QED
        BY <2>5 DEF Abstract!Next
<1>6. ASSUME NEW e \in DOMAIN effects, NEW st \in {"moved", "rewritten", "gone", "disposed"}, EffectChanged(e, st)
      PROVE  Goal
    <2> DEFINE k == effects[e].key
    <2>1. /\ \A d \in DOMAIN effects : effects'[d].key = effects[d].key /\ effects'[d].intent = effects[d].intent
          /\ k \in Keys
          /\ st = "disposed" => receipts'[k] = None
          /\ \A j \in Keys : (j # k \/ st # "disposed") => receipts'[j] = receipts[j]
        BY <1>2, <1>6, ChangedRows
    <2>2. receipts[k] # None
        BY <1>2, <1>6 DEF EffectChanged, EffectHasReceipt
    <2>3. answers' = answers \cup {}
        BY <1>6 DEF EffectChanged
    <2>4. Told' = Told \cup {<<effects'[b.effect].key, effects'[b.effect].intent>> : b \in {}}
        BY <1>2, <2>1, <2>3, ToldGrows
    <2>5. Told' = Told
        BY <2>4
    <2> HIDE DEF k
    <2>6. CASE st = "disposed"
        <3>1. Standing[k] # None
            BY <1>1, <1>3, <2>1, <2>2
        <3>2. Standing' = [Standing EXCEPT ![k] = None]
            BY <1>1, <2>1, <2>6 DEF Holder
        <3>3. Abstract!Forget(k)
            BY <2>5, <3>1, <3>2 DEF Abstract!Forget, Standing, Told
        <3> QED
            BY <2>1, <3>3 DEF Abstract!Next
    <2>7. CASE st # "disposed"
        <3>1. \A j \in Keys : Holder(j)' = Holder(j)
            BY <2>1, <2>7 DEF Holder
        <3> QED
            BY <1>1, <2>5, <3>1
    <2> QED
        BY <2>6, <2>7
<1> QED
    BY <1>4, <1>5, <1>6 DEF EffectLook

\* The receipts implement ExactlyOnce for any number of keys, intents and
\* requests that race, are lost between their commits or are retried: under a
\* key one effect takes place, and only its request is told a success
\* (idempotency_replay, store_idempotency, uq_idempotency_owner_key).
THEOREM ReceiptsAreExactlyOnce == ReceiptsSpec => KeyIsExactlyOnce
<1>1. ReceiptsInit => Abstract!Init
    <2> SUFFICES ASSUME ReceiptsInit PROVE Abstract!Init
        OBVIOUS
    <2>1. Mapped
        BY InductiveInit, StandingIsHeld
    <2>2. Standing = [k \in Keys |-> None]
        BY <2>1 DEF Standing, Mapped, Holder, ReceiptsInit
    <2>3. Told = {}
        BY DEF Told, ReceiptsInit
    <2> QED
        BY <2>2, <2>3 DEF Abstract!Init, Standing, Told
<1>2. ReceiptsInductive /\ Mapped /\ Mapped' /\ [ReceiptsNext]_receiptVars => [Abstract!Next]_<<Standing, Told>>
    <2> SUFFICES ASSUME ReceiptsInductive, Mapped, Mapped', [ReceiptsNext]_receiptVars
                 PROVE  Abstract!Next \/ UNCHANGED <<Standing, Told>>
        OBVIOUS
    <2>1. CASE ReceiptsNext
        <3>1. EffectLook
            BY <2>1, NextEffectLook DEF ReceiptsInductive
        <3> QED
            BY <3>1, StepRefines
    <2>2. CASE UNCHANGED receiptVars
        BY <2>2 DEF receiptVars, Standing, Told, StandingIntent, StandingEffects
    <2> QED
        BY <2>1, <2>2
<1>3. ReceiptsSpec => []Mapped
    BY ReceiptsInductiveHolds, StandingIsHeld, PTL
<1>4. ReceiptsSpec => Abstract!Init /\ [][Abstract!Next]_<<Standing, Told>>
    BY <1>1, <1>2, <1>3, ReceiptsInductiveHolds, PTL DEF ReceiptsSpec
<1> QED
    BY <1>4, PTL DEF KeyIsExactlyOnce, Abstract!Spec, Standing, Told

-----------------------------------------------------------------------------
(* Contacts: rows *)

\* An update in place of one row.
LEMMA RowUpdate ==
    ASSUME NEW S, NEW q \in Seq(S), NEW i \in DOMAIN q, NEW e \in S, NEW u, u = [q EXCEPT ![i] = e]
    PROVE  /\ u \in Seq(S) /\ Len(u) = Len(q) /\ DOMAIN u = DOMAIN q
           /\ u[i] = e /\ \A j \in DOMAIN q \ {i} : u[j] = q[j]
<1>1. DOMAIN q = 1..Len(q) /\ i \in 1..Len(q)
    OBVIOUS
<1>2. u \in Seq(S) /\ Len(u) = Len(q) /\ \A j \in 1..Len(q) : u[j] = IF j = i THEN e ELSE q[j]
    BY <1>1, ExceptSeq
<1> QED
    BY <1>1, <1>2

\* A row added at the end.
LEMMA RowAdded ==
    ASSUME NEW S, NEW q \in Seq(S), NEW e \in S, NEW u, u = Append(q, e)
    PROVE  /\ u \in Seq(S) /\ Len(u) = Len(q) + 1
           /\ DOMAIN u = DOMAIN q \cup {Len(q) + 1} /\ Len(q) + 1 \notin DOMAIN q
           /\ u[Len(q) + 1] = e /\ \A j \in DOMAIN q : u[j] = q[j]
<1>1. DOMAIN q = 1..Len(q) /\ Len(q) \in Nat
    OBVIOUS
<1>2. /\ u \in Seq(S) /\ Len(u) = Len(q) + 1
      /\ u[Len(q) + 1] = e /\ \A j \in 1..Len(q) : u[j] = q[j]
    BY AppendProperties
<1>3. DOMAIN u = 1..(Len(q) + 1)
    BY <1>2
<1> QED
    BY <1>1, <1>2, <1>3

\* Every row written anew.
LEMMA RowsMapped ==
    ASSUME NEW S, NEW q \in Seq(S), NEW u, DOMAIN u = DOMAIN q, u = [i \in DOMAIN q |-> u[i]],
           \A i \in DOMAIN q : u[i] \in S
    PROVE  u \in Seq(S) /\ Len(u) = Len(q)
<1>1. DOMAIN q = 1..Len(q) /\ Len(q) \in Nat
    OBVIOUS
<1>2. u \in [1..Len(q) -> S]
    BY <1>1
<1> QED
    BY <1>1, <1>2, LenProperties, IsASeq

-----------------------------------------------------------------------------
(* Contacts: the invariant *)

\* A placement that holds the recipient's policy row found one, and no block.
HoldsPolicy(s) == Runs(s, "place") /\ contactTx[s].at = "policy"

PlacementsAreChecked ==
    \A s \in ContactSlots : HoldsPolicy(s) =>
        /\ policy[contactTx[s].to] # Absent
        /\ <<contactTx[s].to, contactTx[s].by>> \notin contactBlocks

\* A decision holds a pending row, and holds it alone.
DecisionHolds(s) ==
    Runs(s, "decide") =>
        /\ contactTx[s].row \in DOMAIN rows
        /\ rows[contactTx[s].row].status = "pending"
        /\ \A t \in ContactSlots : Runs(t, "decide") /\ contactTx[t].row = contactTx[s].row => t = s

DecisionsAreLocked == \A s \in ContactSlots : DecisionHolds(s)

ContactsInductive ==
    /\ ContactsTypeOK
    /\ PlacementsAreChecked
    /\ DecisionsAreLocked
    /\ QuotaCountsRequests

-----------------------------------------------------------------------------
(* Contacts: what a step does *)

\* Requests stay, and one that is decided or locked keeps its status.
ContactRowsLook ==
    /\ rows' \in Seq(ContactRequest) /\ Len(rows) <= Len(rows')
    /\ \A i \in DOMAIN rows : i \in DOMAIN rows'
    /\ DecisionsStand
    /\ \A s \in ContactSlots : contactTx'[s] = contactTx[s] /\ Runs(s, "decide") =>
        rows'[contactTx[s].row].status = rows[contactTx[s].row].status

\* What a transaction has checked and locked when it gets where it is.
ContactAdmitted(s, t) ==
    \/ t.op = "place" /\ t.at = "admitted"
    \/ /\ t.op = "place" /\ t.at = "policy"
       /\ policy[t.to] # Absent /\ <<t.to, t.by>> \notin contactBlocks
    \/ /\ t.op = "decide" /\ t.row \in DOMAIN rows /\ rows[t.row].status = "pending"
       /\ ~RowLocked(t.row)

ContactTxLook ==
    /\ contactTx' \in [ContactSlots -> Transaction \cup {Absent}]
    /\ \A s \in ContactSlots :
        \/ contactTx'[s] = contactTx[s]
        \/ contactTx'[s] = Absent
        \/ /\ UNCHANGED <<policy, rows, contactBlocks>>
           /\ ContactAdmitted(s, contactTx'[s])
           /\ \A t \in ContactSlots \ {s} : contactTx'[t] = contactTx[t]

\* Policies stay, and a block waits for whoever holds the policy.
ContactBlocksLook ==
    /\ policy' \in [Owners -> ContactPolicy \cup {Absent}]
    /\ \A o \in Owners : policy[o] # Absent => policy'[o] # Absent
    /\ \/ contactBlocks' = contactBlocks
       \/ \E u, v \in Owners :
            /\ contactBlocks' = contactBlocks \cup {<<u, v>>}
            /\ \A s \in ContactSlots : HoldsPolicy(s) => contactTx[s].to # u

\* The day's requests: none is added, one is, or the day ends.
SameDay ==
    /\ DOMAIN rows' = DOMAIN rows
    /\ \A i \in DOMAIN rows :
        rows'[i].today = rows[i].today /\ rows'[i].from = rows[i].from /\ rows'[i].to = rows[i].to
    /\ UNCHANGED <<sent, received>>

PlacedToday(x, y, n) ==
    /\ n \notin DOMAIN rows /\ DOMAIN rows' = DOMAIN rows \cup {n}
    /\ \A i \in DOMAIN rows :
        rows'[i].today = rows[i].today /\ rows'[i].from = rows[i].from /\ rows'[i].to = rows[i].to
    /\ rows'[n].today /\ rows'[n].from = x /\ rows'[n].to = y
    /\ sent' = [sent EXCEPT ![x] = @ + 1] /\ received' = [received EXCEPT ![y] = @ + 1]

DayEnds ==
    /\ \A i \in DOMAIN rows' : ~rows'[i].today
    /\ sent' = [o \in Owners |-> 0] /\ received' = [o \in Owners |-> 0]

QuotaLook ==
    \/ SameDay
    \/ \E x, y \in Owners, n \in Nat : PlacedToday(x, y, n)
    \/ DayEnds

ContactsLook == ContactRowsLook /\ ContactTxLook /\ ContactBlocksLook /\ QuotaLook

-----------------------------------------------------------------------------
(* Contacts: the looks keep the invariant *)

LEMMA PlacementsKept ==
    ASSUME ContactsInductive, ContactsLook
    PROVE  PlacementsAreChecked'
<1> USE DEF ContactsInductive, ContactsLook
<1> SUFFICES ASSUME NEW s \in ContactSlots, HoldsPolicy(s)'
             PROVE  /\ policy'[contactTx'[s].to] # Absent
                    /\ <<contactTx'[s].to, contactTx'[s].by>> \notin contactBlocks'
    BY DEF PlacementsAreChecked
<1>1. contactTx'[s] \in Transaction /\ contactTx'[s].op = "place"
    BY DEF ContactTxLook, HoldsPolicy, Runs
<1>2. contactTx'[s].to \in Owners
    BY <1>1 DEF Transaction
<1>3. CASE contactTx'[s] = contactTx[s]
  <2>1. HoldsPolicy(s)
    BY <1>3 DEF HoldsPolicy, Runs
  <2>2. policy[contactTx[s].to] # Absent /\ <<contactTx[s].to, contactTx[s].by>> \notin contactBlocks
    BY <2>1 DEF PlacementsAreChecked
  <2> QED
    BY <1>2, <1>3, <2>1, <2>2 DEF ContactBlocksLook
<1>4. CASE UNCHANGED <<policy, rows, contactBlocks>> /\ ContactAdmitted(s, contactTx'[s])
    BY <1>4 DEF ContactAdmitted, HoldsPolicy, Runs
<1> QED
    BY <1>3, <1>4 DEF ContactTxLook, HoldsPolicy, Runs

LEMMA DecisionsKept ==
    ASSUME ContactsInductive, ContactsLook
    PROVE  DecisionsAreLocked'
<1> USE DEF ContactsInductive, ContactsLook
<1>1. ASSUME NEW s \in ContactSlots, contactTx'[s] = contactTx[s], Runs(s, "decide")
      PROVE  contactTx'[s].row \in DOMAIN rows' /\ rows'[contactTx'[s].row].status = "pending"
    BY <1>1 DEF ContactRowsLook, DecisionsAreLocked, DecisionHolds
<1>2. CASE \A s \in ContactSlots : contactTx'[s] = contactTx[s] \/ contactTx'[s] = Absent
    BY <1>1, <1>2 DEF DecisionsAreLocked, DecisionHolds, Runs
<1>3. ASSUME NEW s \in ContactSlots, UNCHANGED <<policy, rows, contactBlocks>>,
             ContactAdmitted(s, contactTx'[s]), \A t \in ContactSlots \ {s} : contactTx'[t] = contactTx[t]
      PROVE  DecisionsAreLocked'
  <2>1. DecisionHolds(s)'
    BY <1>3 DEF ContactAdmitted, DecisionHolds, Runs, RowLocked
  <2>2. ASSUME NEW t \in ContactSlots, t # s PROVE DecisionHolds(t)'
    BY <1>3, <2>1, <2>2 DEF DecisionsAreLocked, DecisionHolds, Runs
  <2> QED
    BY <2>1, <2>2 DEF DecisionsAreLocked
<1> QED
    BY <1>2, <1>3 DEF ContactTxLook

\* One more element.
LEMMA OneMore ==
    ASSUME NEW S, IsFiniteSet(S), NEW n, n \notin S
    PROVE  Cardinality(S \cup {n}) = Cardinality(S) + 1
BY FS_AddElement

SentToday(o) == {i \in DOMAIN rows : rows[i].today /\ rows[i].from = o}
ReceivedToday(o) == {i \in DOMAIN rows : rows[i].today /\ rows[i].to = o}

LEMMA TodayIsFinite ==
    ASSUME ContactsTypeOK, NEW o
    PROVE  IsFiniteSet(SentToday(o)) /\ IsFiniteSet(ReceivedToday(o))
<1>1. DOMAIN rows = 1..Len(rows) /\ Len(rows) \in Nat
    BY DEF ContactsTypeOK
<1>2. IsFiniteSet(DOMAIN rows)
    BY <1>1, FS_Interval
<1> QED
    BY <1>2, FS_Subset DEF SentToday, ReceivedToday

LEMMA QuotaKept ==
    ASSUME ContactsInductive, ContactsLook
    PROVE  QuotaCountsRequests'
<1> USE DEF ContactsInductive, ContactsLook
<1>1. sent \in [Owners -> Nat] /\ received \in [Owners -> Nat]
    BY ContactsAssumption DEF ContactsTypeOK, ContactsAssumption
<1>2. ASSUME NEW o \in Owners
      PROVE  sent[o] = Cardinality(SentToday(o)) /\ received[o] = Cardinality(ReceivedToday(o))
    BY DEF QuotaCountsRequests, SentToday, ReceivedToday
<1> SUFFICES ASSUME NEW o \in Owners
             PROVE  sent'[o] = Cardinality(SentToday(o)') /\ received'[o] = Cardinality(ReceivedToday(o)')
    BY DEF QuotaCountsRequests, SentToday, ReceivedToday
<1>3. CASE SameDay
  <2>1. SentToday(o)' = SentToday(o) /\ ReceivedToday(o)' = ReceivedToday(o)
    BY <1>3 DEF SameDay, SentToday, ReceivedToday
  <2> QED
    BY <1>2, <1>3, <2>1 DEF SameDay
<1>4. ASSUME NEW x \in Owners, NEW y \in Owners, NEW n \in Nat, PlacedToday(x, y, n)
      PROVE  sent'[o] = Cardinality(SentToday(o)') /\ received'[o] = Cardinality(ReceivedToday(o)')
  <2>1. SentToday(o)' = IF o = x THEN SentToday(o) \cup {n} ELSE SentToday(o)
    BY <1>4 DEF PlacedToday, SentToday
  <2>2. ReceivedToday(o)' = IF o = y THEN ReceivedToday(o) \cup {n} ELSE ReceivedToday(o)
    BY <1>4 DEF PlacedToday, ReceivedToday
  <2>3. n \notin SentToday(o) /\ n \notin ReceivedToday(o)
    BY <1>4 DEF PlacedToday, SentToday, ReceivedToday
  <2>4. /\ Cardinality(SentToday(o) \cup {n}) = Cardinality(SentToday(o)) + 1
        /\ Cardinality(ReceivedToday(o) \cup {n}) = Cardinality(ReceivedToday(o)) + 1
    BY <2>3, TodayIsFinite, OneMore
  <2>5. sent'[o] = IF o = x THEN sent[o] + 1 ELSE sent[o]
    BY <1>1, <1>4 DEF PlacedToday
  <2>6. received'[o] = IF o = y THEN received[o] + 1 ELSE received[o]
    BY <1>1, <1>4 DEF PlacedToday
  <2> QED
    BY <1>2, <2>1, <2>2, <2>4, <2>5, <2>6
<1>5. CASE DayEnds
  <2>1. SentToday(o)' = {} /\ ReceivedToday(o)' = {}
    BY <1>5 DEF DayEnds, SentToday, ReceivedToday
  <2> QED
    BY <1>5, <2>1, FS_EmptySet DEF DayEnds
<1> QED
    BY <1>3, <1>4, <1>5 DEF QuotaLook

-----------------------------------------------------------------------------
(* Contacts: what each handler writes *)

LEMMA ContactSlotEnds ==
    ASSUME ContactsTypeOK, NEW s \in ContactSlots, ContactEnded(s)
    PROVE  /\ ContactTxLook /\ contactTx'[s] = Absent
           /\ \A t \in ContactSlots \ {s} : contactTx'[t] = contactTx[t]
BY DEF ContactsTypeOK, ContactEnded, ContactTxLook

LEMMA ContactSlotGoesOn ==
    ASSUME ContactsTypeOK, NEW s \in ContactSlots, NEW t \in Transaction,
           contactTx' = [contactTx EXCEPT ![s] = t],
           ContactAdmitted(s, t), UNCHANGED <<policy, rows, contactBlocks>>
    PROVE  ContactTxLook
BY DEF ContactsTypeOK, ContactTxLook

\* A step that leaves requests, policies and blocks alone.
LEMMA NoContactLook ==
    ASSUME ContactsInductive, ContactTxLook,
           UNCHANGED <<policy, rows, contactBlocks, sent, received>>
    PROVE  ContactsLook
BY DEF ContactsInductive, ContactsTypeOK, ContactsLook, ContactRowsLook, DecisionsStand,
    ContactBlocksLook, QuotaLook, SameDay

\* A decision writes one of the final statuses.
LEMMA DecisionStatuses == \A act \in DOMAIN Decisions : Decisions[act] \in Statuses \ {"pending"}
<1>1. DOMAIN Decisions = {"accept", "reject", "block", "report"}
    BY DEF Decisions
<1>2. /\ Decisions["accept"] = "accepted" /\ Decisions["reject"] = "rejected"
      /\ Decisions["block"] = "blocked" /\ Decisions["report"] = "reported"
    BY DEF Decisions
<1> QED
    BY <1>1, <1>2 DEF Statuses

\* A pending request that nobody else has locked is decided or expires.
LEMMA ContactWrites ==
    ASSUME ContactsInductive, NEW i \in DOMAIN rows, NEW e \in ContactRequest,
           rows' = [rows EXCEPT ![i] = e],
           e.from = rows[i].from, e.to = rows[i].to, e.today = rows[i].today,
           \/ e.status = rows[i].status
           \/ /\ rows[i].status = "pending"
              /\ \A t \in ContactSlots :
                    Runs(t, "decide") /\ contactTx[t].row = i => contactTx'[t] # contactTx[t],
           UNCHANGED <<sent, received>>
    PROVE  ContactRowsLook /\ QuotaLook /\ Len(rows') = Len(rows)
<1>1. rows \in Seq(ContactRequest)
    BY DEF ContactsInductive, ContactsTypeOK
<1>2. /\ rows' \in Seq(ContactRequest) /\ Len(rows') = Len(rows) /\ DOMAIN rows' = DOMAIN rows
      /\ rows'[i] = e /\ \A j \in DOMAIN rows \ {i} : rows'[j] = rows[j]
    BY <1>1, RowUpdate
<1>3. SameDay
    BY <1>2 DEF SameDay
<1>4. DecisionsStand
    BY <1>2 DEF DecisionsStand
<1>5. ASSUME NEW s \in ContactSlots, contactTx'[s] = contactTx[s], Runs(s, "decide")
      PROVE  rows'[contactTx[s].row].status = rows[contactTx[s].row].status
    BY <1>2, <1>5 DEF ContactsInductive, DecisionsAreLocked, DecisionHolds
<1>6. Len(rows) <= Len(rows')
    BY <1>1, <1>2
<1> QED
    BY <1>2, <1>3, <1>4, <1>5, <1>6 DEF ContactRowsLook, QuotaLook

LEMMA ContactStatusTyped ==
    ASSUME NEW r \in ContactRequest, NEW st \in Statuses, NEW e, e = [r EXCEPT !.status = st]
    PROVE  /\ e \in ContactRequest
           /\ e.from = r.from /\ e.to = r.to /\ e.today = r.today /\ e.status = st
<1>1. e \in ContactRequest
    BY Zenon DEF ContactRequest
<1> QED
    BY <1>1 DEF ContactRequest

LEMMA UpdatePolicyLook ==
    ASSUME ContactsInductive, NEW k \in ContactKeys, NEW o \in Owners, NEW v \in 0..MaxPolicy,
           NEW allow \in BOOLEAN, NEW l \in Limits, UpdateContactPolicy(k, o, v, allow, l)
    PROVE  ContactsLook /\ Len(rows') = Len(rows)
<1> USE DEF ContactsInductive
<1> DEFINE p == [allow |-> allow, limit |-> l, version |-> v + 1]
<1>1. p \in ContactPolicy
    BY ContactsAssumption DEF ContactPolicy, ContactsAssumption, UpdateContactPolicy
<1>2. policy' = [policy EXCEPT ![o] = p] /\ UNCHANGED <<rows, contactBlocks, sent, received, contactTx>>
    BY DEF UpdateContactPolicy, buckets
<1> HIDE DEF p
<1>3. ContactBlocksLook
    BY <1>1, <1>2, ContactsAssumption DEF ContactsAssumption, ContactBlocksLook, ContactsTypeOK
<1>4. ContactRowsLook /\ ContactTxLook /\ QuotaLook
    BY <1>2 DEF ContactRowsLook, ContactTxLook, QuotaLook, SameDay, DecisionsStand, ContactsTypeOK
<1> QED
    BY <1>2, <1>3, <1>4 DEF ContactsLook

LEMMA AdmitContactLook ==
    ASSUME ContactsInductive, NEW s \in ContactSlots, NEW k \in ContactKeys, NEW x \in Owners,
           NEW y \in Owners, NEW o \in Origins, AdmitContact(s, k, x, y, o)
    PROVE  ContactsLook
<1> DEFINE t == [op |-> "place", at |-> "admitted", key |-> k, by |-> x, to |-> y, origin |-> o]
<1>1. t \in Transaction /\ ContactAdmitted(s, t)
    BY DEF Transaction, ContactAdmitted
<1>2. contactTx' = [contactTx EXCEPT ![s] = t] /\ UNCHANGED <<policy, rows, contactBlocks, sent, received>>
    BY DEF AdmitContact, buckets
<1> HIDE DEF t
<1> QED
    BY <1>1, <1>2, ContactSlotGoesOn, NoContactLook DEF ContactsInductive

LEMMA LockPolicyLook ==
    ASSUME ContactsInductive, NEW s \in ContactSlots, LockPolicy(s)
    PROVE  ContactsLook
<1> USE DEF ContactsInductive
<1> DEFINE t == [contactTx[s] EXCEPT !.at = "policy"]
<1>1. UNCHANGED <<policy, rows, contactBlocks, sent, received>>
    BY DEF LockPolicy, buckets
<1>2. CASE ContactEnded(s)
    BY <1>1, <1>2, ContactSlotEnds, NoContactLook
<1>3. CASE ~ContactEnded(s)
  <2>1. /\ contactTx' = [contactTx EXCEPT ![s].at = "policy"]
        /\ policy[contactTx[s].to] # Absent
        /\ <<contactTx[s].to, contactTx[s].by>> \notin contactBlocks
    BY <1>3 DEF LockPolicy, Accepts
  <2>2. contactTx[s] \in Transaction /\ contactTx[s].op = "place"
    BY DEF LockPolicy, Runs, ContactsTypeOK
  <2>3. contactTx[s] \in [op: {"place"}, at: {"admitted", "policy"}, key: ContactKeys, by: Owners,
                          to: Owners, origin: Origins]
    BY <2>2 DEF Transaction
  <2>4. /\ t \in Transaction /\ t.op = "place" /\ t.at = "policy"
        /\ t.to = contactTx[s].to /\ t.by = contactTx[s].by
    BY <2>3 DEF Transaction
  <2>5. contactTx' = [contactTx EXCEPT ![s] = t]
    BY <2>1
  <2> HIDE DEF t
  <2>6. ContactAdmitted(s, t)
    BY <2>1, <2>4 DEF ContactAdmitted
  <2> QED
    BY <1>1, <2>4, <2>5, <2>6, ContactSlotGoesOn, NoContactLook
<1> QED
    BY <1>2, <1>3

\* Where the next request is added.
NextContact == Len(rows) + 1

LEMMA PlaceLook ==
    ASSUME ContactsInductive, NEW s \in ContactSlots, Place(s)
    PROVE  /\ ContactsLook
           /\ \/ UNCHANGED <<rows, receipt>>
              \/ /\ Len(rows') = NextContact
                 /\ receipt' = [receipt EXCEPT ![contactTx[s].key] = NextContact]
                 /\ rows'[NextContact].from = contactTx[s].by /\ rows'[NextContact].to = contactTx[s].to
<1> USE DEF ContactsInductive
<1> DEFINE x == contactTx[s].by
           y == contactTx[s].to
           k == contactTx[s].key
           o == contactTx[s].origin
           placed == /\ WithinLimits(x, y, o)
                     /\ (\A i \in Pending(x, y) : rows[i].expired)
                     /\ receipt[k] = Absent
           new == [from |-> x, to |-> y, origin |-> o, status |-> "pending", key |-> k,
                   expired |-> FALSE, today |-> TRUE]
           released == ReleaseExpired(x, y)
<1>1. /\ ContactTxLook /\ contactTx'[s] = Absent /\ Runs(s, "place")
      /\ \A t \in ContactSlots \ {s} : contactTx'[t] = contactTx[t]
      /\ UNCHANGED <<policy, contactBlocks>>
      /\ \A i \in Pending(x, y) : ~RowLocked(i)
    BY ContactSlotEnds DEF Place
<1>2. CASE ~placed
  <2>1. UNCHANGED <<rows, receipt, sent, received>>
    BY <1>2 DEF Place, Consumed, buckets
  <2> QED
    BY <1>1, <2>1, NoContactLook
<1>3. CASE placed
  <2>1. /\ rows' = Append(released, new) /\ receipt' = [receipt EXCEPT ![k] = NextContact]
        /\ sent' = [sent EXCEPT ![x] = @ + 1] /\ received' = [received EXCEPT ![y] = @ + 1]
    BY <1>3 DEF Place, Consumed, NextContact
  <2>2. contactTx[s] \in Transaction /\ contactTx[s].op = "place"
    BY <1>1 DEF Runs, ContactsTypeOK
  <2>3. x \in Owners /\ y \in Owners /\ k \in ContactKeys /\ o \in Origins
    BY <2>2 DEF Transaction
  <2>4. new \in ContactRequest /\ new.today /\ new.from = x /\ new.to = y
    BY <2>3 DEF ContactRequest, Statuses
  <2>5. rows \in Seq(ContactRequest) /\ \A i \in DOMAIN rows : rows[i] \in ContactRequest
    BY DEF ContactsTypeOK
  <2>6. \A i \in DOMAIN rows :
            /\ released[i] \in ContactRequest
            /\ released[i].from = rows[i].from /\ released[i].to = rows[i].to
            /\ released[i].today = rows[i].today
            /\ i \notin Pending(x, y) => released[i] = rows[i]
    BY <2>5, ContactStatusTyped DEF ReleaseExpired, Statuses
  <2>7. DOMAIN released = DOMAIN rows /\ released = [i \in DOMAIN rows |-> released[i]]
    BY DEF ReleaseExpired
  <2> HIDE DEF released, new, x, y
  <2>8. released \in Seq(ContactRequest) /\ Len(released) = Len(rows)
    BY <2>5, <2>6, <2>7, RowsMapped
  <2>9. /\ rows' \in Seq(ContactRequest) /\ Len(rows') = NextContact
        /\ DOMAIN rows' = DOMAIN rows \cup {NextContact} /\ NextContact \notin DOMAIN rows
        /\ rows'[NextContact] = new /\ \A i \in DOMAIN rows : rows'[i] = released[i]
    BY <2>1, <2>4, <2>7, <2>8, RowAdded DEF NextContact
  <2>10. NextContact \in Nat /\ Len(rows) <= NextContact
    BY <2>5 DEF NextContact
  <2>11. PlacedToday(x, y, NextContact)
    BY <2>1, <2>4, <2>6, <2>9 DEF PlacedToday
  <2>12. DecisionsStand
    BY <2>6, <2>9 DEF DecisionsStand, Pending
  <2>13. ASSUME NEW t \in ContactSlots, Runs(t, "decide")
         PROVE  contactTx[t].row \in DOMAIN rows /\ contactTx[t].row \notin Pending(x, y)
    BY <1>1, <2>13 DEF RowLocked, DecisionsAreLocked, DecisionHolds, x, y
  <2>14. ContactRowsLook
    BY <2>6, <2>9, <2>10, <2>12, <2>13 DEF ContactRowsLook
  <2>15. ContactBlocksLook
    BY <1>1 DEF ContactBlocksLook, ContactsTypeOK
  <2>16. ContactsLook
    BY <1>1, <2>3, <2>10, <2>11, <2>14, <2>15 DEF ContactsLook, QuotaLook
  <2> QED
    BY <2>1, <2>4, <2>9, <2>16 DEF x, y
<1> QED
    BY <1>2, <1>3

LEMMA AnswerLook ==
    ASSUME ContactsInductive, NEW k \in ContactKeys, NEW i \in DOMAIN rows, NEW act \in DOMAIN Decisions,
           NEW human \in BOOLEAN, AnswerContactRequest(k, i, act, human)
    PROVE  ContactsLook /\ Len(rows') = Len(rows)
<1> USE DEF ContactsInductive
<1> DEFINE e == [rows[i] EXCEPT !.status = Decisions[act]]
<1>1. rows[i] \in ContactRequest /\ Decisions[act] \in Statuses
    BY DecisionStatuses DEF ContactsTypeOK
<1>2. e \in ContactRequest /\ e.from = rows[i].from /\ e.to = rows[i].to /\ e.today = rows[i].today
    BY <1>1, ContactStatusTyped
<1>3. rows' = [rows EXCEPT ![i] = e] /\ UNCHANGED <<policy, contactBlocks, sent, received, contactTx>>
    BY DEF AnswerContactRequest, buckets
<1>4. rows[i].status = "pending" /\ \A t \in ContactSlots : ~(Runs(t, "decide") /\ contactTx[t].row = i)
    BY DEF AnswerContactRequest, Decidable, RowLocked
<1> HIDE DEF e
<1>5. ContactRowsLook /\ QuotaLook /\ Len(rows') = Len(rows)
    BY <1>2, <1>3, <1>4, ContactWrites
<1>6. ContactTxLook /\ ContactBlocksLook
    BY <1>3 DEF ContactTxLook, ContactBlocksLook, ContactsTypeOK
<1> QED
    BY <1>5, <1>6 DEF ContactsLook

LEMMA BeginBlockLook ==
    ASSUME ContactsInductive, NEW s \in ContactSlots, NEW k \in ContactKeys, NEW i \in DOMAIN rows,
           NEW act \in DOMAIN Decisions, NEW human \in BOOLEAN, BeginBlock(s, k, i, act, human)
    PROVE  ContactsLook
<1> DEFINE t == [op |-> "decide", key |-> k, row |-> i, act |-> act]
<1>1. i \in Nat
    BY DEF ContactsInductive, ContactsTypeOK
<1>2. t \in Transaction
    BY <1>1 DEF Transaction, BeginBlock
<1>3. ContactAdmitted(s, t)
    BY DEF ContactAdmitted, BeginBlock, Decidable
<1>4. contactTx' = [contactTx EXCEPT ![s] = t] /\ UNCHANGED <<policy, rows, contactBlocks, sent, received>>
    BY DEF BeginBlock, buckets
<1> HIDE DEF t
<1> QED
    BY <1>2, <1>3, <1>4, ContactSlotGoesOn, NoContactLook DEF ContactsInductive

LEMMA FinishBlockLook ==
    ASSUME ContactsInductive, NEW s \in ContactSlots, FinishBlock(s)
    PROVE  ContactsLook /\ Len(rows') = Len(rows)
<1> USE DEF ContactsInductive
<1> DEFINE i == contactTx[s].row
           act == contactTx[s].act
           e == [rows[i] EXCEPT !.status = Decisions[act]]
<1>1. /\ ContactTxLook /\ contactTx'[s] = Absent /\ Runs(s, "decide")
      /\ UNCHANGED <<policy, sent, received>> /\ ~BlockWaits(rows[i].to)
    BY ContactSlotEnds DEF FinishBlock, buckets
<1>2. CASE UNCHANGED <<rows, contactBlocks>>
    BY <1>1, <1>2, NoContactLook
<1>3. CASE ~UNCHANGED <<rows, contactBlocks>>
  <2>1. /\ rows' = [rows EXCEPT ![i] = e]
        /\ contactBlocks' = contactBlocks \cup {<<rows[i].to, rows[i].from>>}
    BY <1>3 DEF FinishBlock
  <2>2. /\ i \in DOMAIN rows /\ rows[i].status = "pending"
        /\ \A t \in ContactSlots : Runs(t, "decide") /\ contactTx[t].row = i => t = s
    BY <1>1 DEF DecisionsAreLocked, DecisionHolds
  <2>3. act \in DOMAIN Decisions
    <3>1. contactTx[s] \in Transaction /\ contactTx[s].op = "decide"
        BY <1>1 DEF Runs, ContactsTypeOK
    <3>2. act \in {"block", "report"}
        BY <3>1 DEF Transaction
    <3> QED
        BY <3>2 DEF Decisions
  <2>4. rows[i] \in ContactRequest /\ Decisions[act] \in Statuses
    BY <2>2, <2>3, DecisionStatuses DEF ContactsTypeOK
  <2>5. e \in ContactRequest /\ e.from = rows[i].from /\ e.to = rows[i].to /\ e.today = rows[i].today
    BY <2>4, ContactStatusTyped
  <2>6. contactTx'[s] # contactTx[s]
    BY <1>1 DEF Runs
  <2> HIDE DEF e, i
  <2>7. ContactRowsLook /\ QuotaLook /\ Len(rows') = Len(rows)
    BY <1>1, <2>1, <2>2, <2>5, <2>6, ContactWrites
  <2>8. rows[i].to \in Owners /\ rows[i].from \in Owners
    BY <2>4 DEF ContactRequest
  <2>9. ASSUME NEW t \in ContactSlots, HoldsPolicy(t) PROVE contactTx[t].to # rows[i].to
    BY <1>1, <2>9 DEF BlockWaits, PolicyLocked, HoldsPolicy, PlacementsAreChecked, i
  <2>10. ContactBlocksLook
    BY <1>1, <2>1, <2>8, <2>9 DEF ContactBlocksLook, ContactsTypeOK
  <2> QED
    BY <1>1, <2>7, <2>10 DEF ContactsLook
<1> QED
    BY <1>2, <1>3

LEMMA ExpireContactLook ==
    ASSUME ContactsInductive, NEW i \in DOMAIN rows, Expire(i)
    PROVE  ContactsLook /\ Len(rows') = Len(rows)
<1> USE DEF ContactsInductive
<1> DEFINE e == [rows[i] EXCEPT !.expired = TRUE]
<1>1. rows[i] \in ContactRequest
    BY DEF ContactsTypeOK
<1>2. e \in ContactRequest
    BY <1>1, Zenon DEF ContactRequest
<1>3. e.from = rows[i].from /\ e.to = rows[i].to /\ e.today = rows[i].today /\ e.status = rows[i].status
    BY <1>1 DEF ContactRequest
<1>4. rows' = [rows EXCEPT ![i] = e] /\ UNCHANGED <<policy, contactBlocks, sent, received, contactTx>>
    BY DEF Expire, buckets
<1> HIDE DEF e
<1>5. ContactRowsLook /\ QuotaLook /\ Len(rows') = Len(rows)
    BY <1>2, <1>3, <1>4, ContactWrites
<1>6. ContactTxLook /\ ContactBlocksLook
    BY <1>4 DEF ContactTxLook, ContactBlocksLook, ContactsTypeOK
<1> QED
    BY <1>5, <1>6 DEF ContactsLook

LEMMA NewDayLook ==
    ASSUME ContactsInductive, NewDay
    PROVE  ContactsLook /\ Len(rows') = Len(rows)
<1> USE DEF ContactsInductive
<1>1. rows \in Seq(ContactRequest) /\ \A i \in DOMAIN rows : rows[i] \in ContactRequest
    BY DEF ContactsTypeOK
<1>2. /\ rows' = [i \in DOMAIN rows |-> [rows[i] EXCEPT !.today = FALSE]]
      /\ UNCHANGED <<policy, contactBlocks, contactTx>>
      /\ sent' = [o \in Owners |-> 0] /\ received' = [o \in Owners |-> 0]
    BY DEF NewDay
<1>3. ASSUME NEW r \in ContactRequest
      PROVE  [r EXCEPT !.today = FALSE] \in ContactRequest
    BY Zenon DEF ContactRequest
<1>4. \A i \in DOMAIN rows : rows'[i] \in ContactRequest /\ rows'[i].status = rows[i].status /\ ~rows'[i].today
    BY <1>1, <1>2, <1>3 DEF ContactRequest
<1>5. DOMAIN rows' = DOMAIN rows /\ rows' = [i \in DOMAIN rows |-> rows'[i]]
    BY <1>2
<1>6. rows' \in Seq(ContactRequest) /\ Len(rows') = Len(rows)
    BY <1>1, <1>4, <1>5, RowsMapped
<1>7. DayEnds
    BY <1>2, <1>4, <1>5 DEF DayEnds
<1>8. ContactRowsLook
    BY <1>1, <1>4, <1>5, <1>6 DEF ContactRowsLook, DecisionsStand, DecisionsAreLocked, DecisionHolds
<1>9. ContactTxLook /\ ContactBlocksLook
    BY <1>2 DEF ContactTxLook, ContactBlocksLook, ContactsTypeOK
<1> QED
    BY <1>6, <1>7, <1>8, <1>9 DEF ContactsLook, QuotaLook

\* Every step of Contacts looks like that.
LEMMA NextContactsLook ==
    ASSUME ContactsInductive, [ContactsNext]_contactVars
    PROVE  ContactsLook
<1> USE DEF ContactsInductive
<1>1. ASSUME NEW s \in ContactSlots, AbortVictim(s) \/ CancelContact(s) PROVE ContactsLook
    BY <1>1, ContactSlotEnds, NoContactLook DEF AbortVictim, CancelContact, buckets
<1>2. ASSUME UNCHANGED <<policy, rows, contactBlocks, sent, received, contactTx>> PROVE ContactsLook
    BY <1>2, NoContactLook DEF ContactTxLook, ContactsTypeOK
<1>3. ASSUME \/ \E x, y \in Owners : ConnectionBlock(x, y)
             \/ \E o \in Owners : Unpublish(o) \/ RevokeMandate(o)
             \/ UNCHANGED contactVars
      PROVE  ContactsLook
    BY <1>2, <1>3 DEF ConnectionBlock, Unpublish, RevokeMandate, contactVars, buckets
<1> QED
    BY <1>1, <1>3, UpdatePolicyLook, AdmitContactLook, LockPolicyLook, PlaceLook, AnswerLook,
        BeginBlockLook, FinishBlockLook, ExpireContactLook, NewDayLook DEF ContactsNext

-----------------------------------------------------------------------------
(* Contacts: types *)

\* The buckets, receipts and profiles.
ContactBucketsTyped ==
    /\ blocks \subseteq Owners \X Owners
    /\ sent \in [Owners -> 0..SenderLimit]
    /\ received \in [Owners -> Nat] /\ peer \in 0..PeerLimit
    /\ published \subseteq Owners /\ mandated \subseteq Owners /\ contactEvents \in 0..ContactEvents

LEMMA NextBucketsTyped ==
    ASSUME ContactsInductive, [ContactsNext]_contactVars
    PROVE  ContactBucketsTyped'
<1> USE ContactsAssumption DEF ContactsInductive, ContactsAssumption
<1>1. ContactBucketsTyped
    BY DEF ContactsTypeOK, ContactBucketsTyped
<1>2. ASSUME UNCHANGED <<blocks, buckets, environment>> PROVE ContactBucketsTyped'
    BY <1>1, <1>2 DEF ContactBucketsTyped, buckets, environment
<1>3. ASSUME NEW s \in ContactSlots, Place(s) PROVE ContactBucketsTyped'
  <2> DEFINE x == contactTx[s].by
             y == contactTx[s].to
             o == contactTx[s].origin
  <2>1. contactTx[s] \in Transaction /\ contactTx[s].op = "place"
    BY <1>3 DEF Place, Runs, ContactsTypeOK
  <2>2. x \in Owners /\ y \in Owners
    BY <2>1 DEF Transaction
  <2>3. UNCHANGED <<blocks, published, mandated, contactEvents>>
    BY <1>3 DEF Place, environment
  <2>4. CASE UNCHANGED buckets
    BY <1>2, <2>3, <2>4 DEF environment
  <2>5. CASE WithinLimits(x, y, o) /\ Consumed(x, y, o, TRUE)
    <3>1. sent' \in [Owners -> 0..SenderLimit]
        BY <1>1, <2>2, <2>5 DEF WithinLimits, Consumed, ContactBucketsTyped
    <3>2. received' \in [Owners -> Nat]
        BY <1>1, <2>2, <2>5 DEF Consumed, ContactBucketsTyped
    <3>3. peer' \in 0..PeerLimit
        BY <1>1, <2>5 DEF WithinLimits, Consumed, ContactBucketsTyped
    <3> QED
        BY <1>1, <2>3, <3>1, <3>2, <3>3 DEF ContactBucketsTyped
  <2> QED
    BY <1>3, <2>4, <2>5 DEF Place, Consumed
<1>4. ASSUME NEW x \in Owners, NEW y \in Owners, ConnectionBlock(x, y) PROVE ContactBucketsTyped'
    BY <1>1, <1>4 DEF ConnectionBlock, Event, ContactBucketsTyped, buckets
<1>5. ASSUME NEW o \in Owners, Unpublish(o) \/ RevokeMandate(o) PROVE ContactBucketsTyped'
    BY <1>1, <1>5 DEF Unpublish, RevokeMandate, Event, ContactBucketsTyped, buckets
<1>6. ASSUME NewDay PROVE ContactBucketsTyped'
    BY <1>1, <1>6 DEF NewDay, Event, ContactBucketsTyped
<1>7. ASSUME NEW k \in ContactKeys, NEW o \in Owners, NEW v \in 0..MaxPolicy, NEW allow \in BOOLEAN,
             NEW l \in Limits, UpdateContactPolicy(k, o, v, allow, l)
      PROVE  ContactBucketsTyped'
    BY <1>2, <1>7 DEF UpdateContactPolicy
<1>8. ASSUME NEW s \in ContactSlots, NEW k \in ContactKeys, NEW x \in Owners, NEW y \in Owners,
             NEW o \in Origins, AdmitContact(s, k, x, y, o)
      PROVE  ContactBucketsTyped'
    BY <1>2, <1>8 DEF AdmitContact
<1>9. ASSUME NEW s \in ContactSlots,
             LockPolicy(s) \/ FinishBlock(s) \/ AbortVictim(s) \/ CancelContact(s)
      PROVE  ContactBucketsTyped'
    BY <1>2, <1>9 DEF LockPolicy, FinishBlock, AbortVictim, CancelContact
<1>10. ASSUME NEW k \in ContactKeys, NEW i \in DOMAIN rows, NEW human \in BOOLEAN,
              NEW act \in DOMAIN Decisions,
              \/ AnswerContactRequest(k, i, act, human)
              \/ \E s \in ContactSlots : BeginBlock(s, k, i, act, human)
      PROVE  ContactBucketsTyped'
    BY <1>2, <1>10 DEF AnswerContactRequest, BeginBlock
<1>11. ASSUME NEW i \in DOMAIN rows, Expire(i) PROVE ContactBucketsTyped'
    BY <1>2, <1>11 DEF Expire
<1>12. ASSUME UNCHANGED contactVars PROVE ContactBucketsTyped'
    BY <1>2, <1>12 DEF contactVars, buckets, environment
<1> QED
    BY <1>3, <1>4, <1>5, <1>6, <1>7, <1>8, <1>9, <1>10, <1>11, <1>12 DEF ContactsNext

\* A receipt names a request that exists.
ContactReceiptsTyped == receipt \in [ContactKeys -> 0..Len(rows) \cup {Absent}]

LEMMA NextReceiptsTyped ==
    ASSUME ContactsInductive, ContactsLook, [ContactsNext]_contactVars
    PROVE  ContactReceiptsTyped'
<1> USE DEF ContactsInductive
<1>1. ContactReceiptsTyped /\ Len(rows) \in Nat
    BY DEF ContactsTypeOK, ContactReceiptsTyped
<1>2. Len(rows') \in Nat /\ Len(rows) <= Len(rows')
    BY DEF ContactsLook, ContactRowsLook
<1>3. ASSUME receipt' = receipt PROVE ContactReceiptsTyped'
    BY <1>1, <1>2, <1>3 DEF ContactReceiptsTyped
<1>4. ASSUME NEW k, receipt' = [receipt EXCEPT ![k] = 0] PROVE ContactReceiptsTyped'
  <2>1. 0 \in 0..Len(rows') /\ 0..Len(rows) \subseteq 0..Len(rows')
    BY <1>1, <1>2
  <2> DEFINE now == 0..Len(rows') \cup {Absent}
  <2>2. receipt \in [ContactKeys -> now] /\ 0 \in now
    BY <1>1, <2>1 DEF ContactReceiptsTyped
  <2> HIDE DEF now
  <2>3. receipt' \in [ContactKeys -> now]
    BY <1>4, <2>2
  <2> QED
    BY <2>3 DEF now, ContactReceiptsTyped
<1>5. ASSUME NEW s \in ContactSlots, Place(s) PROVE ContactReceiptsTyped'
    BY <1>1, <1>2, <1>3, <1>5, PlaceLook DEF ContactReceiptsTyped
<1>6. ASSUME NEW k \in ContactKeys, NEW o \in Owners, NEW v \in 0..MaxPolicy, NEW allow \in BOOLEAN,
             NEW l \in Limits, UpdateContactPolicy(k, o, v, allow, l)
      PROVE  ContactReceiptsTyped'
    BY <1>4, <1>6 DEF UpdateContactPolicy
<1>7. ASSUME NEW k \in ContactKeys, NEW i \in DOMAIN rows, NEW human \in BOOLEAN,
             NEW act \in DOMAIN Decisions, AnswerContactRequest(k, i, act, human)
      PROVE  ContactReceiptsTyped'
    BY <1>4, <1>7 DEF AnswerContactRequest
<1>8. ASSUME NEW s \in ContactSlots, FinishBlock(s) PROVE ContactReceiptsTyped'
    BY <1>3, <1>4, <1>8 DEF FinishBlock
<1>9. ASSUME \/ \E s \in ContactSlots, k \in ContactKeys, x \in Owners, y \in Owners, o \in Origins :
                AdmitContact(s, k, x, y, o)
             \/ \E s \in ContactSlots : LockPolicy(s) \/ AbortVictim(s) \/ CancelContact(s)
             \/ \E s \in ContactSlots, k \in ContactKeys, i \in DOMAIN rows, human \in BOOLEAN,
                  act \in DOMAIN Decisions : BeginBlock(s, k, i, act, human)
             \/ \E x \in Owners, y \in Owners : ConnectionBlock(x, y)
             \/ \E o \in Owners : Unpublish(o) \/ RevokeMandate(o)
             \/ \E i \in DOMAIN rows : Expire(i)
             \/ NewDay
             \/ UNCHANGED contactVars
      PROVE  ContactReceiptsTyped'
    BY <1>3, <1>9 DEF AdmitContact, LockPolicy, AbortVictim, CancelContact, BeginBlock, ConnectionBlock,
        Unpublish, RevokeMandate, Expire, NewDay, contactVars
<1> QED
    BY <1>5, <1>6, <1>7, <1>8, <1>9 DEF ContactsNext

LEMMA NextContactsTypeOK ==
    ASSUME ContactsInductive, ContactsLook, ContactBucketsTyped', ContactReceiptsTyped'
    PROVE  ContactsTypeOK'
<1>1. contactBlocks' \subseteq Owners \X Owners
    BY DEF ContactsInductive, ContactsTypeOK, ContactsLook, ContactBlocksLook
<1> QED
    BY <1>1 DEF ContactBucketsTyped, ContactReceiptsTyped, ContactsTypeOK, ContactsLook, ContactRowsLook,
        ContactTxLook, ContactBlocksLook

-----------------------------------------------------------------------------
(* Contacts: the theorems *)

LEMMA InitContactsInductive == ContactsInit => ContactsInductive
<1> SUFFICES ASSUME ContactsInit PROVE ContactsInductive
    OBVIOUS
<1> USE DEF ContactsInit
<1>1. ContactsTypeOK
    BY ContactsAssumption DEF ContactsAssumption, ContactsTypeOK
<1>2. \A s \in ContactSlots : \A op : ~Runs(s, op)
    BY DEF Runs
<1>3. \A o \in Owners : SentToday(o) = {} /\ ReceivedToday(o) = {}
    BY DEF SentToday, ReceivedToday
<1>4. QuotaCountsRequests
    BY <1>3, FS_EmptySet DEF QuotaCountsRequests, SentToday, ReceivedToday
<1> QED
    BY <1>1, <1>2, <1>4 DEF ContactsInductive, PlacementsAreChecked, HoldsPolicy, DecisionsAreLocked,
        DecisionHolds

LEMMA NextContactsInductive ==
    ContactsInductive /\ [ContactsNext]_contactVars => ContactsInductive'
<1> SUFFICES ASSUME ContactsInductive, [ContactsNext]_contactVars PROVE ContactsInductive'
    OBVIOUS
<1>1. ContactsLook
    BY NextContactsLook
<1>2. ContactsTypeOK'
    BY <1>1, NextBucketsTyped, NextReceiptsTyped, NextContactsTypeOK
<1>3. PlacementsAreChecked' /\ DecisionsAreLocked' /\ QuotaCountsRequests'
    BY <1>1, PlacementsKept, DecisionsKept, QuotaKept
<1> QED
    BY <1>2, <1>3 DEF ContactsInductive

\* Policies, requests, blocks and buckets keep the invariant, for any number of
\* owners, keys and open transactions.
THEOREM ContactsInductiveHolds == ContactsSpec => []ContactsInductive
BY InitContactsInductive, NextContactsInductive, PTL DEF ContactsSpec

\* Policies, requests, buckets, receipts and transactions keep their types.
THEOREM ContactsTypeCorrect == ContactsSpec => []ContactsTypeOK
<1>1. ContactsInductive => ContactsTypeOK
    BY DEF ContactsInductive
<1> QED
    BY <1>1, ContactsInductiveHolds, PTL

\* The buckets count the contact requests of the day and nothing else.
THEOREM QuotasCountRequests == ContactsSpec => []QuotaCountsRequests
<1>1. ContactsInductive => QuotaCountsRequests
    BY DEF ContactsInductive
<1> QED
    BY <1>1, ContactsInductiveHolds, PTL

\* A decision on a contact request is final, whoever else decides it meanwhile.
THEOREM ContactDecisionsAreFinal == ContactsSpec => ContactDecisionIsFinal
<1>1. ContactsInductive /\ [ContactsNext]_contactVars => DecisionsStand
    BY NextContactsLook DEF ContactsLook, ContactRowsLook
<1> QED
    BY <1>1, ContactsInductiveHolds, PTL DEF ContactsSpec, ContactDecisionIsFinal

\* Only place_contact_request commits a request, and its recipient has not
\* blocked the sender when it does.
LEMMA ContactStep == ContactsInductive /\ [ContactsNext]_contactVars => RequestIsUnblocked
<1> SUFFICES ASSUME ContactsInductive, [ContactsNext]_contactVars PROVE RequestIsUnblocked
    OBVIOUS
<1>1. ASSUME Len(rows') = Len(rows) PROVE RequestIsUnblocked
    BY <1>1 DEF RequestIsUnblocked, ContactsInductive, ContactsTypeOK
<1>2. ASSUME NEW s \in ContactSlots, Place(s) PROVE RequestIsUnblocked
  <2>1. CASE rows' = rows
    BY <1>1, <2>1
  <2>2. CASE rows' # rows
    <3>1. /\ Len(rows') = NextContact
          /\ rows'[NextContact].from = contactTx[s].by /\ rows'[NextContact].to = contactTx[s].to
        BY <1>2, <2>2, PlaceLook
    <3>2. <<contactTx[s].to, contactTx[s].by>> \notin contactBlocks
        BY <1>2 DEF Place, ContactsInductive, PlacementsAreChecked, HoldsPolicy
    <3> QED
        BY <3>1, <3>2 DEF RequestIsUnblocked
  <2> QED
    BY <2>1, <2>2
<1>3. ASSUME \/ \E s \in ContactSlots, k \in ContactKeys, x \in Owners, y \in Owners, o \in Origins :
                AdmitContact(s, k, x, y, o)
             \/ \E s \in ContactSlots : LockPolicy(s) \/ AbortVictim(s) \/ CancelContact(s)
             \/ \E s \in ContactSlots, k \in ContactKeys, i \in DOMAIN rows, human \in BOOLEAN,
                  act \in DOMAIN Decisions : BeginBlock(s, k, i, act, human)
             \/ \E x \in Owners, y \in Owners : ConnectionBlock(x, y)
             \/ \E o \in Owners : Unpublish(o) \/ RevokeMandate(o)
             \/ UNCHANGED contactVars
      PROVE  RequestIsUnblocked
    BY <1>1, <1>3 DEF AdmitContact, LockPolicy, AbortVictim, CancelContact, BeginBlock, ConnectionBlock,
        Unpublish, RevokeMandate, contactVars
<1> QED
    BY <1>1, <1>2, <1>3, UpdatePolicyLook, AnswerLook, FinishBlockLook, ExpireContactLook, NewDayLook
        DEF ContactsNext

\* Once an owner has blocked or reported a sender, no further request of that
\* sender is committed, even one that had passed its checks before the block.
THEOREM RequestsRespectBlocks == ContactsSpec => NoRequestPastBlock
BY ContactsInductiveHolds, ContactStep, PTL DEF ContactsSpec, NoRequestPastBlock
=============================================================================
