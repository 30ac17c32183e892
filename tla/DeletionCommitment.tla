-------------------------- MODULE DeletionCommitment --------------------------
(***************************************************************************)
(* The commitment boundary of account deletion.  Confirmation appends an   *)
(* entry to an external journal (entry file, head, separately mounted      *)
(* witness) before its database transaction commits; an in-process flag    *)
(* closes the API across that window, and every start, backup and restore  *)
(* demands exact parity of journal and database.                           *)
(*                                                                         *)
(* A deletion id stands for one AccountLifecycle row of its own account.   *)
(* A confirmation holds the backup-authority row and its lifecycle row     *)
(* from planning until its transaction ends.                               *)
(***************************************************************************)
EXTENDS Integers, Sequences

CONSTANTS
    Ids,        \* deletion ids
    Requests,   \* request slots of the API process
    NoId,       \* the id of an idle slot
    MaxFaults   \* bound: crashes, failed commits and failed journal writes

ASSUME ConstantsAssumption == NoId \notin Ids /\ MaxFaults \in Nat

VARIABLES
    row,        \* the AccountLifecycle row and, once concealed, its deny row
    entries,    \* the journal's entry files: the committed deletion ids
    head,       \* head_sequence of the journal's state file
    witness,    \* the last witness sequence
    api,        \* the API process: "up" | "down"
    consistent, \* app.state.deletion_journal_consistent
    pc,         \* where each request is
    target,     \* the deletion id each request is about
    backup,     \* the retained backup generation: database and journal head
    faults

journalVars == <<entries, head, witness>>
apiVars == <<api, consistent>>
requestVars == <<pc, target>>
vars == <<row, journalVars, apiVars, requestVars, backup, faults>>

RowStates == {"none", "pending", "concealed", "cancelled"}
PCs == {"idle", "confirm", "planned", "entry", "head", "appended", "cancel"}
Rows == [Ids -> RowStates]
NoBackup == <<>>

\* Every variable holds what its row, file or process state may hold.
TypeOK ==
    /\ row \in Rows
    /\ entries \in Seq(Ids)
    /\ head \in Nat
    /\ witness \in Nat
    /\ api \in {"up", "down"}
    /\ consistent \in BOOLEAN
    /\ pc \in [Requests -> PCs]
    /\ target \in [Requests -> Ids \cup {NoId}]
    /\ \A r \in Requests : pc[r] # "idle" => target[r] \in Ids
    /\ backup \in [row: Rows, head: Nat] \cup {NoBackup}
    /\ faults \in 0..MaxFaults

Init ==
    /\ row = [d \in Ids |-> "none"]
    /\ entries = <<>>
    /\ head = 0
    /\ witness = 0
    /\ api = "up"
    /\ consistent = TRUE
    /\ pc = [r \in Requests |-> "idle"]
    /\ target = [r \in Requests |-> NoId]
    /\ backup = NoBackup
    /\ faults = 0

-----------------------------------------------------------------------------
(* The journal and its mirror *)

Committed == {entries[i] : i \in DOMAIN entries}

\* _verify_witness_locked: the witness has seen exactly the current head.
WitnessCurrent == witness = head

\* _verify_locked: entry files, head and witness agree.
JournalSound == Len(entries) = head /\ WitnessCurrent

AnyJournal == TRUE          \* mutant: append trusts the journal it finds

\* append verifies the whole journal before it writes.
Appendable == JournalSound

Concealed == {d \in Ids : row[d] = "concealed"}

\* verify_live_deletion_mirror.
Mirrored == Committed = Concealed

\* Locks of a confirmation in progress.
Holding == {"planned", "entry", "head", "appended"}
AuthorityLocked == \E r \in Requests : pc[r] \in Holding
LifecycleLocked(d) == \E r \in Requests : pc[r] \in Holding /\ target[r] = d

Fault == faults < MaxFaults /\ faults' = faults + 1

Goto(r, where) == pc' = [pc EXCEPT ![r] = where]

Done(r) ==
    /\ pc' = [pc EXCEPT ![r] = "idle"]
    /\ target' = [target EXCEPT ![r] = NoId]

-----------------------------------------------------------------------------
(* The API *)

\* create_account_deletion_request.
RequestDeletion(d) ==
    /\ api = "up" /\ consistent
    /\ row[d] = "none"
    /\ row' = [row EXCEPT ![d] = "pending"]
    /\ UNCHANGED <<journalVars, apiVars, requestVars, backup, faults>>

\* The middleware lets a request in while the flag is up; it is not asked again.
Admit(r, d, kind) ==
    /\ api = "up" /\ consistent
    /\ pc[r] = "idle"
    /\ row[d] # "none"
    /\ Goto(r, kind)
    /\ target' = [target EXCEPT ![r] = d]
    /\ UNCHANGED <<row, journalVars, apiVars, backup, faults>>

\* confirm_account_deletion_request up to the flush: authority lock, row lock,
\* claim the pending row; anything else is a replay or an error answer.
BeginConfirm(r) ==
    /\ pc[r] = "confirm"
    /\ ~AuthorityLocked
    /\ IF row[target[r]] = "pending" THEN Goto(r, "planned") /\ UNCHANGED target ELSE Done(r)
    /\ UNCHANGED <<row, journalVars, apiVars, backup, faults>>

CommitFirst(r) ==           \* mutant: the database commits before the journal
    /\ pc[r] = "planned"
    /\ row' = [row EXCEPT ![target[r]] = "concealed"]
    /\ Done(r)
    /\ UNCHANGED <<journalVars, apiVars, backup, faults>>

\* The flag goes down; append verifies the journal, answers an earlier
\* commitment of this id, or writes the entry file.
AppendEntry(r) ==
    /\ pc[r] = "planned"
    /\ consistent' = FALSE
    /\ \/ /\ ~Appendable                         \* DeletionJournalError
          /\ Done(r)
          /\ UNCHANGED entries
       \/ /\ Appendable
          /\ target[r] \in Committed
          /\ Goto(r, "appended")
          /\ UNCHANGED <<entries, target>>
       \/ /\ Appendable
          /\ target[r] \notin Committed
          /\ entries' = Append(entries, target[r])
          /\ Goto(r, "entry")
          /\ UNCHANGED target
    /\ UNCHANGED <<row, head, witness, api, backup, faults>>

ReplaceState(r) ==
    /\ pc[r] = "entry"
    /\ head' = Len(entries)
    /\ Goto(r, "head")
    /\ UNCHANGED <<row, entries, witness, apiVars, target, backup, faults>>

WriteWitness(r) ==
    /\ pc[r] = "head"
    /\ witness' = head
    /\ Goto(r, "appended")
    /\ UNCHANGED <<row, entries, head, apiVars, target, backup, faults>>

\* An operating-system error while the journal or the witness is written.
AppendFails(r) ==
    /\ pc[r] \in {"planned", "entry", "head"}
    /\ Fault
    /\ consistent' = FALSE
    /\ Done(r)
    /\ UNCHANGED <<row, journalVars, api, backup>>

\* The transaction commits and the flag goes up again.
Commit(r) ==
    /\ pc[r] = "appended"
    /\ row' = [row EXCEPT ![target[r]] = "concealed"]
    /\ consistent' = TRUE
    /\ Done(r)
    /\ UNCHANGED <<journalVars, api, backup, faults>>

\* The commit fails, or succeeds with its acknowledgement lost: 503 with the
\* flag left down.
CommitFails(r) ==
    /\ pc[r] = "appended"
    /\ Fault
    /\ \/ row' = [row EXCEPT ![target[r]] = "concealed"]
       \/ UNCHANGED row
    /\ Done(r)
    /\ UNCHANGED <<journalVars, apiVars, backup>>

\* cancel_account_deletion_request: its DELETE waits for the row lock only and
\* matches a row that is still pending.
Cancel(r) ==
    /\ pc[r] = "cancel"
    /\ ~LifecycleLocked(target[r])
    /\ row' = [row EXCEPT ![target[r]] = IF @ = "pending" THEN "cancelled" ELSE @]
    /\ Done(r)
    /\ UNCHANGED <<journalVars, apiVars, backup, faults>>

-----------------------------------------------------------------------------
(* Process restarts, backup and restore *)

AllIdle ==
    /\ pc' = [r \in Requests |-> "idle"]
    /\ target' = [r \in Requests |-> NoId]

\* The process dies; a commit that was under way may have reached the database.
Crash ==
    /\ api = "up"
    /\ Fault
    /\ api' = "down"
    /\ \E S \in SUBSET {r \in Requests : pc[r] = "appended"} :
        row' = [d \in Ids |-> IF \E r \in S : target[r] = d THEN "concealed" ELSE row[d]]
    /\ AllIdle
    /\ UNCHANGED <<journalVars, consistent, backup>>

\* The operator stops an API that serves nothing.
Stop ==
    /\ api = "up"
    /\ \A r \in Requests : pc[r] = "idle"
    /\ api' = "down"
    /\ UNCHANGED <<row, journalVars, consistent, requestVars, backup, faults>>

\* _lifespan.
Start ==
    /\ api = "down"
    /\ JournalSound /\ Mirrored
    /\ api' = "up"
    /\ consistent' = TRUE
    /\ UNCHANGED <<row, journalVars, requestVars, backup, faults>>

\* backup.sh: with the API stopped, verify-live, checkpoint, dump.
Backup ==
    /\ api = "down"
    /\ JournalSound /\ Mirrored
    /\ backup' = [row |-> row, head |-> head]
    /\ UNCHANGED <<row, journalVars, apiVars, requestVars, faults>>

AnyCheckpoint == JournalSound   \* mutant: an older checkpoint is accepted

\* assert_checkpoint: the generation covers the current journal head.
CurrentCheckpoint == JournalSound /\ backup.head = head

\* restore.sh: the database becomes the backup's.
Restore ==
    /\ api = "down"
    /\ backup # NoBackup
    /\ CurrentCheckpoint
    /\ row' = backup.row
    /\ UNCHANGED <<journalVars, apiVars, requestVars, backup, faults>>

RequestStep(r) ==
    \/ \E d \in Ids, kind \in {"confirm", "cancel"} : Admit(r, d, kind)
    \/ BeginConfirm(r) \/ AppendEntry(r) \/ ReplaceState(r) \/ WriteWitness(r)
    \/ AppendFails(r) \/ Commit(r) \/ CommitFails(r) \/ Cancel(r)

Next ==
    \/ \E d \in Ids : RequestDeletion(d)
    \/ \E r \in Requests : RequestStep(r)
    \/ Crash \/ Stop \/ Start \/ Backup \/ Restore

Spec == Init /\ [][Next]_vars

-----------------------------------------------------------------------------
(* Properties *)

Open == api = "up" /\ consistent

\* The commitment is durable before the concealment it announces: no restart
\* or restore finds a concealed account the journal does not know
\* (confirm_account_deletion_request, DeletionCommitmentJournal.append).
ConcealedIsCommitted == Concealed \subseteq Committed

\* A journal with a half-written append never serves: neither the process that
\* failed, nor a request that was already waiting, nor a later start opens it.
HalfWrittenIsClosed == Open => JournalSound

\* No cancellation, restart or restore makes a concealed account live again.
NoResurrection == [][Concealed \subseteq Concealed']_vars
=============================================================================
