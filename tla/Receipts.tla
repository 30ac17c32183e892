------------------------------ MODULE Receipts ------------------------------
(***************************************************************************)
(* Idempotency receipts.  A request looks its key up, does its work in a   *)
(* transaction, looks the key up again and commits the work together with  *)
(* a receipt, of which the unique index allows one per owner and key.      *)
(* Documents and posts commit a provisional receipt with their work and    *)
(* complete it in a second transaction.  A request that meets a receipt of *)
(* its own intent answers from it: most families store no body and rebuild *)
(* the answer from the rows, and refuse (503) when they cannot.            *)
(*                                                                         *)
(* A key here is an owner with an Idempotency-Key, an intent an operation  *)
(* with its request hash.  All requests belong to one family of operations *)
(* at a time, chosen in the initial state: what a family decides is how an *)
(* answer is rebuilt.  A resource is as it was answered, moved by later    *)
(* operations, rewritten by the erasure of the other party, or gone.  The  *)
(* rows behind an answer are checked in every field and by digest in the   *)
(* code; here they differ from the first answer or not.                    *)
(***************************************************************************)
EXTENDS Naturals, Sequences, FiniteSets

CONSTANTS
    Keys, Intents, Slots, None,
    MaxEffects      \* bound: effects committed

\* Committed by the service, completed by store_idempotency.
TwoPhase == {"document", "post"}
\* Retention deletes the receipt by the identifier of its resource.
Retained == {"application", "verification_submission", "contact_request"}
Recoveries == {"agent_grant", "api_key", "mandate"}
Families ==
    TwoPhase \cup Retained \cup Recoveries \cup
    {"agent_identity", "application_transition", "social_graph", "agent_outreach",
     "moderation_review", "verification_decision", "contact_policy", "contact_decision",
     "proposal_decision", "proposal", "invitation", "membership", "job", "report", "appeal", "stored"}

IdempotencyRecord == [intent: Intents, effect: 1..MaxEffects, complete: BOOLEAN]
Effect == [key: Keys, intent: Intents, state: {"answered", "moved", "rewritten", "gone", "disposed"}]
Request == [key: Keys, intent: Intents, stage: {"work", "commit", "complete"}, effect: 0..MaxEffects]
Answer == [effect: 1..MaxEffects, shows: {"first", "later", "recovery"}]

\* None is no row, request or intent.
ASSUME ReceiptsAssumption ==
    /\ MaxEffects \in Nat
    /\ None \notin Intents \cup IdempotencyRecord \cup Request

VARIABLES
    family,         \* the family of operations
    receipts,       \* IdempotencyRecord rows by key
    effects,        \* committed effects with the state of their resource
    req,            \* requests between their first look-up and their answer
    answers         \* successes: the effect answered for and what was shown

receiptVars == <<family, receipts, effects, req, answers>>

ReceiptsTypeOK ==
    /\ family \in Families
    /\ receipts \in [Keys -> IdempotencyRecord \cup {None}]
    /\ effects \in Seq(Effect) /\ Len(effects) <= MaxEffects
    /\ req \in [Slots -> Request \cup {None}]
    /\ answers \subseteq Answer

ReceiptsInit ==
    /\ family \in Families
    /\ receipts = [k \in Keys |-> None]
    /\ effects = <<>>
    /\ req = [s \in Slots |-> None]
    /\ answers = {}

-----------------------------------------------------------------------------
(* What the answer rebuilt by each family shows, or None for a 503.  st is *)
(* the state of the resource.                                              *)

\* The response built from the rows as they are.
Rendered(st) == IF st = "answered" THEN "first" ELSE "later"
\* Its digest must be the one kept in the receipt.
WhileAnswered(st) == IF Rendered(st) = "first" THEN "first" ELSE None
\* Rows that must exist.
WhileThere(st) == IF st \in {"answered", "moved"} THEN "first" ELSE None

\* Only the answer that the receipt's digest binds.
AgentIdentityReplay(st) == WhileAnswered(st)
ApplicationTransitionReplay(st) == WhileAnswered(st)
SocialGraphReplay(st) == WhileAnswered(st)
AgentOutreachReplay(st) == WhileAnswered(st)
ModerationReviewReplay(st) == WhileAnswered(st)
ContactDecisionReplay(st) == WhileAnswered(st)
InvitationReplay(st) == WhileAnswered(st)
MembershipReplay(st) == WhileAnswered(st)

\* No digest of the answer: the proposal as it is, while its status is the one
\* decided and, when accepted, its version has the digest of the receipt.
ProposalDecisionReplay(st) == WhileAnswered(st)

\* The credential was in the first answer only: a replay shows its metadata.
AgentGrantReplay(st) == IF st = "answered" THEN "recovery" ELSE None
ApiKeyReplay(st) == IF st = "gone" THEN None ELSE "recovery"
MandateReplay(st) == IF st = "gone" THEN None ELSE "recovery"

\* The row as it is with its status put back to pending and nothing decided:
\* other fields that changed since are shown as they are now.
ContactRequestReplay(st) ==
    IF st = "gone" THEN None ELSE IF st = "rewritten" THEN Rendered(st) ELSE "first"

\* What changed since is put back.
ProposalReplay(st) == WhileThere(st)
AppealReplay(st) == WhileThere(st)

\* Rows that are never changed: the submission's events, an event of the
\* verification, a report, a version.
ApplicationReplay(st) == WhileThere(st)
VerificationSubmissionReplay(st) == WhileThere(st)
VerificationDecisionReplay(st) == WhileThere(st)
ReportReplay(st) == WhileThere(st)
DocumentReplay(st) == WhileThere(st)

\* A body that was stored, with the receipt or with the version of a job.
JobReplay(st) == WhileThere(st)
ContactPolicyReplay(st) == "first"
StoredReplay(st) == "first"

\* A post is rebuilt while it is published, until its receipt has a body.
PostReplay(r, st) == IF r.complete THEN StoredReplay(st) ELSE WhileAnswered(st)

\* idempotency_replay after the comparison of operation and hash.
Rebuilt(r) ==
    LET st == effects[r.effect].state IN
    [agent_identity |-> AgentIdentityReplay(st),
     application_transition |-> ApplicationTransitionReplay(st),
     social_graph |-> SocialGraphReplay(st),
     agent_outreach |-> AgentOutreachReplay(st),
     moderation_review |-> ModerationReviewReplay(st),
     contact_decision |-> ContactDecisionReplay(st),
     invitation |-> InvitationReplay(st),
     membership |-> MembershipReplay(st),
     proposal_decision |-> ProposalDecisionReplay(st),
     agent_grant |-> AgentGrantReplay(st),
     api_key |-> ApiKeyReplay(st),
     mandate |-> MandateReplay(st),
     contact_request |-> ContactRequestReplay(st),
     proposal |-> ProposalReplay(st),
     appeal |-> AppealReplay(st),
     application |-> ApplicationReplay(st),
     verification_submission |-> VerificationSubmissionReplay(st),
     verification_decision |-> VerificationDecisionReplay(st),
     report |-> ReportReplay(st),
     document |-> DocumentReplay(st),
     job |-> JobReplay(st),
     contact_policy |-> ContactPolicyReplay(st),
     post |-> PostReplay(r, st),
     stored |-> StoredReplay(st)][family]

\* idempotency_replay: 409 for another intent, 503 when nothing can be rebuilt.
Replay(k, i) ==
    LET r == receipts[k] IN
    answers' = IF r # None /\ r.intent = i /\ Rebuilt(r) # None
               THEN answers \cup {[effect |-> r.effect, shows |-> Rebuilt(r)]}
               ELSE answers

-----------------------------------------------------------------------------
(* Requests *)

Ended(s) == req' = [req EXCEPT ![s] = None]

\* A request whose key has no receipt goes to work.
Begin(s, k, i) ==
    /\ req[s] = None /\ receipts[k] = None
    /\ req' = [req EXCEPT ![s] =
            [key |-> k, intent |-> i, effect |-> 0,
             stage |-> IF family \in TwoPhase THEN "commit" ELSE "work"]]
    /\ UNCHANGED <<family, receipts, effects, answers>>

\* A request whose key has one is answered from it.
Retry(k, i) ==
    /\ receipts[k] # None
    /\ Replay(k, i)
    /\ UNCHANGED <<family, receipts, effects, req>>

\* store_idempotency: a receipt committed meanwhile ends this request, its work
\* is rolled back and the receipt is replayed.
Store(s) ==
    /\ req[s] # None /\ req[s].stage = "work"
    /\ IF receipts[req[s].key] # None
       THEN Ended(s) /\ Replay(req[s].key, req[s].intent)
       ELSE req' = [req EXCEPT ![s].stage = "commit"] /\ UNCHANGED answers
    /\ UNCHANGED <<family, receipts, effects>>

AlwaysUnique(k) == TRUE         \* mutant: no unique constraint on owner and key

\* uq_idempotency_owner_key
Unique(k) == receipts[k] = None

\* The receipt of a commit, provisional in the families of two phases.
NewReceipt(s) ==
    [intent |-> req[s].intent, effect |-> Len(effects) + 1, complete |-> family \notin TwoPhase]

\* The answer may be lost.
CommitReceipt(s) ==
    /\ req[s] # None /\ req[s].stage = "commit"
    /\ Len(effects) < MaxEffects
    /\ Unique(req[s].key)
    /\ effects' = Append(effects, [key |-> req[s].key, intent |-> req[s].intent, state |-> "answered"])
    /\ receipts' = [receipts EXCEPT ![req[s].key] = NewReceipt(s)]
    /\ IF family \in TwoPhase
       THEN /\ req' = [req EXCEPT ![s].stage = "complete", ![s].effect = Len(effects) + 1]
            /\ UNCHANGED answers
       ELSE /\ Ended(s)
            /\ answers' \in {answers, answers \cup {[effect |-> Len(effects) + 1, shows |-> "first"]}}
    /\ UNCHANGED family

\* IntegrityError: rollback, then the receipt of the winner or a 409.
Conflict(s) ==
    /\ req[s] # None /\ req[s].stage = "commit"
    /\ ~Unique(req[s].key)
    /\ Ended(s)
    /\ Replay(req[s].key, req[s].intent)
    /\ UNCHANGED <<family, receipts, effects>>

\* store_idempotency with the provisional record, known by object identity.
Complete(s) ==
    /\ req[s] # None /\ req[s].stage = "complete"
    /\ receipts[req[s].key] # None /\ receipts[req[s].key].effect = req[s].effect
    /\ receipts' = [receipts EXCEPT ![req[s].key].complete = TRUE]
    /\ answers' \in {answers, answers \cup {[effect |-> req[s].effect, shows |-> "first"]}}
    /\ Ended(s)
    /\ UNCHANGED <<family, effects>>

\* The process ends or the connection closes; nothing is committed.
Abandon(s) ==
    /\ req[s] # None
    /\ Ended(s)
    /\ UNCHANGED <<family, receipts, effects, answers>>

-----------------------------------------------------------------------------
(* Later operations on the resource *)

Becomes(e, st) == effects' = [effects EXCEPT ![e].state = st]

Move(e) ==
    /\ effects[e].state = "answered"
    /\ Becomes(e, "moved")
    /\ UNCHANGED <<family, receipts, req, answers>>

\* The other party's account is erased while a hold keeps the contact request:
\* its parties, purpose and message are replaced.
Rewrite(e) ==
    /\ family = "contact_request"
    /\ effects[e].state \in {"answered", "moved"}
    /\ Becomes(e, "rewritten")
    /\ UNCHANGED <<family, receipts, req, answers>>

Remove(e) ==
    /\ effects[e].state \in {"answered", "moved", "rewritten"}
    /\ Becomes(e, "gone")
    /\ UNCHANGED <<family, receipts, req, answers>>

\* _dispose_residues: the receipt goes in the transaction of the resource.
Dispose(e) ==
    /\ family \in Retained
    /\ effects[e].state \in {"answered", "moved", "rewritten"}
    /\ Becomes(e, "disposed")
    /\ receipts' = [receipts EXCEPT ![effects[e].key] = None]
    /\ UNCHANGED <<family, req, answers>>

ReceiptsNext ==
    \/ \E k \in Keys, i \in Intents : Retry(k, i) \/ \E s \in Slots : Begin(s, k, i)
    \/ \E s \in Slots : Store(s) \/ CommitReceipt(s) \/ Conflict(s) \/ Complete(s) \/ Abandon(s)
    \/ \E e \in DOMAIN effects : Move(e) \/ Rewrite(e) \/ Remove(e) \/ Dispose(e)

ReceiptsSpec == ReceiptsInit /\ [][ReceiptsNext]_receiptVars

-----------------------------------------------------------------------------
(* Properties *)

StandingEffects(k) == {e \in DOMAIN effects : effects[e].key = k /\ effects[e].state # "disposed"}

\* Two effects under one key are no state of the abstract specification.
StandingIntent(k) ==
    IF StandingEffects(k) = {} THEN None
    ELSE IF Cardinality(StandingEffects(k)) = 1
    THEN effects[CHOOSE e \in StandingEffects(k) : TRUE].intent
    ELSE "twice"

Abstract ==
    INSTANCE ExactlyOnce WITH
        standing <- [k \in Keys |-> StandingIntent(k)],
        told <- {<<effects[a.effect].key, effects[a.effect].intent>> : a \in answers}

\* The receipts implement the promise of a key, whatever requests race, are
\* lost between their commits or are retried: one effect per key, and a
\* success is told only for the request whose effect stands.
KeyIsExactlyOnce == Abstract!Spec
=============================================================================
