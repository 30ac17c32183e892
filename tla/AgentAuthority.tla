--------------------------- MODULE AgentAuthority ---------------------------
(***************************************************************************)
(* What lets an agent act for one owner: API keys, agent grants, agent     *)
(* identities with their mandates, and the owner's profile, which agents   *)
(* and the owner write and for which agents make proposals.                *)
(*                                                                         *)
(* A request is one PostgreSQL transaction and one SQLAlchemy session.  A  *)
(* row lock is kept to the end of the transaction.  The session keeps one  *)
(* object per row: a row that is read, and later read again FOR UPDATE,    *)
(* has the columns of the first read, while the WHERE clause of the second *)
(* sees the row as it is.                                                  *)
(*                                                                         *)
(* Receipts are modelled in Receipts, what an outreach does to its         *)
(* recipient in Contacts, and the denial of an erased account in           *)
(* AccountErasure.                                                         *)
(***************************************************************************)
EXTENDS Naturals, Sequences, FiniteSets

CONSTANTS
    Creds,          \* rows of api_keys and agent_grants
    Handles,        \* handles of agent identities
    Slots,          \* request slots of the API
    None,
    IdentityLimit,  \* active identities of a profile (ten)
    MaxVersion,     \* bound: versions of the document
    MaxProposals,   \* bound
    MaxOutreach,    \* bound
    MaxEvents       \* bound: expiries, identities, the operator's transitions

Kinds == {"key", "proposal_only", "direct", "mandate"}
MandateStatus == {"active", "revoked", "expired", "suspended"}
Credential ==
    [kind: Kinds, revoked: BOOLEAN, expired: BOOLEAN,
     handle: Handles \cup {None}, mandate: MandateStatus \cup {None}]
AgentProposal == [by: Creds, ifMatch: 1..MaxVersion, status: {"pending", "accepted", "rejected"}]
Transaction ==
    [op: {"agent"}, cred: Creds, at: {"read", "locked", "mandate", "document"}, valid: BOOLEAN,
     base: 0..MaxVersion]
        \cup [op: {"owner"}, base: 1..MaxVersion]
        \cup [op: {"revoke"}, cred: Creds]

ASSUME AuthorityAssumption ==
    /\ None \notin Credential \cup Transaction
    /\ MaxVersion \in Nat \ {0}
    /\ MaxProposals \in Nat /\ MaxOutreach \in Nat /\ MaxEvents \in Nat

VARIABLES
    cred,       \* ApiKey and AgentGrant rows; a mandate-bound grant has its AgentMandate
    identity,   \* AgentIdentity.status of each handle
    public,     \* the owner's profile is public
    written,    \* the writes of the profile as they commit: the version each was written on
    proposals,  \* AgentProposal rows in the order of their commits
    outreach,   \* outreach requests committed
    tx,         \* the open transaction of each slot
    events

vars == <<cred, identity, public, written, proposals, outreach, tx, events>>

TypeOK ==
    /\ cred \in [Creds -> Credential \cup {None}]
    /\ identity \in [Handles -> {"none", "active", "withdrawn", "withheld"}]
    /\ public \in BOOLEAN
    /\ written \in Seq(0..MaxVersion)
    /\ proposals \in Seq(AgentProposal)
    /\ outreach \in 0..MaxOutreach
    /\ tx \in [Slots -> Transaction \cup {None}]
    /\ events \in 0..MaxEvents

Init ==
    /\ cred = [c \in Creds |-> None]
    /\ identity = [h \in Handles |-> "none"]
    /\ public = TRUE
    /\ written = <<0>>
    /\ proposals = <<>>
    /\ outreach = 0
    /\ tx = [s \in Slots |-> None]
    /\ events = 0

-----------------------------------------------------------------------------
(* Rows and locks *)

Issued == {c \in Creds : cred[c] # None}
Mandated == {c \in Issued : cred[c].kind = "mandate"}

\* current_version, as the last commit left it.
Current == written[Len(written)] + 1

AgentAt(s, at) == tx[s] # None /\ tx[s].op = "agent" /\ tx[s].at = at

\* The key or grant row: verify takes it and the request keeps it.
CredLocked(c) ==
    \E s \in Slots :
        (AgentAt(s, "locked") \/ AgentAt(s, "mandate") \/ AgentAt(s, "document")) /\ tx[s].cred = c

MandateUnlocked(c) == FALSE     \* mutant: the mandate is read without FOR UPDATE

\* The mandate row: mandate_bound_identity and revoke_agent_mandate keep it.
MandateLocked(c) ==
    \E s \in Slots :
        /\ tx[s] # None /\ (tx[s].op = "revoke" \/ AgentAt(s, "mandate"))
        /\ tx[s].cred = c

Ended(s) == tx' = [tx EXCEPT ![s] = None]
Event == events < MaxEvents /\ events' = events + 1

-----------------------------------------------------------------------------
(* The owner: a Clerk human *)

Issue(c, row) ==
    /\ cred[c] = None
    /\ cred' = [cred EXCEPT ![c] = row]

\* create_api_key
CreateApiKey(c) ==
    /\ Issue(c, [kind |-> "key", revoked |-> FALSE, expired |-> FALSE, handle |-> None, mandate |-> None])
    /\ UNCHANGED <<identity, public, written, proposals, outreach, tx, events>>

\* create_agent_grant: a definition that agent_grant_definition_is_valid takes.
CreateAgentGrant(c, mode) ==
    /\ Issue(c, [kind |-> mode, revoked |-> FALSE, expired |-> FALSE, handle |-> None, mandate |-> None])
    /\ UNCHANGED <<identity, public, written, proposals, outreach, tx, events>>

\* revoke_api_key, or revoke_agent_grant: the write waits for the row.
RevokeCredential(c) ==
    /\ c \in Issued /\ ~CredLocked(c)
    /\ ~cred[c].revoked
    /\ cred' = [cred EXCEPT ![c].revoked = TRUE]
    /\ UNCHANGED <<identity, public, written, proposals, outreach, tx, events>>

\* The identity lives: active, with a public profile.
LiveIdentity(h) == identity[h] = "active" /\ public

\* create_agent_identity: under the lock of the profile.
CreateAgentIdentity(h) ==
    /\ Event
    /\ public
    /\ Cardinality({g \in Handles : identity[g] = "active"}) < IdentityLimit
    /\ identity[h] = "none"
    /\ identity' = [identity EXCEPT ![h] = "active"]
    /\ UNCHANGED <<cred, public, written, proposals, outreach, tx>>

\* withdraw_agent_identity: mandates and grants of the identity stay as they are.
WithdrawAgentIdentity(h) ==
    /\ Event
    /\ identity[h] = "active"
    /\ identity' = [identity EXCEPT ![h] = "withdrawn"]
    /\ UNCHANGED <<cred, public, written, proposals, outreach, tx>>

\* create_agent_mandate: under the locks of the identity and the profile; an
\* expired mandate makes room, an active one is a conflict.
CreateAgentMandate(c, h) ==
    LET active == {d \in Mandated : cred[d].handle = h /\ cred[d].mandate = "active"}
        row == [kind |-> "mandate", revoked |-> FALSE, expired |-> FALSE, handle |-> h,
                mandate |-> "active"]
    IN /\ LiveIdentity(h)
       /\ \A d \in active : ~MandateLocked(d) /\ cred[d].expired
       /\ cred[c] = None
       /\ cred' = [d \in Creds |->
            IF d = c THEN row
            ELSE IF d \in active THEN [cred[d] EXCEPT !.mandate = "expired"] ELSE cred[d]]
       /\ UNCHANGED <<identity, public, written, proposals, outreach, tx, events>>

\* revoke_agent_mandate up to its second lock: the mandate's row.
BeginRevokeMandate(s, c) ==
    /\ tx[s] = None
    /\ c \in Mandated /\ ~MandateLocked(c)
    /\ cred[c].mandate # "revoked"
    /\ tx' = [tx EXCEPT ![s] = [op |-> "revoke", cred |-> c]]
    /\ UNCHANGED <<cred, identity, public, written, proposals, outreach, events>>

\* Then the grant's row; both are revoked.
FinishRevokeMandate(s) ==
    LET c == tx[s].cred IN
    /\ tx[s] # None /\ tx[s].op = "revoke"
    /\ ~CredLocked(c)
    /\ cred' = [cred EXCEPT ![c].mandate = "revoked", ![c].revoked = TRUE]
    /\ Ended(s)
    /\ UNCHANGED <<identity, public, written, proposals, outreach, events>>

-----------------------------------------------------------------------------
(* The operator *)

\* transition_agent_identity: a restored identity is not counted again.
TransitionAgentIdentity(h) ==
    /\ Event
    /\ identity[h] \in {"active", "withheld"}
    /\ identity' = [identity EXCEPT ![h] = IF @ = "active" THEN "withheld" ELSE "active"]
    /\ UNCHANGED <<cred, public, written, proposals, outreach, tx>>

\* transition_agent_mandate; the index of active mandates refuses to restore one
\* that the owner has replaced.
TransitionAgentMandate(c, to) ==
    /\ Event
    /\ c \in Mandated /\ ~MandateLocked(c) /\ ~cred[c].expired
    /\ cred[c].mandate = IF to = "suspended" THEN "active" ELSE "suspended"
    /\ to = "active" =>
        \A d \in Mandated : cred[d].handle = cred[c].handle => cred[d].mandate # "active"
    /\ cred' = [cred EXCEPT ![c].mandate = to]
    /\ UNCHANGED <<identity, public, written, proposals, outreach, tx>>

-----------------------------------------------------------------------------
(* The agent *)

\* verify up to the Argon2 thread: the candidate row and the time are read.
ReadCredential(s, c) ==
    /\ tx[s] = None
    /\ c \in Issued
    /\ tx' = [tx EXCEPT ![s] =
        [op |-> "agent", cred |-> c, at |-> "read", valid |-> ~cred[c].revoked /\ ~cred[c].expired,
         base |-> 0]]
    /\ UNCHANGED <<cred, identity, public, written, proposals, outreach, events>>

\* The rest of it: the row's lock, then the tests on the object read before.
LockCredential(s) ==
    /\ AgentAt(s, "read")
    /\ ~CredLocked(tx[s].cred)
    /\ IF tx[s].valid THEN tx' = [tx EXCEPT ![s].at = "locked"] ELSE Ended(s)
    /\ UNCHANGED <<cred, identity, public, written, proposals, outreach, events>>

MayPropose(c) == cred[c].kind \in {"proposal_only", "direct"}
MayWrite(c) == cred[c].kind \in {"key", "direct"}

\* A request reads the profile without a lock and keeps the object: of an agent,
ReadDocument(s) ==
    /\ AgentAt(s, "locked") /\ (MayPropose(tx[s].cred) \/ MayWrite(tx[s].cred))
    /\ tx' = [tx EXCEPT ![s].at = "document", ![s].base = Current]
    /\ UNCHANGED <<cred, identity, public, written, proposals, outreach, events>>

\* and of the owner.
OwnerReadsDocument(s) ==
    /\ tx[s] = None
    /\ tx' = [tx EXCEPT ![s] = [op |-> "owner", base |-> Current]]
    /\ UNCHANGED <<cred, identity, public, written, proposals, outreach, events>>

\* if_match_satisfied: the digest of the version read names its number.
IfMatch(ifMatch, base) == ifMatch = base

\* _submit_proposal_write: If-Match is tested on the object, no row is locked.
SubmitProposal(s, ifMatch) ==
    /\ AgentAt(s, "document") /\ MayPropose(tx[s].cred)
    /\ IfMatch(ifMatch, tx[s].base)
    /\ Len(proposals) < MaxProposals
    /\ proposals' = Append(proposals, [by |-> tx[s].cred, ifMatch |-> ifMatch, status |-> "pending"])
    /\ Ended(s)
    /\ UNCHANGED <<cred, identity, public, written, outreach, events>>

AnyVersion(v) == TRUE       \* mutant: a version number can be used twice

\* uq_document_versions_version; the path of a version is as immutable as its row.
UniqueVersion(v) == \A w \in DOMAIN written : written[w] + 1 # v

\* DocumentService.update as a whole (ArtifactDurability has its steps): FOR UPDATE
\* does not refresh the object, so If-Match is tested on the version read before.
Update(base, ifMatch, visible) ==
    /\ IfMatch(ifMatch, base)
    /\ base < MaxVersion
    /\ UniqueVersion(base + 1)
    /\ written' = Append(written, ifMatch)
    /\ public' = visible

\* _update_document_write of an agent or of the owner.
WriteDocument(s, ifMatch, visible) ==
    /\ tx[s] # None
    /\ tx[s].op = "owner" \/ (AgentAt(s, "document") /\ MayWrite(tx[s].cred))
    /\ Update(tx[s].base, ifMatch, visible)
    /\ Ended(s)
    /\ UNCHANGED <<cred, identity, proposals, outreach, events>>

\* mandate_bound_identity: the mandate's row, the grant where it is not revoked,
\* the identity without a lock.
LockMandate(s) ==
    LET c == tx[s].cred IN
    /\ AgentAt(s, "locked") /\ c \in Mandated
    /\ ~MandateLocked(c)
    /\ IF /\ cred[c].mandate = "active" /\ ~cred[c].revoked /\ ~cred[c].expired
          /\ identity[cred[c].handle] = "active"
       THEN tx' = [tx EXCEPT ![s].at = "mandate"]
       ELSE Ended(s)
    /\ UNCHANGED <<cred, identity, public, written, proposals, outreach, events>>

\* lock_live_outreach_identities and the placement: the identity's status is the
\* one read before its lock, the profile's visibility is read under its lock.
SendOutreach(s) ==
    /\ AgentAt(s, "mandate")
    /\ public
    /\ outreach < MaxOutreach /\ outreach' = outreach + 1
    /\ Ended(s)
    /\ UNCHANGED <<cred, identity, public, written, proposals, events>>

-----------------------------------------------------------------------------
(* Proposals *)

\* list_proposals: what the owner can decide.
Undecided == {p \in DOMAIN proposals : proposals[p].status = "pending"}

\* decide_proposal: the proposal's row is locked, then the profile, which is read
\* there for the first time; an acceptance whose version is stale is rolled back.
Decide(p, status, visible) ==
    /\ p \in Undecided
    /\ proposals' = [proposals EXCEPT ![p].status = status]
    /\ IF status = "accepted"
       THEN Update(Current, proposals[p].ifMatch, visible)
       ELSE UNCHANGED <<written, public>>
    /\ UNCHANGED <<cred, identity, outreach, tx, events>>

-----------------------------------------------------------------------------
(* The environment *)

\* A request that is refused or cancelled, or that PostgreSQL aborts when two wait
\* for each other.
Cancel(s) ==
    /\ tx[s] # None
    /\ Ended(s)
    /\ UNCHANGED <<cred, identity, public, written, proposals, outreach, events>>

\* expires_at passes, of a grant and its mandate together.
Expire(c) ==
    /\ Event
    /\ c \in Issued /\ cred[c].kind # "key" /\ ~cred[c].expired
    /\ cred' = [cred EXCEPT ![c].expired = TRUE]
    /\ UNCHANGED <<identity, public, written, proposals, outreach, tx>>

Next ==
    \/ \E c \in Creds :
        \/ CreateApiKey(c) \/ RevokeCredential(c) \/ Expire(c)
        \/ \E mode \in {"proposal_only", "direct"} : CreateAgentGrant(c, mode)
        \/ \E h \in Handles : CreateAgentMandate(c, h)
        \/ \E s \in Slots : BeginRevokeMandate(s, c) \/ ReadCredential(s, c)
    \/ \E h \in Handles : CreateAgentIdentity(h) \/ WithdrawAgentIdentity(h) \/ TransitionAgentIdentity(h)
    \/ \E c \in Creds, to \in {"active", "suspended"} : TransitionAgentMandate(c, to)
    \/ \E s \in Slots :
        \/ FinishRevokeMandate(s) \/ LockCredential(s) \/ LockMandate(s) \/ SendOutreach(s) \/ Cancel(s)
        \/ ReadDocument(s) \/ OwnerReadsDocument(s)
        \/ \E v \in 1..MaxVersion : SubmitProposal(s, v)
        \/ \E v \in 1..MaxVersion, visible \in BOOLEAN : WriteDocument(s, v, visible)
    \/ \E p \in DOMAIN proposals, status \in {"accepted", "rejected"}, visible \in BOOLEAN :
        Decide(p, status, visible)

Spec == Init /\ [][Next]_vars

-----------------------------------------------------------------------------
(* Properties *)

\* A step that commits an outreach is taken on an active mandate and a grant
\* that is not revoked.
ActsUnrevoked ==
    outreach' # outreach =>
        \A s \in Slots : AgentAt(s, "mandate") /\ tx'[s] = None =>
            cred[tx[s].cred].mandate = "active" /\ ~cred[tx[s].cred].revoked

\* An outreach is never committed for a mandate, or with its grant, after the
\* revocation of either, or the suspension of the mandate, has committed.
RevokedMandateCannotAct == [][ActsUnrevoked]_vars

\* No update is lost, although If-Match is tested on an object that was read
\* before the lock: every write that commits was made on the version that the
\* write before it left, and of the proposals made for one version at most one is
\* accepted (DocumentService.update, decide_proposal).
NoLostUpdate ==
    /\ \A v \in DOMAIN written : written[v] = v - 1
    /\ \A p, q \in DOMAIN proposals :
        proposals[p].status = "accepted" /\ proposals[q].status = "accepted"
            /\ proposals[p].ifMatch = proposals[q].ifMatch => p = q
=============================================================================
