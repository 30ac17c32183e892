------------------------------ MODULE Contacts ------------------------------
(***************************************************************************)
(* Contact policies, contact requests and agent outreach.                  *)
(*                                                                         *)
(* A handler is one PostgreSQL transaction under READ COMMITTED.  It is    *)
(* one step where every row it decides on is locked from its first read to *)
(* its commit; it is several steps where another transaction can get in    *)
(* between two of its statements.  A step that waits for a row lock is     *)
(* disabled while another transaction holds the lock.                      *)
(*                                                                         *)
(* Each owner has one public profile and one agent with an identity, a     *)
(* mandate and a grant; what ends them is the environment's.  What a       *)
(* handler reads of them before their locks, and keeps, is modelled in     *)
(* AgentAuthority.  All agents call from one network peer.  A key is used  *)
(* for one request only, sent any number of times.                         *)
(***************************************************************************)
EXTENDS Naturals, Sequences, FiniteSets

CONSTANTS
    Owners, ContactKeys,
    ContactSlots,   \* request slots of the API
    Absent,         \* no row, and no transaction in a slot
    SenderLimit,    \* _CONTACT_SENDER_DAILY_LIMIT
    PeerLimit,      \* agent_outreach_direct_peer_daily_limit
    Limits,         \* values of daily_request_limit that owners choose from
    ContactEvents,  \* bound: new days and acts of other handlers
    MaxPolicy       \* bound: versions of a policy

VARIABLES
    policy,         \* ContactPolicy of each owner
    rows,           \* ContactRequest rows in the order of their commits
    contactBlocks,  \* ContactBlock rows <<blocker, blocked>>
    blocks,         \* ConnectionBlock rows, written by the connection handlers
    sent,           \* ContactRateBucket of today
    received,       \* AgentOutreachRecipientRateBucket of today
    peer,           \* AgentOutreachDirectPeerRateBucket of today
    receipt,        \* IdempotencyRecord: the row a key made, 0 for another effect
    contactTx,      \* the open transaction of each slot
    published,      \* owners with a public profile
    mandated,       \* owners whose agent's grant, mandate and identity are live
    contactEvents

contactVars == <<policy, rows, contactBlocks, blocks, sent, received, peer, receipt, contactTx,
                 published, mandated, contactEvents>>
environment == <<published, mandated, contactEvents>>
buckets == <<sent, received, peer>>

Origins == {"profile_contact", "agent_outreach"}
Decisions == [accept |-> "accepted", reject |-> "rejected", block |-> "blocked", report |-> "reported"]
Statuses == {"pending", "accepted", "rejected", "blocked", "reported"}

ContactPolicy == [allow: BOOLEAN, limit: Limits, version: 1..MaxPolicy]
ContactRequest ==
    [from: Owners, to: Owners, origin: Origins, status: Statuses, key: ContactKeys,
     expired: BOOLEAN, today: BOOLEAN]
Transaction ==
    [op: {"place"}, at: {"admitted", "policy"}, key: ContactKeys, by: Owners, to: Owners, origin: Origins]
        \cup [op: {"decide"}, key: ContactKeys, row: Nat, act: {"block", "report"}]

ASSUME ContactsAssumption ==
    /\ Absent \notin Transaction \cup ContactPolicy
    /\ SenderLimit \in Nat /\ PeerLimit \in Nat /\ Limits \subseteq Nat
    /\ ContactEvents \in Nat /\ MaxPolicy \in Nat

ContactsTypeOK ==
    /\ policy \in [Owners -> ContactPolicy \cup {Absent}]
    /\ rows \in Seq(ContactRequest)
    /\ contactBlocks \subseteq Owners \X Owners /\ blocks \subseteq Owners \X Owners
    /\ sent \in [Owners -> 0..SenderLimit]
    /\ received \in [Owners -> Nat] /\ peer \in 0..PeerLimit
    /\ receipt \in [ContactKeys -> 0..Len(rows) \cup {Absent}]
    /\ contactTx \in [ContactSlots -> Transaction \cup {Absent}]
    /\ published \subseteq Owners /\ mandated \subseteq Owners /\ contactEvents \in 0..ContactEvents

ContactsInit ==
    /\ policy = [o \in Owners |-> Absent]
    /\ rows = <<>>
    /\ contactBlocks = {} /\ blocks = {}
    /\ sent = [o \in Owners |-> 0] /\ received = [o \in Owners |-> 0] /\ peer = 0
    /\ receipt = [k \in ContactKeys |-> Absent]
    /\ contactTx = [s \in ContactSlots |-> Absent]
    /\ published = Owners /\ mandated = Owners
    /\ contactEvents = 0

-----------------------------------------------------------------------------
(* Rows and locks *)

ConnectionBlocked(x, y) == <<x, y>> \in blocks \/ <<y, x>> \in blocks

\* The transaction of a slot is in this handler.
Runs(s, op) == contactTx[s] # Absent /\ contactTx[s].op = op

\* ContactPolicy ... FOR UPDATE: a placement keeps the recipient's row.
PolicyLocked(o) ==
    \E s \in ContactSlots : Runs(s, "place") /\ contactTx[s].at = "policy" /\ contactTx[s].to = o

NoRowLock(i) == FALSE       \* mutant: the row is read without FOR UPDATE

\* ContactRequest ... FOR UPDATE: a decision keeps its row.
RowLocked(i) == \E s \in ContactSlots : Runs(s, "decide") /\ contactTx[s].row = i

\* mandate_bound_identity and lock_live_outreach_identities keep the mandate,
\* the grant, both identities and both profiles to the end.
OutreachLocked(o) ==
    \E s \in ContactSlots :
        /\ Runs(s, "place") /\ contactTx[s].origin = "agent_outreach"
        /\ o \in {contactTx[s].by, contactTx[s].to}

\* The pending row of a pair; an index makes it unique.
Pending(x, y) == {i \in DOMAIN rows : rows[i].from = x /\ rows[i].to = y /\ rows[i].status = "pending"}

ContactEnded(s) == contactTx' = [contactTx EXCEPT ![s] = Absent]

-----------------------------------------------------------------------------
(* Contact policy *)

\* contact_policy_response: the version in the ETag, 0 without a row.
PolicyVersion(o) == IF policy[o] = Absent THEN 0 ELSE policy[o].version

\* update_contact_policy: the advisory lock of the owner, the receipt, the row,
\* If-Match, then the write with its receipt.
UpdateContactPolicy(k, o, ifMatch, allow, limit) ==
    /\ ~PolicyLocked(o)
    /\ receipt[k] = Absent
    /\ ifMatch = PolicyVersion(o) /\ ifMatch < MaxPolicy
    /\ policy' = [policy EXCEPT ![o] = [allow |-> allow, limit |-> limit, version |-> ifMatch + 1]]
    /\ receipt' = [receipt EXCEPT ![k] = 0]
    /\ UNCHANGED <<rows, contactBlocks, blocks, buckets, contactTx, environment>>

-----------------------------------------------------------------------------
(* Placing a request *)

\* mandate_bound_identity of the sender, lock_live_outreach_identities of both.
OutreachAuthority(x, y) == x \in mandated /\ y \in mandated /\ {x, y} \subseteq published

\* create_contact_request, or create_agent_outreach, up to the first lock of
\* place_contact_request: authority, receipt, target.
AdmitContact(s, k, x, y, origin) ==
    /\ contactTx[s] = Absent
    /\ receipt[k] = Absent
    /\ x # y /\ y \in published
    /\ origin = "agent_outreach" =>
        /\ OutreachAuthority(x, y)
        /\ ~OutreachLocked(x) /\ ~OutreachLocked(y)
    /\ contactTx' = [contactTx EXCEPT ![s] =
        [op |-> "place", at |-> "admitted", key |-> k, by |-> x, to |-> y, origin |-> origin]]
    /\ UNCHANGED <<policy, rows, contactBlocks, blocks, buckets, receipt, environment>>

\* The recipient accepts requests of agents.
Accepts(o) == policy[o] # Absent /\ policy[o].allow

\* place_contact_request: the policy under its lock, then both kinds of block.
LockPolicy(s) ==
    /\ Runs(s, "place") /\ contactTx[s].at = "admitted"
    /\ policy[contactTx[s].to] = Absent \/ ~PolicyLocked(contactTx[s].to)
    /\ IF /\ Accepts(contactTx[s].to)
          /\ <<contactTx[s].to, contactTx[s].by>> \notin contactBlocks
          /\ ~ConnectionBlocked(contactTx[s].by, contactTx[s].to)
       THEN contactTx' = [contactTx EXCEPT ![s].at = "policy"]
       ELSE ContactEnded(s)
    /\ UNCHANGED <<policy, rows, contactBlocks, blocks, buckets, receipt, environment>>

\* mutant: the buckets are consumed by a transaction of their own
ConsumedApart(x, y, origin, placed) ==
    /\ sent' = [sent EXCEPT ![x] = IF @ < SenderLimit THEN @ + 1 ELSE @]
    /\ received' = IF placed THEN [received EXCEPT ![y] = @ + 1] ELSE received
    /\ peer' = IF placed /\ origin = "agent_outreach" THEN peer + 1 ELSE peer

\* The upserts of the rate buckets; a refused request rolls them back.
Consumed(x, y, origin, placed) ==
    IF placed
    THEN /\ sent' = [sent EXCEPT ![x] = @ + 1]
         /\ received' = [received EXCEPT ![y] = @ + 1]
         /\ peer' = IF origin = "agent_outreach" THEN peer + 1 ELSE peer
    ELSE UNCHANGED buckets

\* Every bucket has room for one more.
WithinLimits(x, y, origin) ==
    /\ sent[x] < SenderLimit
    /\ received[y] < policy[y].limit
    /\ origin = "agent_outreach" => peer < PeerLimit

\* An expired pending row is rejected by system:retention and frees the pair.
ReleaseExpired(x, y) ==
    [i \in DOMAIN rows |->
        IF i \in Pending(x, y) /\ rows[i].expired
        THEN [rows[i] EXCEPT !.status = "rejected"] ELSE rows[i]]

\* The rest of place_contact_request, from the lock of the pending row to the
\* commit.  The unique keys are those of the pair and of the receipt.
Place(s) ==
    LET x == contactTx[s].by  y == contactTx[s].to  k == contactTx[s].key  o == contactTx[s].origin
        free == \A i \in Pending(x, y) : rows[i].expired
        placed == WithinLimits(x, y, o) /\ free /\ receipt[k] = Absent
        new == [from |-> x, to |-> y, origin |-> o, status |-> "pending", key |-> k,
                expired |-> FALSE, today |-> TRUE]
    IN /\ Runs(s, "place") /\ contactTx[s].at = "policy"
       /\ \A i \in Pending(x, y) : ~RowLocked(i)
       /\ rows' = IF placed THEN Append(ReleaseExpired(x, y), new) ELSE rows
       /\ receipt' = IF placed THEN [receipt EXCEPT ![k] = Len(rows) + 1] ELSE receipt
       /\ Consumed(x, y, o, placed)
       /\ ContactEnded(s)
       /\ UNCHANGED <<policy, contactBlocks, blocks, environment>>

-----------------------------------------------------------------------------
(* Deciding a request *)

\* contact_inbox without a status filter.
ContactInbox(o) ==
    {i \in DOMAIN rows :
        /\ rows[i].to = o /\ ~rows[i].expired
        /\ ~ConnectionBlocked(rows[i].from, o)
        /\ rows[i].status # "blocked"}

\* decide_contact_request up to the write: the row under its lock, the receipt
\* again, then what refuses a decision.  Only a human decides an outreach.
Decidable(k, i, human) ==
    /\ i \in DOMAIN rows /\ ~RowLocked(i)
    /\ receipt[k] = Absent
    /\ human \/ rows[i].origin # "agent_outreach"
    /\ i \in ContactInbox(rows[i].to)
    /\ rows[i].status = "pending"

\* accept and reject write at once.
AnswerContactRequest(k, i, act, human) ==
    /\ act \in {"accept", "reject"}
    /\ Decidable(k, i, human)
    /\ rows' = [rows EXCEPT ![i].status = Decisions[act]]
    /\ receipt' = [receipt EXCEPT ![k] = 0]
    /\ UNCHANGED <<policy, contactBlocks, blocks, buckets, contactTx, environment>>

\* block and report go on to the policy row.
BeginBlock(s, k, i, act, human) ==
    /\ contactTx[s] = Absent
    /\ act \in {"block", "report"}
    /\ Decidable(k, i, human)
    /\ contactTx' = [contactTx EXCEPT ![s] = [op |-> "decide", key |-> k, row |-> i, act |-> act]]
    /\ UNCHANGED <<policy, rows, contactBlocks, blocks, buckets, receipt, environment>>

NoPolicyLock(o) == FALSE    \* mutant: the policy row is not locked

\* A decision waits for the recipient's policy row.
BlockWaits(o) == policy[o] # Absent /\ PolicyLocked(o)

FinishBlock(s) ==
    LET i == contactTx[s].row IN
    /\ Runs(s, "decide")
    /\ ~BlockWaits(rows[i].to)
    /\ IF receipt[contactTx[s].key] = Absent
       THEN /\ rows' = [rows EXCEPT ![i].status = Decisions[contactTx[s].act]]
            /\ contactBlocks' = contactBlocks \cup {<<rows[i].to, rows[i].from>>}
            /\ receipt' = [receipt EXCEPT ![contactTx[s].key] = 0]
       ELSE UNCHANGED <<rows, contactBlocks, receipt>>
    /\ ContactEnded(s)
    /\ UNCHANGED <<policy, blocks, buckets, environment>>

-----------------------------------------------------------------------------
(* Waiting and the environment *)

\* Slot s waits for a row that slot t has locked.
WaitsFor(s, t) ==
    \/ /\ Runs(s, "place") /\ contactTx[s].at = "policy"
       /\ Runs(t, "decide") /\ contactTx[t].row \in Pending(contactTx[s].by, contactTx[s].to)
    \/ /\ Runs(s, "decide")
       /\ Runs(t, "place") /\ contactTx[t].at = "policy" /\ contactTx[t].to = rows[contactTx[s].row].to

\* PostgreSQL ends one of two transactions that wait for each other.
AbortVictim(s) ==
    /\ \E t \in ContactSlots : WaitsFor(s, t) /\ WaitsFor(t, s)
    /\ ContactEnded(s)
    /\ UNCHANGED <<policy, rows, contactBlocks, blocks, buckets, receipt, environment>>

\* The request is cancelled or its database connection is lost.
CancelContact(s) ==
    /\ contactTx[s] # Absent
    /\ ContactEnded(s)
    /\ UNCHANGED <<policy, rows, contactBlocks, blocks, buckets, receipt, environment>>

Event == contactEvents < ContactEvents /\ contactEvents' = contactEvents + 1

\* The connection handlers commit a block; they take none of these locks.
ConnectionBlock(x, y) ==
    /\ Event
    /\ x # y
    /\ blocks' = blocks \cup {<<x, y>>}
    /\ UNCHANGED <<policy, rows, contactBlocks, buckets, receipt, contactTx, published, mandated>>

Unpublish(o) ==
    /\ Event
    /\ o \in published /\ ~OutreachLocked(o)
    /\ published' = published \ {o}
    /\ UNCHANGED <<policy, rows, contactBlocks, blocks, buckets, receipt, contactTx, mandated>>

RevokeMandate(o) ==
    /\ Event
    /\ o \in mandated /\ ~OutreachLocked(o)
    /\ mandated' = mandated \ {o}
    /\ UNCHANGED <<policy, rows, contactBlocks, blocks, buckets, receipt, contactTx, published>>

\* retention_expires_at passes, a year after the row was written.
Expire(i) ==
    /\ i \in DOMAIN rows /\ ~rows[i].today /\ ~rows[i].expired
    /\ rows' = [rows EXCEPT ![i].expired = TRUE]
    /\ UNCHANGED <<policy, contactBlocks, blocks, buckets, receipt, contactTx, environment>>

\* The next bucket_date: buckets start from nothing.
NewDay ==
    /\ Event
    /\ sent' = [o \in Owners |-> 0] /\ received' = [o \in Owners |-> 0] /\ peer' = 0
    /\ rows' = [i \in DOMAIN rows |-> [rows[i] EXCEPT !.today = FALSE]]
    /\ UNCHANGED <<policy, contactBlocks, blocks, receipt, contactTx, published, mandated>>

ContactsNext ==
    \/ \E k \in ContactKeys, o \in Owners, v \in 0..MaxPolicy, allow \in BOOLEAN, l \in Limits :
        UpdateContactPolicy(k, o, v, allow, l)
    \/ \E s \in ContactSlots, k \in ContactKeys, x \in Owners, y \in Owners, o \in Origins :
        AdmitContact(s, k, x, y, o)
    \/ \E s \in ContactSlots :
        LockPolicy(s) \/ Place(s) \/ FinishBlock(s) \/ AbortVictim(s) \/ CancelContact(s)
    \/ \E k \in ContactKeys, i \in DOMAIN rows, human \in BOOLEAN :
        \E act \in DOMAIN Decisions :
            \/ AnswerContactRequest(k, i, act, human)
            \/ \E s \in ContactSlots : BeginBlock(s, k, i, act, human)
    \/ \E x \in Owners, y \in Owners : ConnectionBlock(x, y)
    \/ \E o \in Owners : Unpublish(o) \/ RevokeMandate(o)
    \/ \E i \in DOMAIN rows : Expire(i)
    \/ NewDay

ContactsSpec == ContactsInit /\ [][ContactsNext]_contactVars

-----------------------------------------------------------------------------
(* Properties *)

\* A request that a step commits is not from a sender its owner has blocked.
RequestIsUnblocked ==
    Len(rows') > Len(rows) =>
        LET new == rows'[Len(rows')] IN <<new.to, new.from>> \notin contactBlocks

\* Once an owner has blocked or reported a sender, no further request of that
\* sender is committed, even one that had passed its checks before the block
\* (place_contact_request against decide_contact_request).
NoRequestPastBlock == [][RequestIsUnblocked]_contactVars

\* A step leaves the requests that are decided as they are.
DecisionsStand ==
    \A i \in DOMAIN rows : rows[i].status # "pending" => rows'[i].status = rows[i].status

\* A decision on a contact request is final: of two, sent at the same time by
\* the human and by an agent, only one is ever committed.
ContactDecisionIsFinal == [][DecisionsStand]_contactVars

\* The buckets count the contact requests of the day and nothing else: what is
\* refused after a bucket was consumed, or is sent twice, uses up no quota.
QuotaCountsRequests ==
    \A o \in Owners :
        /\ sent[o] = Cardinality({i \in DOMAIN rows : rows[i].today /\ rows[i].from = o})
        /\ received[o] = Cardinality({i \in DOMAIN rows : rows[i].today /\ rows[i].to = o})
=============================================================================
