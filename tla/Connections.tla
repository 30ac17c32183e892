----------------------------- MODULE Connections -----------------------------
(***************************************************************************)
(* Connection requests, connections, conversations and messages.           *)
(*                                                                         *)
(* As in Contacts, a handler is a READ COMMITTED transaction and is split  *)
(* where another one can commit between two of its statements.  Only a     *)
(* signed-in human calls these handlers.  A connection has at most one     *)
(* conversation, which is kept with it; a conversation never expires       *)
(* before its connection.  The receipt each handler commits with its       *)
(* effects, and the answer to a repeated request, are those of Receipts.   *)
(***************************************************************************)
EXTENDS Naturals, Sequences, FiniteSets

CONSTANTS
    Peers, PeerSlots,
    NoTx,           \* what an idle slot holds
    RequestLimit,   \* connection requests of an owner in a day
    MessageLimit,   \* messages of an owner in a day
    PeerEvents,     \* bound: expired requests, new days and withdrawn profiles
    MaxCommits      \* bound: committed requests

VARIABLES
    requests,       \* ConnectionRequest rows in the order of their commits
    conns,          \* Connection rows, each with its Conversation
    messages,       \* Message rows
    peerBlocks,     \* ConnectionBlock rows <<blocker, blocked>>
    asked, sent,    \* ConnectionRequestRateBucket and MessageRateBucket of today
    unread,         \* owners with an unread Notification row
    commits,        \* how many requests have been committed
    peerTx,         \* the open transaction of each slot
    published,      \* owners with a public profile
    peerEvents

connectionVars ==
    <<requests, conns, messages, peerBlocks, asked, sent, unread, commits, peerTx, published, peerEvents>>

RequestStatuses == {"pending", "accepted", "rejected", "blocked"}
ConnectionRequest ==
    [from: Peers, to: Peers, ask: BOOLEAN, status: RequestStatuses, expired: BOOLEAN]
Connection ==
    [req: Nat, enabled: BOOLEAN, status: {"active", "removed", "blocked"}, expired: BOOLEAN,
     conv: {"none", "active", "closed", "blocked"}]
Message == [conn: Nat, from: Peers]
ConnectionTransaction ==
    [op: {"request", "unrequested", "unconnected"}, by: Peers, to: Peers, lapsed: SUBSET Nat]
        \cup [op: {"accept"}, row: Nat]
        \cup [op: {"remove", "block", "converse", "send"}, conn: Nat, by: Peers]

ASSUME ConnectionsAssumption ==
    /\ NoTx \notin ConnectionTransaction
    /\ RequestLimit \in Nat /\ MessageLimit \in Nat
    /\ PeerEvents \in Nat /\ MaxCommits \in Nat

ConnectionsTypeOK ==
    /\ requests \in Seq(ConnectionRequest) /\ conns \in Seq(Connection) /\ messages \in Seq(Message)
    /\ peerBlocks \subseteq Peers \X Peers
    /\ asked \in [Peers -> 0..RequestLimit] /\ sent \in [Peers -> 0..MessageLimit]
    /\ unread \subseteq Peers
    /\ commits \in 0..MaxCommits
    /\ peerTx \in [PeerSlots -> ConnectionTransaction \cup {NoTx}]
    /\ published \subseteq Peers /\ peerEvents \in 0..PeerEvents

ConnectionsInit ==
    /\ requests = <<>> /\ conns = <<>> /\ messages = <<>>
    /\ peerBlocks = {}
    /\ asked = [o \in Peers |-> 0] /\ sent = [o \in Peers |-> 0]
    /\ unread = {}
    /\ commits = 0
    /\ peerTx = [s \in PeerSlots |-> NoTx]
    /\ published = Peers /\ peerEvents = 0

-----------------------------------------------------------------------------
(* Rows and locks *)

BlockedBy(x, y) == <<x, y>> \in peerBlocks      \* mutant: one direction only

\* connection_blocked, in either direction.
Blocked(x, y) == <<x, y>> \in peerBlocks \/ <<y, x>> \in peerBlocks

Pair(c) == {requests[conns[c].req].from, requests[conns[c].req].to}
Counterparty(c, o) == CHOOSE p \in Pair(c) : p # o
Between(x, y) == {c \in DOMAIN conns : Pair(c) = {x, y}}

\* The rows that the index on the pair's pending and accepted requests covers.
Reserved(x, y) ==
    {i \in DOMAIN requests :
        {requests[i].from, requests[i].to} = {x, y} /\ requests[i].status \in {"pending", "accepted"}}

PeerRuns(s, op) == peerTx[s] # NoTx /\ peerTx[s].op = op

RequestLocked(i) == \E s \in PeerSlots : PeerRuns(s, "accept") /\ peerTx[s].row = i

\* The connection row FOR UPDATE, and lock_social_admission's conditional UPDATE.
ConnectionLocked(c) ==
    \E s \in PeerSlots, op \in {"remove", "block", "converse", "send"} :
        PeerRuns(s, op) /\ peerTx[s].conn = c

\* active_connection_for_participant.
Live(c, o) ==
    /\ conns[c].status = "active" /\ ~conns[c].expired
    /\ o \in Pair(c)
    /\ \A p \in Pair(c) : p # o => ~Blocked(o, p)

\* lock_social_admission of the connection.
Admits(c) == conns[c].status = "active" /\ conns[c].enabled /\ ~conns[c].expired

\* The receipt and every effect are committed together.
Committed == commits < MaxCommits /\ commits' = commits + 1

PeerEnded(s) == peerTx' = [peerTx EXCEPT ![s] = NoTx]
PeerBegun(s, t) == peerTx[s] = NoTx /\ peerTx' = [peerTx EXCEPT ![s] = t]

\* add_notification
Notified(o) == unread' = unread \cup {o}

-----------------------------------------------------------------------------
(* Connection requests *)

\* create_connection_request up to connection_blocked.
BeginRequest(s, x, y) ==
    /\ x # y /\ {x, y} \subseteq published
    /\ ~Blocked(x, y)
    /\ PeerBegun(s, [op |-> "request", by |-> x, to |-> y, lapsed |-> {}])
    /\ UNCHANGED <<requests, conns, messages, peerBlocks, asked, sent, unread, commits, published, peerEvents>>

\* The time is taken, and the pair's unexpired request is looked for without a lock.
ReadRequest(s) ==
    LET reserved == Reserved(peerTx[s].by, peerTx[s].to) IN
    /\ PeerRuns(s, "request")
    /\ IF \A i \in reserved : requests[i].expired
       THEN peerTx' = [peerTx EXCEPT ![s].op = "unrequested", ![s].lapsed = reserved]
       ELSE PeerEnded(s)
    /\ UNCHANGED <<requests, conns, messages, peerBlocks, asked, sent, unread, commits, published, peerEvents>>

\* So is its active connection.  One that expires after the time was taken counts
\* as expired here, which only lets more requests pass.
ReadConnection(s) ==
    /\ PeerRuns(s, "unrequested")
    /\ IF \A c \in Between(peerTx[s].by, peerTx[s].to) : conns[c].status = "active" => conns[c].expired
       THEN peerTx' = [peerTx EXCEPT ![s].op = "unconnected"]
       ELSE PeerEnded(s)
    /\ UNCHANGED <<requests, conns, messages, peerBlocks, asked, sent, unread, commits, published, peerEvents>>

\* mutant: the time is not compared
AnyReserved(s) == Reserved(peerTx[s].by, peerTx[s].to)

\* The request that FOR UPDATE finds: expired at the time taken, and pending or
\* accepted once its lock is free.
ExpiredRequest(s) == peerTx[s].lapsed \cap Reserved(peerTx[s].by, peerTx[s].to)

\* The rest of it.  The expired request is rejected, accepted meanwhile or not;
\* then the quota, the row, which the index on the pair's pending and accepted
\* requests may refuse, the notification, the commit.  What the body asks for
\* (messaging_requested here, messaging_consent of an acceptance) is chosen
\* where it is first used.
InsertRequest(s, ask) ==
    LET x == peerTx[s].by  y == peerTx[s].to
        row == [from |-> x, to |-> y, ask |-> ask, status |-> "pending", expired |-> FALSE]
        released == [i \in DOMAIN requests |->
            IF i \in ExpiredRequest(s) THEN [requests[i] EXCEPT !.status = "rejected"] ELSE requests[i]]
    IN /\ PeerRuns(s, "unconnected")
       /\ \A i \in ExpiredRequest(s) : ~RequestLocked(i)
       /\ IF Reserved(x, y) = ExpiredRequest(s) /\ asked[x] < RequestLimit
          THEN /\ requests' = Append(released, row)
               /\ asked' = [asked EXCEPT ![x] = @ + 1]
               /\ Committed
               /\ Notified(y)
          ELSE UNCHANGED <<requests, asked, commits, unread>>
       /\ PeerEnded(s)
       /\ UNCHANGED <<conns, messages, peerBlocks, sent, published, peerEvents>>

\* connection_request_inbox
RequestInbox(o) ==
    {i \in DOMAIN requests :
        /\ requests[i].to = o /\ requests[i].status = "pending" /\ ~requests[i].expired
        /\ ~Blocked(requests[i].from, o)}

\* decide_connection_request up to the decision: the row under its lock, then
\* what refuses.
Decidable(i) ==
    /\ ~RequestLocked(i)
    /\ i \in RequestInbox(requests[i].to)

Reject(i) ==
    /\ Decidable(i)
    /\ requests' = [requests EXCEPT ![i].status = "rejected"]
    /\ Committed
    /\ Notified(requests[i].from)
    /\ UNCHANGED <<conns, messages, peerBlocks, asked, sent, peerTx, published, peerEvents>>

\* The requester of a blocked request is not told.
Block(i) ==
    /\ Decidable(i)
    /\ requests' = [requests EXCEPT ![i].status = "blocked"]
    /\ peerBlocks' = peerBlocks \cup {<<requests[i].to, requests[i].from>>}
    /\ Committed
    /\ UNCHANGED <<conns, messages, asked, sent, unread, peerTx, published, peerEvents>>

BeginAccept(s, i) ==
    /\ Decidable(i)
    /\ PeerBegun(s, [op |-> "accept", row |-> i])
    /\ UNCHANGED <<requests, conns, messages, peerBlocks, asked, sent, unread, commits, published, peerEvents>>

\* The pair's active connection under its lock: an unexpired one is a conflict,
\* an expired one is removed with its conversation.  Then the new connection.
FinishAccept(s, consent) ==
    LET i == peerTx[s].row
        r == requests[i]
        active == {c \in Between(r.from, r.to) : conns[c].status = "active"}
        retired == [c \in DOMAIN conns |->
            IF c \in active
            THEN [conns[c] EXCEPT !.status = "removed", !.conv = IF @ = "active" THEN "closed" ELSE @]
            ELSE conns[c]]
        row == [req |-> i, enabled |-> r.ask /\ consent, status |-> "active",
                expired |-> FALSE, conv |-> "none"]
    IN /\ PeerRuns(s, "accept")
       /\ \A c \in active : ~ConnectionLocked(c)
       /\ IF (\A c \in active : conns[c].expired)
          THEN /\ requests' = [requests EXCEPT ![i].status = "accepted"]
               /\ conns' = Append(retired, row)
               /\ Committed
               /\ Notified(r.from)
          ELSE UNCHANGED <<requests, conns, commits, unread>>
       /\ PeerEnded(s)
       /\ UNCHANGED <<messages, peerBlocks, asked, sent, published, peerEvents>>

-----------------------------------------------------------------------------
(* Connections *)

\* list_connections
ListedConnections(o) == {c \in DOMAIN conns : o \in Pair(c) /\ Live(c, o)}

\* remove_connection and block_connection up to the connection's lock.
BeginEnd(s, op, c, o) ==
    /\ c \in ListedConnections(o) /\ ~ConnectionLocked(c)
    /\ PeerBegun(s, [op |-> op, conn |-> c, by |-> o])
    /\ UNCHANGED <<requests, conns, messages, peerBlocks, asked, sent, unread, commits, published, peerEvents>>

\* The connection, its request and its conversation end together.
EndedAs(c, status, reqStatus, convStatus) ==
    /\ conns' = [conns EXCEPT ![c].status = status, ![c].conv = IF @ = "active" THEN convStatus ELSE @]
    /\ requests' = [requests EXCEPT ![conns[c].req].status = reqStatus]

\* remove_connection gives the pair free: an accepted request becomes rejected.
FinishRemove(s) ==
    LET c == peerTx[s].conn  q == requests[conns[c].req].status IN
    /\ PeerRuns(s, "remove")
    /\ ~RequestLocked(conns[c].req)
    /\ EndedAs(c, "removed", IF q = "accepted" THEN "rejected" ELSE q, "closed")
    /\ Committed
    /\ PeerEnded(s)
    /\ UNCHANGED <<messages, peerBlocks, asked, sent, unread, published, peerEvents>>

FinishBlock(s) ==
    LET c == peerTx[s].conn IN
    /\ PeerRuns(s, "block")
    /\ ~RequestLocked(conns[c].req)
    /\ EndedAs(c, "blocked", "blocked", "blocked")
    /\ peerBlocks' = peerBlocks \cup {<<peerTx[s].by, Counterparty(c, peerTx[s].by)>>}
    /\ Committed
    /\ PeerEnded(s)
    /\ UNCHANGED <<messages, asked, sent, unread, published, peerEvents>>

-----------------------------------------------------------------------------
(* Conversations *)

\* create_conversation: the connection under its lock, consent of both.
BeginConversation(s, c, o) ==
    /\ c \in ListedConnections(o) /\ ~ConnectionLocked(c)
    /\ conns[c].enabled
    /\ PeerBegun(s, [op |-> "converse", conn |-> c, by |-> o])
    /\ UNCHANGED <<requests, conns, messages, peerBlocks, asked, sent, unread, commits, published, peerEvents>>

FinishConversation(s) ==
    LET c == peerTx[s].conn IN
    /\ PeerRuns(s, "converse")
    /\ IF Admits(c) /\ conns[c].conv = "none"
       THEN /\ conns' = [conns EXCEPT ![c].conv = "active"]
            /\ Committed
            /\ Notified(Counterparty(c, peerTx[s].by))
       ELSE UNCHANGED <<conns, commits, unread>>
    /\ PeerEnded(s)
    /\ UNCHANGED <<requests, messages, peerBlocks, asked, sent, published, peerEvents>>

\* active_conversation_for_participant, also what list_messages needs.
Open(c, o) == conns[c].conv = "active" /\ Live(c, o) /\ conns[c].enabled

\* list_conversations: unlike Open, an expired connection is not left out.
ListedConversations(o) ==
    {c \in DOMAIN conns :
        /\ o \in Pair(c) /\ conns[c].conv = "active"
        /\ conns[c].status = "active" /\ conns[c].enabled
        /\ ~Blocked(o, Counterparty(c, o))}

\* send_message up to the two locks.
BeginSend(s, c, o) ==
    /\ c \in ListedConversations(o) /\ Open(c, o) /\ ~ConnectionLocked(c)
    /\ PeerBegun(s, [op |-> "send", conn |-> c, by |-> o])
    /\ UNCHANGED <<requests, conns, messages, peerBlocks, asked, sent, unread, commits, published, peerEvents>>

\* lock_social_admission of both rows, the quota, the message.
FinishSend(s) ==
    LET c == peerTx[s].conn  o == peerTx[s].by IN
    /\ PeerRuns(s, "send")
    /\ IF
          /\ Admits(c) /\ conns[c].conv = "active"
          /\ sent[o] < MessageLimit
       THEN /\ messages' = Append(messages, [conn |-> c, from |-> o])
            /\ sent' = [sent EXCEPT ![o] = @ + 1]
            /\ Committed
            /\ Notified(Counterparty(c, o))
       ELSE UNCHANGED <<messages, sent, commits, unread>>
    /\ PeerEnded(s)
    /\ UNCHANGED <<requests, conns, peerBlocks, asked, published, peerEvents>>

\* list_messages
ListedMessages(o, c) == {m \in DOMAIN messages : messages[m].conn = c /\ Open(c, o)}

\* list_notifications: the owners who have one to read.
Notifications == unread

\* mark_notification_read of the last one; reading it again changes nothing.
MarkRead(o) ==
    /\ o \in Notifications
    /\ unread' = unread \ {o}
    /\ UNCHANGED <<requests, conns, messages, peerBlocks, asked, sent, commits, peerTx, published, peerEvents>>

-----------------------------------------------------------------------------
(* The environment *)

Cancel(s) ==
    /\ peerTx[s] # NoTx
    /\ PeerEnded(s)
    /\ UNCHANGED <<requests, conns, messages, peerBlocks, asked, sent, unread, commits, published, peerEvents>>

PeerEvent == peerEvents < PeerEvents /\ peerEvents' = peerEvents + 1

\* retention_expires_at passes: a request's first, then its connection's.
ExpireRequest(i) ==
    /\ PeerEvent
    /\ ~requests[i].expired
    /\ requests' = [requests EXCEPT ![i].expired = TRUE]
    /\ UNCHANGED <<conns, messages, peerBlocks, asked, sent, unread, commits, peerTx, published>>

ExpireConnection(c) ==
    /\ ~conns[c].expired /\ requests[conns[c].req].expired
    /\ conns' = [conns EXCEPT ![c].expired = TRUE]
    /\ UNCHANGED <<requests, messages, peerBlocks, asked, sent, unread, commits, peerTx, published, peerEvents>>

NewPeerDay ==
    /\ PeerEvent
    /\ asked' = [o \in Peers |-> 0] /\ sent' = [o \in Peers |-> 0]
    /\ UNCHANGED <<requests, conns, messages, peerBlocks, unread, commits, peerTx, published>>

UnpublishPeer(o) ==
    /\ PeerEvent
    /\ o \in published /\ published' = published \ {o}
    /\ UNCHANGED <<requests, conns, messages, peerBlocks, asked, sent, unread, commits, peerTx>>

ConnectionsNext ==
    \/ \E s \in PeerSlots, x \in Peers, y \in Peers : BeginRequest(s, x, y)
    \/ \E i \in DOMAIN requests :
        \/ Reject(i) \/ Block(i)
        \/ \E s \in PeerSlots : BeginAccept(s, i)
    \/ \E s \in PeerSlots, c \in DOMAIN conns, o \in Peers :
        \/ \E op \in {"remove", "block"} : BeginEnd(s, op, c, o)
        \/ BeginConversation(s, c, o) \/ BeginSend(s, c, o)
    \/ \E s \in PeerSlots :
        \/ ReadRequest(s) \/ ReadConnection(s) \/ FinishRemove(s) \/ FinishBlock(s)
        \/ FinishConversation(s) \/ FinishSend(s) \/ Cancel(s)
        \/ \E ask \in BOOLEAN : InsertRequest(s, ask)
        \/ \E consent \in BOOLEAN : FinishAccept(s, consent)
    \/ \E o \in Peers : MarkRead(o)
    \/ \E i \in DOMAIN requests : ExpireRequest(i)
    \/ \E c \in DOMAIN conns : ExpireConnection(c)
    \/ NewPeerDay
    \/ \E o \in Peers : UnpublishPeer(o)

ConnectionsSpec == ConnectionsInit /\ [][ConnectionsNext]_connectionVars

-----------------------------------------------------------------------------
(* Properties *)

\* The connection's request expired and another one took the pair, in a
\* transaction that found the connection expired, or looked before its commit.
Overtaken(c) == requests[conns[c].req].expired /\ requests[conns[c].req].status = "rejected"

\* A step that commits a message of a connection that is not overtaken commits it
\* between owners who have not blocked each other.
MessageIsUnblocked ==
    LET c == messages'[Len(messages')].conn IN
    Len(messages') > Len(messages) /\ ~Overtaken(c) =>
        \A x, y \in Pair(c) : x # y => ~Blocked(x, y)

\* No message is committed between two owners once one has blocked the other,
\* even when it had passed its checks before the block (send_message against
\* block_connection and decide_connection_request), unless its connection is
\* overtaken: then the pair's new request can be blocked beside it.
NoMessagePastBlock == [][MessageIsUnblocked]_connectionVars

\* A conversation never outlives its connection, two owners have one active
\* connection at most, and it keeps its request accepted, so that the pair can
\* open no second one, until the request has expired
\* (create_connection_request, decide_connection_request, remove_connection).
ConversationNeedsConnection ==
    \A c \in DOMAIN conns :
        /\ conns[c].conv = "active" => conns[c].status = "active"
        /\ conns[c].status = "active" =>
            /\ requests[conns[c].req].status = "accepted" \/ Overtaken(c)
            /\ \A d \in DOMAIN conns : conns[d].status = "active" /\ Pair(d) = Pair(c) => d = c
=============================================================================
