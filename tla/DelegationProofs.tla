-------------------------- MODULE DelegationProofs --------------------------
(***************************************************************************)
(* Safety of what one party does for another, for any number of parties.   *)
(*                                                                         *)
(* AgentAuthority: any number of credentials, identities, proposals,       *)
(* versions and open requests.  A step is looked at three times: at what   *)
(* it does to the credentials that somebody has locked, at the             *)
(* transactions it leaves open, and at the document.                       *)
(*                                                                         *)
(* Recruiting: any number of people, jobs and open transactions.  One look *)
(* at a step says how an application can change, one which transactions    *)
(* begin, and one what the organization's lock keeps for a decision that   *)
(* is under way.                                                           *)
(***************************************************************************)
EXTENDS AgentAuthority, Recruiting, SequenceTheorems, TLAPS

\* An agent's request, and a revocation, works with a key or grant that exists.
TxIssued == \A s \in Slots : tx[s] # None /\ tx[s].op # "owner" => tx[s].cred \in Issued

\* The version that a request has read has been written.
ReadsAreOld ==
    \A s \in Slots : tx[s] # None /\ tx[s].op # "revoke" => tx[s].base \in 0..Len(written)

\* What mandate_bound_identity has found stays true while its locks are held.
MandateHolds ==
    \A s \in Slots : AgentAt(s, "mandate") =>
        cred[tx[s].cred].mandate = "active" /\ ~cred[tx[s].cred].revoked

\* A proposal that was accepted was made on a version that has a successor.
AcceptedIsOlder ==
    \A p \in DOMAIN proposals : proposals[p].status = "accepted" => proposals[p].ifMatch < Len(written)

Documents ==
    /\ written \in Seq(0..MaxVersion) /\ Len(written) \in 1..MaxVersion
    /\ proposals \in Seq(AgentProposal)
    /\ AcceptedIsOlder
    /\ NoLostUpdate

Inductive ==
    /\ TypeOK
    /\ TxIssued
    /\ ReadsAreOld
    /\ MandateHolds
    /\ Documents

-----------------------------------------------------------------------------
(* Credentials *)

\* A credential keeps its row, and one whose two locks are held by a request
\* stays active and unrevoked.
Kept(c) ==
    c \in Issued =>
        /\ cred'[c] # None
        /\ CredLocked(c) /\ MandateLocked(c) /\ cred[c].mandate = "active" /\ ~cred[c].revoked
            => cred'[c].mandate = "active" /\ ~cred'[c].revoked

\* What the handlers write into a credential keeps its type.
LEMMA CredentialTypes ==
    ASSUME NEW k \in Credential, NEW st \in MandateStatus
    PROVE  /\ [k EXCEPT !.revoked = TRUE] \in Credential
           /\ [k EXCEPT !.expired = TRUE] \in Credential
           /\ [k EXCEPT !.mandate = st] \in Credential
           /\ [k EXCEPT !.mandate = st, !.revoked = TRUE] \in Credential
<1>1. [k EXCEPT !.revoked = TRUE] \in Credential
    BY Zenon DEF Credential
<1>2. [k EXCEPT !.expired = TRUE] \in Credential
    BY Zenon DEF Credential
<1>3. [k EXCEPT !.mandate = st] \in Credential
    BY Zenon DEF Credential
<1>4. [k EXCEPT !.mandate = st, !.revoked = TRUE] \in Credential
    BY Zenon DEF Credential
<1> QED
    BY <1>1, <1>2, <1>3, <1>4

\* A new row disturbs no other.
LEMMA IssueKeeps ==
    ASSUME TypeOK, NEW c \in Creds, NEW row \in Credential, Issue(c, row)
    PROVE  cred' \in [Creds -> Credential \cup {None}] /\ \A d \in Creds : Kept(d)
<1>1. cred[c] = None /\ cred' = [cred EXCEPT ![c] = row]
    BY DEF Issue
<1>2. cred' \in [Creds -> Credential \cup {None}]
    BY <1>1 DEF TypeOK
<1>3. \A d \in Issued : cred'[d] = cred[d] /\ cred[d] # None
    BY <1>1 DEF TypeOK, Issued
<1> QED
    BY <1>2, <1>3 DEF Kept, Issued

\* A row that is written, while one of its two locks is free.
LEMMA WriteKeeps ==
    ASSUME TypeOK, NEW c \in Issued, NEW row \in Credential,
           cred' = [cred EXCEPT ![c] = row],
           ~CredLocked(c) \/ ~MandateLocked(c) \/
               (row.mandate = cred[c].mandate /\ row.revoked = cred[c].revoked)
    PROVE  cred' \in [Creds -> Credential \cup {None}] /\ \A d \in Creds : Kept(d)
<1>1. c \in Creds
    BY DEF Issued
<1>2. cred' \in [Creds -> Credential \cup {None}]
    BY <1>1 DEF TypeOK
<1>3. \A d \in Creds : cred'[d] = IF d = c THEN row ELSE cred[d]
    BY <1>1 DEF TypeOK
<1>4. row # None
    BY AuthorityAssumption DEF AuthorityAssumption
<1>5. Kept(c)
    BY <1>1, <1>3, <1>4 DEF Kept
<1>6. \A d \in Creds \ {c} : Kept(d)
    BY <1>3 DEF Kept, Issued
<1> QED
    BY <1>2, <1>5, <1>6

\* Whatever a step does to the credentials.
LEMMA NextCredentials ==
    ASSUME TypeOK, TxIssued, [Next]_vars
    PROVE  cred' \in [Creds -> Credential \cup {None}] /\ \A d \in Creds : Kept(d)
<1> DEFINE Goal == cred' \in [Creds -> Credential \cup {None}] /\ \A d \in Creds : Kept(d)
<1>0. \A c \in Issued : c \in Creds /\ cred[c] \in Credential
    BY DEF TypeOK, Issued
<1>1. ASSUME cred' = cred PROVE Goal
    BY <1>1 DEF TypeOK, Kept, Issued
<1>2. ASSUME NEW c \in Creds, CreateApiKey(c) PROVE Goal
  <2> DEFINE row == [kind |-> "key", revoked |-> FALSE, expired |-> FALSE, handle |-> None,
                     mandate |-> None]
  <2>1. row \in Credential
    BY Zenon DEF Credential, Kinds
  <2>2. Issue(c, row)
    BY <1>2 DEF CreateApiKey
  <2> HIDE DEF row
  <2> QED
    BY <2>1, <2>2, IssueKeeps
<1>3. ASSUME NEW c \in Creds, NEW mode \in {"proposal_only", "direct"}, CreateAgentGrant(c, mode)
      PROVE  Goal
  <2> DEFINE row == [kind |-> mode, revoked |-> FALSE, expired |-> FALSE, handle |-> None,
                     mandate |-> None]
  <2>0. mode \in Kinds
    BY DEF Kinds
  <2>1. row \in Credential
    BY <2>0, Zenon DEF Credential
  <2>2. Issue(c, row)
    BY <1>3 DEF CreateAgentGrant
  <2> HIDE DEF row
  <2> QED
    BY <2>1, <2>2, IssueKeeps
<1>4. ASSUME NEW c \in Creds, RevokeCredential(c) PROVE Goal
  <2> DEFINE row == [cred[c] EXCEPT !.revoked = TRUE]
  <2>1. c \in Issued /\ ~CredLocked(c) /\ cred' = [cred EXCEPT ![c] = row]
    BY <1>4 DEF RevokeCredential
  <2>2. row \in Credential
    BY <1>0, <2>1, CredentialTypes DEF MandateStatus
  <2> HIDE DEF row
  <2> QED
    BY <2>1, <2>2, WriteKeeps
<1>5. ASSUME NEW c \in Creds, Expire(c) PROVE Goal
  <2> DEFINE row == [cred[c] EXCEPT !.expired = TRUE]
  <2>1. c \in Issued /\ cred' = [cred EXCEPT ![c] = row]
    BY <1>5 DEF Expire
  <2>2. row \in Credential
    BY <1>0, <2>1, CredentialTypes DEF MandateStatus
  <2>3. row.mandate = cred[c].mandate /\ row.revoked = cred[c].revoked
    BY <1>0, <2>1, Zenon DEF Credential
  <2> HIDE DEF row
  <2> QED
    BY <2>1, <2>2, <2>3, WriteKeeps
<1>6. ASSUME NEW c \in Creds, NEW to \in {"active", "suspended"}, TransitionAgentMandate(c, to)
      PROVE  Goal
  <2> DEFINE row == [cred[c] EXCEPT !.mandate = to]
  <2>1. c \in Issued /\ ~MandateLocked(c) /\ cred' = [cred EXCEPT ![c] = row]
    BY <1>6 DEF TransitionAgentMandate, Mandated
  <2>2. row \in Credential
    BY <1>0, <2>1, CredentialTypes DEF MandateStatus
  <2> HIDE DEF row
  <2> QED
    BY <2>1, <2>2, WriteKeeps
<1>7. ASSUME NEW s \in Slots, FinishRevokeMandate(s) PROVE Goal
  <2> DEFINE c == tx[s].cred
             row == [cred[c] EXCEPT !.mandate = "revoked", !.revoked = TRUE]
  <2>1. c \in Issued /\ ~CredLocked(c)
    BY <1>7 DEF FinishRevokeMandate, TxIssued
  <2>2. cred' = [cred EXCEPT ![c] = row]
    BY <1>0, <1>7, <2>1 DEF FinishRevokeMandate, TypeOK
  <2>3. row \in Credential
    BY <1>0, <2>1, CredentialTypes DEF MandateStatus
  <2> HIDE DEF row, c
  <2> QED
    BY <2>1, <2>2, <2>3, WriteKeeps
<1>8. ASSUME NEW c \in Creds, NEW h \in Handles, CreateAgentMandate(c, h) PROVE Goal
  <2> DEFINE active == {d \in Mandated : cred[d].handle = h /\ cred[d].mandate = "active"}
             row == [kind |-> "mandate", revoked |-> FALSE, expired |-> FALSE, handle |-> h,
                     mandate |-> "active"]
             Old(d) == [cred[d] EXCEPT !.mandate = "expired"]
  <2>1. row \in Credential
    BY Zenon DEF Credential, Kinds, MandateStatus
  <2>2. /\ \A d \in active : ~MandateLocked(d)
        /\ cred[c] = None
        /\ cred' = [d \in Creds |-> IF d = c THEN row ELSE IF d \in active THEN Old(d) ELSE cred[d]]
    BY <1>8 DEF CreateAgentMandate
  <2>3. \A d \in active : d \in Issued /\ Old(d) \in Credential
    BY <1>0, CredentialTypes DEF MandateStatus, Mandated
  <2> HIDE DEF row, Old, active
  <2>4. cred' \in [Creds -> Credential \cup {None}]
    BY <2>1, <2>2, <2>3 DEF TypeOK
  <2>5. ASSUME NEW d \in Issued PROVE Kept(d)
    <3>1. d # c /\ d \in Creds
        BY <2>2, <2>5 DEF Issued
    <3>2. CASE d \in active
        BY <2>2, <2>3, <3>1, <3>2, AuthorityAssumption DEF Kept, AuthorityAssumption
    <3>3. CASE d \notin active
        BY <2>2, <2>5, <3>1, <3>3 DEF Kept, Issued
    <3> QED
        BY <3>2, <3>3
  <2> QED
    BY <2>4, <2>5 DEF Kept
<1>9. ASSUME UNCHANGED vars PROVE Goal
    BY <1>1, <1>9 DEF vars
<1>10. ASSUME NEW h \in Handles,
              CreateAgentIdentity(h) \/ WithdrawAgentIdentity(h) \/ TransitionAgentIdentity(h)
       PROVE  Goal
    BY <1>1, <1>10 DEF CreateAgentIdentity, WithdrawAgentIdentity, TransitionAgentIdentity
<1>11. ASSUME NEW s \in Slots, NEW c \in Creds, BeginRevokeMandate(s, c) \/ ReadCredential(s, c)
       PROVE  Goal
    BY <1>1, <1>11 DEF BeginRevokeMandate, ReadCredential
<1>12. ASSUME NEW s \in Slots, \/ LockCredential(s) \/ LockMandate(s) \/ SendOutreach(s) \/ Cancel(s)
                                \/ ReadDocument(s) \/ OwnerReadsDocument(s)
       PROVE  Goal
    BY <1>1, <1>12 DEF LockCredential, LockMandate, SendOutreach, Cancel, ReadDocument, OwnerReadsDocument
<1>13. ASSUME NEW s \in Slots, NEW v \in 1..MaxVersion,
              SubmitProposal(s, v) \/ \E visible \in BOOLEAN : WriteDocument(s, v, visible)
       PROVE  Goal
    BY <1>1, <1>13 DEF SubmitProposal, WriteDocument
<1>14. ASSUME NEW p \in DOMAIN proposals, NEW status \in {"accepted", "rejected"}, NEW visible \in BOOLEAN,
              Decide(p, status, visible)
       PROVE  Goal
    BY <1>1, <1>14 DEF Decide
<1> HIDE DEF Goal
<1>15. Goal
    BY <1>2, <1>3, <1>4, <1>5, <1>6, <1>7, <1>8, <1>9, <1>10, <1>11, <1>12, <1>13, <1>14 DEF Next
<1> QED
    BY <1>15 DEF Goal
-----------------------------------------------------------------------------
(* Transactions *)

\* Nothing was lost so far: the current version counts the writes.
LEMMA CurrentIsLast ==
    ASSUME Documents
    PROVE  Current = Len(written) /\ Len(written) \in 1..MaxVersion
<1>1. written \in Seq(0..MaxVersion) /\ Len(written) \in 1..MaxVersion /\ DOMAIN written = 1..Len(written)
    BY DEF Documents
<1>2. written[Len(written)] = Len(written) - 1
    BY <1>1 DEF Documents, NoLostUpdate
<1> QED
    BY <1>1, <1>2 DEF Current

\* A transaction that a step opens or moves on: its credential exists, the version
\* it has read too, and when it takes the mandate, the mandate and the grant stand.
Enters(s) ==
    /\ tx'[s] # None
    /\ tx'[s].op # "owner" => tx'[s].cred \in Issued
    /\ tx'[s].op # "revoke" => tx'[s].base \in 0..Len(written)
    /\ tx'[s].op = "agent" /\ tx'[s].at = "mandate" =>
        /\ cred' = cred
        /\ cred[tx'[s].cred].mandate = "active" /\ ~cred[tx'[s].cred].revoked

AgentTransaction ==
    [op: {"agent"}, cred: Creds, at: {"read", "locked", "mandate", "document"}, valid: BOOLEAN,
     base: 0..MaxVersion]

Moves == tx' \in [Slots -> Transaction \cup {None}]
    /\ \A s \in Slots : tx'[s] \in {None, tx[s]} \/ Enters(s)

\* One slot is written.
LEMMA SlotWrites ==
    ASSUME TypeOK, NEW s \in Slots, NEW t \in Transaction \cup {None}, tx' = [tx EXCEPT ![s] = t],
           t = None \/ Enters(s)
    PROVE  Moves /\ tx'[s] = t
<1>1. tx' \in [Slots -> Transaction \cup {None}]
    BY DEF TypeOK
<1>2. \A u \in Slots : tx'[u] = IF u = s THEN t ELSE tx[u]
    BY DEF TypeOK
<1> QED
    BY <1>1, <1>2 DEF Moves

\* A request that ends.
LEMMA EndMoves ==
    ASSUME TypeOK, NEW s \in Slots, Ended(s)
    PROVE  Moves
BY SlotWrites DEF Ended

\* An agent's request begins or goes on.
LEMMA AgentMoves ==
    ASSUME TypeOK, NEW s \in Slots, NEW t \in AgentTransaction, tx' = [tx EXCEPT ![s] = t],
           t.cred \in Issued, t.base \in 0..Len(written),
           t.at = "mandate" =>
              cred' = cred /\ cred[t.cred].mandate = "active" /\ ~cred[t.cred].revoked
    PROVE  Moves
<1>1. t \in Transaction /\ t.op = "agent"
    BY DEF Transaction, AgentTransaction
<1>2. tx'[s] = t /\ t # None
    BY <1>1, AuthorityAssumption DEF TypeOK, AuthorityAssumption
<1>3. Enters(s)
    BY <1>1, <1>2 DEF Enters
<1> QED
    BY <1>1, <1>3, SlotWrites

\* An agent's open request.
LEMMA AgentFields ==
    ASSUME TypeOK, TxIssued, ReadsAreOld, NEW s \in Slots, tx[s] # None, tx[s].op = "agent"
    PROVE  tx[s] \in AgentTransaction /\ tx[s].cred \in Issued /\ tx[s].base \in 0..Len(written)
<1>1. tx[s] \in Transaction
    BY DEF TypeOK
<1>2. tx[s] \in AgentTransaction
    BY <1>1 DEF Transaction, AgentTransaction
<1> QED
    BY <1>2 DEF TxIssued, ReadsAreOld

\* A request that takes its next lock.
LEMMA AdvanceMoves ==
    ASSUME TypeOK, TxIssued, ReadsAreOld, NEW s \in Slots, tx[s] # None, tx[s].op = "agent",
           NEW at \in {"locked", "mandate"}, tx' = [tx EXCEPT ![s].at = at], cred' = cred,
           at = "mandate" => cred[tx[s].cred].mandate = "active" /\ ~cred[tx[s].cred].revoked
    PROVE  Moves
<1> DEFINE t == [tx[s] EXCEPT !.at = at]
<1>1. tx[s] \in AgentTransaction /\ tx[s].cred \in Issued /\ tx[s].base \in 0..Len(written)
    BY AgentFields
<1>2. at \in {"read", "locked", "mandate", "document"}
    OBVIOUS
<1>3. t \in AgentTransaction /\ t.cred = tx[s].cred /\ t.at = at /\ t.base = tx[s].base
    BY <1>1, <1>2, Zenon DEF AgentTransaction
<1>4. tx' = [tx EXCEPT ![s] = t]
    OBVIOUS
<1> HIDE DEF t
<1>5. /\ t.cred \in Issued /\ t.base \in 0..Len(written)
      /\ t.at = "mandate" => cred' = cred /\ cred[t.cred].mandate = "active" /\ ~cred[t.cred].revoked
    BY <1>1, <1>3
<1> QED
    BY <1>3, <1>4, <1>5, AgentMoves

\* A request that reads the document.
LEMMA ReadMoves ==
    ASSUME TypeOK, TxIssued, ReadsAreOld, Documents, NEW s \in Slots,
           ReadDocument(s) \/ OwnerReadsDocument(s)
    PROVE  Moves
<1>0. Current = Len(written) /\ Len(written) \in 1..MaxVersion
    BY CurrentIsLast
<1>1. CASE ReadDocument(s)
  <2> DEFINE t == [tx[s] EXCEPT !.at = "document", !.base = Current]
  <2>1. tx[s] # None /\ tx[s].op = "agent" /\ cred' = cred
    BY <1>1 DEF ReadDocument, AgentAt
  <2>2. tx[s] \in AgentTransaction /\ tx[s].cred \in Issued
    BY <2>1, AgentFields
  <2>3. Current \in 0..MaxVersion /\ Current \in 0..Len(written)
    BY <1>0
  <2>4. t \in AgentTransaction /\ t.cred = tx[s].cred /\ t.at = "document" /\ t.base = Current
    BY <2>2, <2>3, Zenon DEF AgentTransaction
  <2>5. tx' = [tx EXCEPT ![s] = t]
    BY <1>1, <2>2 DEF ReadDocument, TypeOK, AgentTransaction
  <2> HIDE DEF t
  <2> QED
    BY <2>2, <2>3, <2>4, <2>5, AgentMoves
<1>2. CASE OwnerReadsDocument(s)
  <2> DEFINE t == [op |-> "owner", base |-> Current]
  <2>1. t \in Transaction /\ t.op = "owner" /\ t.base = Current
    BY <1>0 DEF Transaction
  <2>2. tx' = [tx EXCEPT ![s] = t]
    BY <1>2 DEF OwnerReadsDocument
  <2> HIDE DEF t
  <2>3. tx'[s] = t /\ t # None
    BY <2>1, <2>2, AuthorityAssumption DEF TypeOK, AuthorityAssumption
  <2>4. Enters(s)
    BY <1>0, <2>1, <2>3 DEF Enters
  <2> QED
    BY <2>1, <2>2, <2>4, SlotWrites
<1> QED
    BY <1>1, <1>2

\* Whatever a step does to the transactions.
LEMMA NextTransactions ==
    ASSUME TypeOK, TxIssued, ReadsAreOld, Documents, [Next]_vars
    PROVE  Moves
<1>1. ASSUME tx' = tx PROVE Moves
    BY <1>1 DEF TypeOK, Moves
<1>2. ASSUME NEW s \in Slots, NEW c \in Creds, BeginRevokeMandate(s, c) PROVE Moves
  <2> DEFINE t == [op |-> "revoke", cred |-> c]
  <2>1. tx' = [tx EXCEPT ![s] = t] /\ c \in Issued
    BY <1>2 DEF BeginRevokeMandate, Mandated
  <2>2. t \in Transaction /\ t.cred = c /\ t.op = "revoke"
    BY DEF Transaction
  <2> HIDE DEF t
  <2>3. tx'[s] = t /\ t # None
    BY <2>1, <2>2, AuthorityAssumption DEF TypeOK, AuthorityAssumption
  <2>4. Enters(s)
    BY <2>1, <2>2, <2>3 DEF Enters
  <2> QED
    BY <2>1, <2>2, <2>4, SlotWrites
<1>3. ASSUME NEW s \in Slots, NEW c \in Creds, ReadCredential(s, c) PROVE Moves
  <2> DEFINE t == [op |-> "agent", cred |-> c, at |-> "read",
                   valid |-> ~cred[c].revoked /\ ~cred[c].expired, base |-> 0]
  <2>1. tx' = [tx EXCEPT ![s] = t] /\ c \in Issued
    BY <1>3 DEF ReadCredential
  <2>2. 0 \in 0..MaxVersion /\ 0 \in 0..Len(written)
    BY AuthorityAssumption DEF AuthorityAssumption, Documents
  <2>3. t \in AgentTransaction /\ t.cred = c /\ t.at = "read" /\ t.base = 0
    BY <2>2, Zenon DEF AgentTransaction
  <2> HIDE DEF t
  <2> QED
    BY <2>1, <2>2, <2>3, AgentMoves
<1>4. ASSUME NEW s \in Slots, LockCredential(s) PROVE Moves
  <2>1. tx[s] # None /\ tx[s].op = "agent" /\ cred' = cred
    BY <1>4 DEF LockCredential, AgentAt
  <2>2. tx' = [tx EXCEPT ![s].at = "locked"] \/ Ended(s)
    BY <1>4 DEF LockCredential
  <2> QED
    BY <2>1, <2>2, AdvanceMoves, EndMoves
<1>5. ASSUME NEW s \in Slots, LockMandate(s) PROVE Moves
  <2>1. tx[s] # None /\ tx[s].op = "agent" /\ cred' = cred
    BY <1>5 DEF LockMandate, AgentAt
  <2>2. \/ /\ tx' = [tx EXCEPT ![s].at = "mandate"]
           /\ cred[tx[s].cred].mandate = "active" /\ ~cred[tx[s].cred].revoked
        \/ Ended(s)
    BY <1>5 DEF LockMandate
  <2> QED
    BY <2>1, <2>2, AdvanceMoves, EndMoves
<1>6. ASSUME NEW s \in Slots, FinishRevokeMandate(s) \/ SendOutreach(s) \/ Cancel(s) PROVE Moves
    BY <1>6, EndMoves DEF FinishRevokeMandate, SendOutreach, Cancel
<1>7. ASSUME NEW s \in Slots, NEW v \in 1..MaxVersion,
             SubmitProposal(s, v) \/ \E visible \in BOOLEAN : WriteDocument(s, v, visible)
      PROVE  Moves
    BY <1>7, EndMoves DEF SubmitProposal, WriteDocument
<1>8. ASSUME UNCHANGED vars PROVE Moves
    BY <1>1, <1>8 DEF vars
<1>9. ASSUME NEW c \in Creds, CreateApiKey(c) \/ RevokeCredential(c) \/ Expire(c)
             \/ (\E mode \in {"proposal_only", "direct"} : CreateAgentGrant(c, mode))
             \/ (\E h \in Handles : CreateAgentMandate(c, h))
      PROVE  Moves
    BY <1>1, <1>9 DEF CreateApiKey, RevokeCredential, Expire, CreateAgentGrant, CreateAgentMandate
<1>10. ASSUME NEW h \in Handles,
              CreateAgentIdentity(h) \/ WithdrawAgentIdentity(h) \/ TransitionAgentIdentity(h)
       PROVE  Moves
    BY <1>1, <1>10 DEF CreateAgentIdentity, WithdrawAgentIdentity, TransitionAgentIdentity
<1>11. ASSUME NEW c \in Creds, NEW to \in {"active", "suspended"}, TransitionAgentMandate(c, to)
       PROVE  Moves
    BY <1>1, <1>11 DEF TransitionAgentMandate
<1>12. ASSUME NEW p \in DOMAIN proposals, NEW status \in {"accepted", "rejected"}, NEW visible \in BOOLEAN,
              Decide(p, status, visible)
       PROVE  Moves
    BY <1>1, <1>12 DEF Decide
<1>13. ASSUME NEW s \in Slots, ReadDocument(s) \/ OwnerReadsDocument(s) PROVE Moves
    BY <1>13, ReadMoves
<1> QED
    BY <1>2, <1>3, <1>4, <1>5, <1>6, <1>7, <1>8, <1>9, <1>10, <1>11, <1>12, <1>13 DEF Next
-----------------------------------------------------------------------------
(* The document and its proposals *)

\* A row added at the end.
LEMMA Appended ==
    ASSUME NEW S, NEW q \in Seq(S), NEW e \in S, NEW u, u = Append(q, e)
    PROVE  /\ u \in Seq(S) /\ Len(u) = Len(q) + 1
           /\ DOMAIN u = DOMAIN q \cup {Len(q) + 1}
           /\ u[Len(q) + 1] = e /\ \A j \in DOMAIN q : u[j] = q[j]
<1>1. DOMAIN q = 1..Len(q) /\ Len(q) \in Nat
    OBVIOUS
<1>2. /\ u \in Seq(S) /\ Len(u) = Len(q) + 1
      /\ u[Len(q) + 1] = e /\ \A j \in 1..Len(q) : u[j] = q[j]
    BY AppendProperties
<1>3. DOMAIN u = 1..(Len(q) + 1)
    BY <1>2
<1> QED
    BY <1>1, <1>2, <1>3

\* A version is written on the one before it: on an older one, its number would
\* be used twice.
LEMMA UpdateWrites ==
    ASSUME Documents, NEW base \in 0..Len(written), NEW v \in 1..MaxVersion, NEW visible \in BOOLEAN,
           Update(base, v, visible)
    PROVE  /\ v = Len(written)
           /\ written' \in Seq(0..MaxVersion) /\ Len(written') = Len(written) + 1
           /\ Len(written') \in 1..MaxVersion
           /\ \A w \in DOMAIN written' : written'[w] = w - 1
<1>1. v = base /\ base < MaxVersion /\ UniqueVersion(base + 1) /\ written' = Append(written, v)
    BY DEF Update, IfMatch
<1>2. /\ written \in Seq(0..MaxVersion) /\ v \in 0..MaxVersion /\ Len(written) \in 1..MaxVersion
      /\ DOMAIN written = 1..Len(written)
    BY DEF Documents
<1>3. \A w \in DOMAIN written : written[w] = w - 1
    BY DEF Documents, NoLostUpdate
<1>4. \A w \in 1..Len(written) : w # base + 1
    BY <1>1, <1>2, <1>3 DEF UniqueVersion
<1>5. v = Len(written)
  <2>1. base + 1 \notin 1..Len(written)
    BY <1>4
  <2>2. \A n \in Nat : \A b \in 0..n : b + 1 \notin 1..n => b = n
    OBVIOUS
  <2>3. Len(written) \in Nat
    BY <1>2, LenProperties
  <2>4. base = Len(written)
    BY <2>1, <2>2, <2>3
  <2> QED
    BY <1>1, <2>4
<1>6. /\ written' \in Seq(0..MaxVersion) /\ Len(written') = Len(written) + 1
      /\ DOMAIN written' = DOMAIN written \cup {Len(written) + 1}
      /\ written'[Len(written) + 1] = v /\ \A j \in DOMAIN written : written'[j] = written[j]
    BY <1>1, <1>2, Appended
<1>7. Len(written') \in 1..MaxVersion
    BY <1>1, <1>2, <1>5, <1>6, AuthorityAssumption DEF AuthorityAssumption
<1>8. \A w \in DOMAIN written' : written'[w] = w - 1
    BY <1>2, <1>3, <1>5, <1>6
<1> QED
    BY <1>5, <1>6, <1>7, <1>8

\* A proposal's decision leaves the others and the version it names alone.
LEMMA StatusWrites ==
    ASSUME Documents, NEW p \in DOMAIN proposals, NEW st \in {"accepted", "rejected"},
           proposals' = [proposals EXCEPT ![p].status = st]
    PROVE  /\ proposals' \in Seq(AgentProposal) /\ DOMAIN proposals' = DOMAIN proposals
           /\ \A q \in DOMAIN proposals \ {p} : proposals'[q] = proposals[q]
           /\ proposals'[p].ifMatch = proposals[p].ifMatch /\ proposals'[p].status = st
<1> DEFINE e == [proposals[p] EXCEPT !.status = st]
<1>1. proposals \in Seq(AgentProposal) /\ proposals[p] \in AgentProposal
    BY DEF Documents
<1>2. e \in AgentProposal /\ e.ifMatch = proposals[p].ifMatch /\ e.status = st
    BY <1>1 DEF AgentProposal
<1>3. proposals' = [proposals EXCEPT ![p] = e]
    OBVIOUS
<1> HIDE DEF e
<1>4. DOMAIN proposals = 1..Len(proposals) /\ p \in 1..Len(proposals)
    BY <1>1
<1>5. /\ proposals' \in Seq(AgentProposal) /\ Len(proposals') = Len(proposals)
      /\ \A q \in 1..Len(proposals) : proposals'[q] = IF q = p THEN e ELSE proposals[q]
    BY <1>1, <1>2, <1>3, <1>4, ExceptSeq
<1> QED
    BY <1>2, <1>4, <1>5

\* The writes stand, and there may be one more.
Grows == Documents' /\ Len(written) <= Len(written')

\* Versions, and the versions that proposals name, are numbers.
LEMMA MatchTypes ==
    ASSUME Documents
    PROVE  Len(written) \in Nat /\ \A p \in DOMAIN proposals : proposals[p].ifMatch \in 1..MaxVersion
<1>1. \A p \in DOMAIN proposals : proposals[p] \in AgentProposal
    BY DEF Documents
<1>2. \A p \in DOMAIN proposals : proposals[p].ifMatch \in 1..MaxVersion
    BY <1>1 DEF AgentProposal
<1> QED
    BY <1>2 DEF Documents

\* The versions grow by one and the proposals stay.
LEMMA WriteDocuments ==
    ASSUME Documents, NEW base \in 0..Len(written), NEW v \in 1..MaxVersion, NEW visible \in BOOLEAN,
           Update(base, v, visible), UNCHANGED proposals
    PROVE  Grows
<1>1. /\ written' \in Seq(0..MaxVersion) /\ Len(written') = Len(written) + 1
      /\ Len(written') \in 1..MaxVersion
      /\ \A w \in DOMAIN written' : written'[w] = w - 1
    BY UpdateWrites
<1>2. Len(written) \in Nat /\ \A p \in DOMAIN proposals : proposals[p].ifMatch \in 1..MaxVersion
    BY MatchTypes
<1>3. AcceptedIsOlder'
    BY <1>1, <1>2 DEF Documents, AcceptedIsOlder
<1>4. NoLostUpdate'
    BY <1>1 DEF Documents, NoLostUpdate
<1> QED
    BY <1>1, <1>2, <1>3, <1>4 DEF Documents, Grows

\* Whatever a step does to the document and its proposals.
LEMMA NextDocuments ==
    ASSUME TypeOK, ReadsAreOld, Documents, [Next]_vars
    PROVE  Grows
<1>0. Len(written) \in Nat /\ \A p \in DOMAIN proposals : proposals[p].ifMatch \in 1..MaxVersion
    BY MatchTypes
<1>1. ASSUME UNCHANGED <<written, proposals>> PROVE Grows
    BY <1>0, <1>1 DEF Documents, AcceptedIsOlder, NoLostUpdate, Grows
<1>2. ASSUME NEW s \in Slots, NEW v \in 1..MaxVersion, SubmitProposal(s, v) PROVE Grows
  <2> DEFINE e == [by |-> tx[s].cred, ifMatch |-> v, status |-> "pending"]
  <2>1. tx[s].cred \in Creds
    BY <1>2 DEF SubmitProposal, AgentAt, TypeOK, Transaction
  <2>2. e \in AgentProposal /\ e.status = "pending"
    BY <2>1 DEF AgentProposal
  <2>3. proposals' = Append(proposals, e) /\ written' = written /\ proposals \in Seq(AgentProposal)
    BY <1>2 DEF SubmitProposal, Documents
  <2> HIDE DEF e
  <2>4. /\ proposals' \in Seq(AgentProposal)
        /\ DOMAIN proposals' = DOMAIN proposals \cup {Len(proposals) + 1}
        /\ proposals'[Len(proposals) + 1] = e
        /\ \A j \in DOMAIN proposals : proposals'[j] = proposals[j]
    BY <2>2, <2>3, Appended
  <2>5. \A p \in DOMAIN proposals' : proposals'[p].status = "accepted" =>
            p \in DOMAIN proposals /\ proposals'[p] = proposals[p]
    BY <2>2, <2>4
  <2>6. AcceptedIsOlder'
    BY <2>3, <2>5 DEF Documents, AcceptedIsOlder
  <2>7. NoLostUpdate'
    BY <2>3, <2>5 DEF Documents, NoLostUpdate
  <2> QED
    BY <1>0, <2>3, <2>4, <2>6, <2>7 DEF Documents, Grows
<1>3. ASSUME NEW s \in Slots, NEW v \in 1..MaxVersion, NEW visible \in BOOLEAN,
             WriteDocument(s, v, visible)
      PROVE  Grows
  <2>1. tx[s] # None /\ tx[s].op # "revoke"
    BY <1>3 DEF WriteDocument, AgentAt
  <2>2. tx[s].base \in 0..Len(written)
    BY <2>1 DEF ReadsAreOld
  <2>3. Update(tx[s].base, v, visible) /\ UNCHANGED proposals
    BY <1>3 DEF WriteDocument
  <2> QED
    BY <2>2, <2>3, WriteDocuments
<1>4. ASSUME NEW s \in Slots, ReadDocument(s) \/ OwnerReadsDocument(s) PROVE Grows
    BY <1>1, <1>4 DEF ReadDocument, OwnerReadsDocument
<1>5. ASSUME NEW p \in DOMAIN proposals, NEW status \in {"accepted", "rejected"}, NEW visible \in BOOLEAN,
             Decide(p, status, visible)
      PROVE  Grows
  <2>1. /\ proposals' \in Seq(AgentProposal) /\ DOMAIN proposals' = DOMAIN proposals
        /\ \A q \in DOMAIN proposals \ {p} : proposals'[q] = proposals[q]
        /\ proposals'[p].ifMatch = proposals[p].ifMatch /\ proposals'[p].status = status
    BY <1>5, StatusWrites DEF Decide
  <2>2. ASSUME status = "rejected" PROVE Grows
    <3>1. written' = written
        BY <1>5, <2>2 DEF Decide
    <3>2. \A q \in DOMAIN proposals' : proposals'[q].status = "accepted" => proposals'[q] = proposals[q]
        BY <2>1, <2>2
    <3>3. AcceptedIsOlder'
        BY <2>1, <3>1, <3>2 DEF Documents, AcceptedIsOlder
    <3>4. NoLostUpdate'
        BY <2>1, <3>1, <3>2 DEF Documents, NoLostUpdate
    <3> QED
        BY <1>0, <2>1, <3>1, <3>3, <3>4 DEF Documents, Grows
  <2>3. ASSUME status = "accepted" PROVE Grows
    <3>1. Update(Current, proposals[p].ifMatch, visible) /\ Current \in 0..Len(written)
        BY <1>5, <2>3, CurrentIsLast DEF Decide
    <3>2. /\ proposals[p].ifMatch = Len(written)
          /\ written' \in Seq(0..MaxVersion) /\ Len(written') = Len(written) + 1
          /\ Len(written') \in 1..MaxVersion
          /\ \A w \in DOMAIN written' : written'[w] = w - 1
        BY <1>0, <3>1, UpdateWrites
    <3>3. \A q \in DOMAIN proposals \ {p} : proposals[q].status = "accepted" =>
                proposals[q].ifMatch < Len(written)
        BY DEF Documents, AcceptedIsOlder
    <3>4. AcceptedIsOlder'
        BY <1>0, <2>1, <3>2, <3>3 DEF AcceptedIsOlder
    <3>5. ASSUME NEW q \in DOMAIN proposals, NEW r \in DOMAIN proposals,
                 proposals'[q].status = "accepted", proposals'[r].status = "accepted",
                 proposals'[q].ifMatch = proposals'[r].ifMatch
          PROVE  q = r
      <4>1. CASE q # p /\ r # p
        BY <2>1, <3>5, <4>1 DEF Documents, NoLostUpdate
      <4>2. CASE q = p /\ r # p
        BY <1>0, <2>1, <3>2, <3>3, <3>5, <4>2
      <4>3. CASE q # p /\ r = p
        BY <1>0, <2>1, <3>2, <3>3, <3>5, <4>3
      <4> QED
        BY <4>1, <4>2, <4>3
    <3>6. NoLostUpdate'
        BY <2>1, <3>2, <3>5 DEF NoLostUpdate
    <3> QED
        BY <1>0, <2>1, <3>2, <3>4, <3>6 DEF Documents, Grows
  <2> QED
    BY <2>2, <2>3
<1>6. ASSUME UNCHANGED vars PROVE Grows
    BY <1>1, <1>6 DEF vars
<1>7. ASSUME NEW c \in Creds, CreateApiKey(c) \/ RevokeCredential(c) \/ Expire(c)
             \/ (\E mode \in {"proposal_only", "direct"} : CreateAgentGrant(c, mode))
             \/ (\E h \in Handles : CreateAgentMandate(c, h))
             \/ (\E s \in Slots : BeginRevokeMandate(s, c) \/ ReadCredential(s, c))
      PROVE  Grows
    BY <1>1, <1>7 DEF CreateApiKey, RevokeCredential, Expire, CreateAgentGrant, CreateAgentMandate,
       BeginRevokeMandate, ReadCredential
<1>8. ASSUME NEW h \in Handles,
             CreateAgentIdentity(h) \/ WithdrawAgentIdentity(h) \/ TransitionAgentIdentity(h)
      PROVE  Grows
    BY <1>1, <1>8 DEF CreateAgentIdentity, WithdrawAgentIdentity, TransitionAgentIdentity
<1>9. ASSUME NEW c \in Creds, NEW to \in {"active", "suspended"}, TransitionAgentMandate(c, to)
      PROVE  Grows
    BY <1>1, <1>9 DEF TransitionAgentMandate
<1>10. ASSUME NEW s \in Slots, FinishRevokeMandate(s) \/ LockCredential(s) \/ LockMandate(s)
              \/ SendOutreach(s) \/ Cancel(s)
       PROVE  Grows
    BY <1>1, <1>10 DEF FinishRevokeMandate, LockCredential, LockMandate, SendOutreach, Cancel
<1> QED
    BY <1>2, <1>3, <1>4, <1>5, <1>6, <1>7, <1>8, <1>9, <1>10 DEF Next

-----------------------------------------------------------------------------
(* The inductive invariant *)

LEMMA InitInductive == Init => Inductive
<1> SUFFICES ASSUME Init PROVE Inductive
    OBVIOUS
<1> USE AuthorityAssumption DEF AuthorityAssumption
<1>1. TypeOK
    BY DEF Init, TypeOK
<1>2. TxIssued /\ ReadsAreOld /\ MandateHolds
    BY DEF Init, TxIssued, ReadsAreOld, MandateHolds, AgentAt
<1>3. written \in Seq(0..MaxVersion) /\ Len(written) = 1 /\ DOMAIN written = {1} /\ written[1] = 0
    BY DEF Init
<1>4. proposals \in Seq(AgentProposal) /\ DOMAIN proposals = {}
    BY DEF Init
<1>5. Documents
    BY <1>3, <1>4 DEF Documents, AcceptedIsOlder, NoLostUpdate
<1> QED
    BY <1>1, <1>2, <1>5 DEF Inductive

\* Counters, identities and the visibility keep their types.
LEMMA NextScalars ==
    ASSUME TypeOK, [Next]_vars
    PROVE  /\ identity' \in [Handles -> {"none", "active", "withdrawn", "withheld"}]
           /\ public' \in BOOLEAN
           /\ outreach' \in 0..MaxOutreach
           /\ events' \in 0..MaxEvents
<1> USE AuthorityAssumption DEF AuthorityAssumption
<1>1. outreach' \in 0..MaxOutreach
  <2>1. /\ \A c \in Creds : Expire(c) => outreach' = outreach
        /\ \A c \in Creds, to \in {"active", "suspended"} :
            TransitionAgentMandate(c, to) => outreach' = outreach
        /\ \A h \in Handles :
            CreateAgentIdentity(h) \/ WithdrawAgentIdentity(h) \/ TransitionAgentIdentity(h)
                => outreach' = outreach
    BY Zenon DEF Expire, TransitionAgentMandate, CreateAgentIdentity,
       WithdrawAgentIdentity, TransitionAgentIdentity
  <2>2. outreach' = outreach \/ \E s \in Slots : SendOutreach(s)
    BY <2>1 DEF Next, vars, CreateApiKey, RevokeCredential, CreateAgentGrant, CreateAgentMandate,
       BeginRevokeMandate, ReadCredential, FinishRevokeMandate, LockCredential, LockMandate, Cancel,
       SubmitProposal, WriteDocument, Decide, ReadDocument, OwnerReadsDocument
  <2> QED
    BY <2>2 DEF TypeOK, SendOutreach
<1>2. events' \in 0..MaxEvents
  <2>1. \A h \in Handles :
            CreateAgentIdentity(h) \/ WithdrawAgentIdentity(h) \/ TransitionAgentIdentity(h) => Event
    BY Zenon DEF CreateAgentIdentity, WithdrawAgentIdentity, TransitionAgentIdentity
  <2>2. \A c \in Creds : Expire(c) => Event
    BY Zenon DEF Expire
  <2>3. \A c \in Creds, to \in {"active", "suspended"} : TransitionAgentMandate(c, to) => Event
    BY Zenon DEF TransitionAgentMandate
  <2>4. events' = events \/ Event
    BY <2>1, <2>2, <2>3 DEF Next, vars, CreateApiKey, RevokeCredential, CreateAgentGrant,
       CreateAgentMandate, BeginRevokeMandate, ReadCredential, FinishRevokeMandate, LockCredential,
       LockMandate, SendOutreach, Cancel, SubmitProposal, WriteDocument, Decide, ReadDocument,
       OwnerReadsDocument
  <2> QED
    BY <2>4 DEF TypeOK, Event
<1>3. identity' \in [Handles -> {"none", "active", "withdrawn", "withheld"}]
  <2>1. ASSUME NEW h \in Handles,
               CreateAgentIdentity(h) \/ WithdrawAgentIdentity(h) \/ TransitionAgentIdentity(h)
        PROVE  \E st \in {"active", "withdrawn", "withheld"} : identity' = [identity EXCEPT ![h] = st]
    BY <2>1 DEF CreateAgentIdentity, WithdrawAgentIdentity, TransitionAgentIdentity
  <2>2. \/ identity' = identity
        \/ \E h \in Handles, st \in {"active", "withdrawn", "withheld"} :
                identity' = [identity EXCEPT ![h] = st]
    BY <2>1 DEF Next, vars, CreateApiKey, RevokeCredential, Expire, CreateAgentGrant,
       CreateAgentMandate, BeginRevokeMandate, ReadCredential, TransitionAgentMandate,
       FinishRevokeMandate, LockCredential, LockMandate, SendOutreach, Cancel, SubmitProposal,
       WriteDocument, Decide, ReadDocument, OwnerReadsDocument
  <2> QED
    BY <2>2 DEF TypeOK
<1>4. public' \in BOOLEAN
  <2>1. ASSUME NEW s \in Slots, NEW v \in 1..MaxVersion, NEW visible \in BOOLEAN,
               WriteDocument(s, v, visible)
        PROVE  public' \in BOOLEAN
    BY <2>1, Zenon DEF WriteDocument, Update
  <2>2. ASSUME NEW p \in DOMAIN proposals, NEW status \in {"accepted", "rejected"},
               NEW visible \in BOOLEAN, Decide(p, status, visible)
        PROVE  public' \in BOOLEAN
    BY <2>2, Zenon DEF Decide, Update, TypeOK
  <2>3. \/ public' = public
        \/ \E s \in Slots, v \in 1..MaxVersion, visible \in BOOLEAN : WriteDocument(s, v, visible)
        \/ \E p \in DOMAIN proposals, status \in {"accepted", "rejected"}, visible \in BOOLEAN :
                Decide(p, status, visible)
    BY Zenon DEF Next, vars, CreateApiKey, RevokeCredential, Expire, CreateAgentGrant,
       CreateAgentMandate, BeginRevokeMandate, ReadCredential, CreateAgentIdentity,
       WithdrawAgentIdentity, TransitionAgentIdentity, TransitionAgentMandate, FinishRevokeMandate,
       LockCredential, LockMandate, SendOutreach, Cancel, SubmitProposal, ReadDocument,
       OwnerReadsDocument
  <2> QED
    BY <2>1, <2>2, <2>3, Zenon DEF TypeOK
<1> QED
    BY <1>1, <1>2, <1>3, <1>4

\* The three looks at a step together.
LEMMA NextInductive == Inductive /\ [Next]_vars => Inductive'
<1> SUFFICES ASSUME Inductive, [Next]_vars PROVE Inductive'
    OBVIOUS
<1>0. TypeOK /\ TxIssued /\ ReadsAreOld /\ MandateHolds /\ Documents
    BY DEF Inductive
<1>1. cred' \in [Creds -> Credential \cup {None}] /\ \A d \in Creds : Kept(d)
    BY <1>0, NextCredentials
<1>2. Moves
    BY <1>0, NextTransactions
<1>3. Documents' /\ Len(written) <= Len(written')
    BY <1>0, NextDocuments DEF Grows
<1>4. TypeOK'
    BY <1>1, <1>2, <1>3, <1>0, NextScalars DEF TypeOK, Moves, Documents
<1>5. TxIssued'
  <2> SUFFICES ASSUME NEW s \in Slots, tx'[s] # None, tx'[s].op # "owner" PROVE tx'[s].cred \in Issued'
    BY DEF TxIssued
  <2>1. tx'[s].cred \in Issued
    BY <1>0, <1>2 DEF Moves, Enters, TxIssued
  <2> QED
    BY <1>1, <2>1 DEF Kept, Issued
<1>6. MandateHolds'
  <2> SUFFICES ASSUME NEW s \in Slots, tx'[s] # None, tx'[s].op = "agent", tx'[s].at = "mandate"
               PROVE  cred'[tx'[s].cred].mandate = "active" /\ ~cred'[tx'[s].cred].revoked
    BY DEF MandateHolds, AgentAt
  <2>1. CASE Enters(s)
    BY <2>1 DEF Enters
  <2>2. CASE tx'[s] = tx[s]
    <3>1. AgentAt(s, "mandate") /\ tx[s].cred \in Issued /\ tx[s].cred \in Creds
        BY <1>0, <2>2 DEF AgentAt, TxIssued, Issued
    <3>2. CredLocked(tx[s].cred) /\ MandateLocked(tx[s].cred)
        BY <3>1 DEF CredLocked, MandateLocked, AgentAt
    <3>3. cred[tx[s].cred].mandate = "active" /\ ~cred[tx[s].cred].revoked
        BY <1>0, <3>1 DEF MandateHolds
    <3> QED
        BY <1>1, <2>2, <3>1, <3>2, <3>3 DEF Kept
  <2> QED
    BY <1>2, <2>1, <2>2 DEF Moves
<1>7. ReadsAreOld'
  <2> SUFFICES ASSUME NEW s \in Slots, tx'[s] # None, tx'[s].op # "revoke"
               PROVE  tx'[s].base \in 0..Len(written)'
    BY DEF ReadsAreOld
  <2>1. tx'[s].base \in 0..Len(written)
    BY <1>0, <1>2 DEF Moves, Enters, ReadsAreOld
  <2> QED
    BY <1>0, <1>3, <2>1 DEF Documents
<1> QED
    BY <1>3, <1>4, <1>5, <1>6, <1>7 DEF Inductive

LEMMA InductiveHolds == Spec => []Inductive
BY InitInductive, NextInductive, PTL DEF Spec

-----------------------------------------------------------------------------
(* Results *)

\* Every row, version and transaction has its type, whatever agents, the owner
\* and the operator do at the same time.
THEOREM TypeCorrect == Spec => []TypeOK
<1>1. Inductive => TypeOK
    BY DEF Inductive
<1> QED
    BY <1>1, InductiveHolds, PTL

\* No update is lost: each version is written on the one before it, and of the
\* proposals for one version decide_proposal accepts at most one, however many
\* keys, grants and owners write between a proposal and its decision.
THEOREM UpdatesAreNotLost == Spec => []NoLostUpdate
<1>1. Inductive => NoLostUpdate
    BY DEF Inductive, Documents
<1> QED
    BY <1>1, InductiveHolds, PTL

\* A step commits an outreach only on what the locks have kept true.
LEMMA StepActsUnrevoked == Inductive /\ [Next]_vars => [ActsUnrevoked]_vars
BY DEF Inductive, MandateHolds, ActsUnrevoked

\* No outreach commits on a mandate that was suspended or revoked, or on a grant
\* that was revoked, before it: the locks of mandate_bound_identity hold off
\* revoke_agent_mandate, revoke_agent_grant and transition_agent_mandate.
THEOREM RevokedMandatesDoNotAct == Spec => RevokedMandateCannotAct
BY StepActsUnrevoked, InductiveHolds, PTL DEF Spec, RevokedMandateCannotAct

-----------------------------------------------------------------------------
(* Recruiting: the invariant *)

\* A withdrawal that is open has found a row, and rows are never deleted.
WithdrawalsHaveRows ==
    \A s \in RecruitingSlots :
        recruitingTx[s] # NoRecord /\ recruitingTx[s].op = "withdraw"
        => applications[<<recruitingTx[s].job, recruitingTx[s].by>>] # NoRecord

Deciding(s) == recruitingTx[s] # NoRecord /\ recruitingTx[s].op = "decide"

\* The one who decides is an employer, the organization is public and verified.
InControl(o) ==
    /\ o \in Employers
    /\ org # NoRecord /\ org.visibility = "public"
    /\ verification # NoRecord /\ verification.state = "active" /\ verification.current
    /\ verification.claims = org.material

Open(a) == applications[a] # NoRecord /\ applications[a].status \in {"submitted", "under_review"}

\* What decide_application has tested under its locks, and what they keep.
DecisionStands(t) == InControl(t.by) /\ t.by # t.applicant /\ Open(<<t.job, t.applicant>>)

DecisionsStand == \A s \in RecruitingSlots : Deciding(s) => DecisionStands(recruitingTx[s])

\* The organization's lock has one owner.
OneDecision == \A s, u \in RecruitingSlots : Deciding(s) /\ Deciding(u) => s = u

RecruitingInductive ==
    RecruitingTypeOK /\ WithdrawalsHaveRows /\ DecisionsStand /\ OneDecision

-----------------------------------------------------------------------------
(* Recruiting: what a step does to the applications *)

\* A decision is under way, of an employer in control.
Controlled(a) ==
    /\ \E s \in RecruitingSlots : Deciding(s) /\ recruitingTx[s].by \in Employers \ {a[2]}
    /\ org.visibility = "public"
    /\ verification.state = "active" /\ verification.current /\ verification.claims = org.material

\* A row stays, is made, is withdrawn or expires, or is decided by an employer
\* in control while it has no outcome.
ApplicationLook(a) ==
    \/ applications'[a] = applications[a]
    \/ applications[a] = NoRecord /\ applications'[a] = [status |-> "submitted", expired |-> FALSE]
    \/ /\ applications[a] # NoRecord /\ applications'[a] \in Application
       /\ \/ applications'[a].status \in {applications[a].status, "withdrawn"}
          \/ /\ applications[a].status \in {"submitted", "under_review"}
             /\ Controlled(a)

ApplicationsLook ==
    /\ applications' \in [Jobs \X People -> Application \cup {NoRecord}]
    /\ \A a \in Jobs \X People : ApplicationLook(a)

\* A write of one row is looked at there.
LEMMA ApplicationWritten ==
    ASSUME RecruitingTypeOK, NEW a \in Jobs \X People, NEW r \in Application,
           applications' = [applications EXCEPT ![a] = r], ApplicationLook(a)
    PROVE  ApplicationsLook
<1>1. applications' \in [Jobs \X People -> Application \cup {NoRecord}]
    BY DEF RecruitingTypeOK
<1>2. ASSUME NEW b \in Jobs \X People, b # a PROVE applications'[b] = applications[b]
    BY <1>2 DEF RecruitingTypeOK
<1> QED
    BY <1>1, <1>2 DEF ApplicationsLook, ApplicationLook

LEMMA ApplicationFields ==
    ASSUME NEW r \in Application, NEW st \in Statuses
    PROVE  /\ [r EXCEPT !.status = st] \in Application /\ [r EXCEPT !.expired = TRUE] \in Application
           /\ [r EXCEPT !.status = st].status = st /\ [r EXCEPT !.expired = TRUE].status = r.status
<1>1. [r EXCEPT !.status = st] \in Application
    BY Zenon DEF Application
<1>2. [r EXCEPT !.expired = TRUE] \in Application
    BY Zenon DEF Application
<1> QED
    BY <1>1, <1>2 DEF Application

LEMMA ApplyLook ==
    ASSUME RecruitingInductive, NEW s \in RecruitingSlots, FinishApply(s)
    PROVE  ApplicationsLook
<1> USE DEF RecruitingInductive
<1> DEFINE t == recruitingTx[s]
           a == <<t.job, t.by>>
           r == [status |-> "submitted", expired |-> FALSE]
<1>1. t \in RecruitingTransaction /\ t.op = "apply"
    BY DEF RecruitingTypeOK, FinishApply
<1>2. a \in Jobs \X People
    BY <1>1 DEF RecruitingTransaction
<1>3. r \in Application
    BY DEF Application, Statuses
<1>4. CASE Admissible(t)
  <2>1. applications' = [applications EXCEPT ![a] = r] /\ applications[a] = NoRecord
    BY <1>4 DEF FinishApply, Admissible
  <2>2. ApplicationLook(a)
    BY <1>2, <2>1 DEF ApplicationLook, RecruitingTypeOK
  <2> QED
    BY <1>2, <1>3, <2>1, <2>2, ApplicationWritten
<1>5. CASE ~Admissible(t)
    BY <1>5 DEF FinishApply, ApplicationsLook, ApplicationLook, RecruitingTypeOK
<1> QED
    BY <1>4, <1>5

LEMMA WithdrawLook ==
    ASSUME RecruitingInductive, NEW s \in RecruitingSlots, FinishWithdraw(s)
    PROVE  ApplicationsLook
<1> USE DEF RecruitingInductive
<1> DEFINE t == recruitingTx[s]
           a == <<t.job, t.by>>
           r == [applications[a] EXCEPT !.status = "withdrawn"]
<1>1. t \in RecruitingTransaction /\ t.op = "withdraw" /\ t # NoRecord
    BY DEF RecruitingTypeOK, FinishWithdraw
<1>2. a \in Jobs \X People
    BY <1>1 DEF RecruitingTransaction
<1>3. applications[a] \in Application /\ applications[a] # NoRecord
    BY <1>1, <1>2 DEF RecruitingTypeOK, WithdrawalsHaveRows
<1>4. r \in Application /\ r.status = "withdrawn"
    BY <1>3, ApplicationFields DEF Statuses
<1>5. CASE applications' = applications
    BY <1>5 DEF ApplicationsLook, ApplicationLook, RecruitingTypeOK
<1>6. CASE applications' = [applications EXCEPT ![a] = r]
  <2>1. ApplicationLook(a)
    BY <1>2, <1>3, <1>4, <1>6 DEF ApplicationLook, RecruitingTypeOK
  <2> QED
    BY <1>2, <1>4, <1>6, <2>1, ApplicationWritten
<1>7. applications' = applications \/ applications' = [applications EXCEPT ![a] = r]
    BY DEF FinishWithdraw
<1> QED
    BY <1>5, <1>6, <1>7

LEMMA ExpireLook ==
    ASSUME RecruitingInductive, NEW j \in Jobs, NEW p \in People, ExpireApplication(j, p)
    PROVE  ApplicationsLook
<1> USE DEF RecruitingInductive
<1> DEFINE a == <<j, p>>
           r == [applications[a] EXCEPT !.expired = TRUE]
<1>1. a \in Jobs \X People
    OBVIOUS
<1>2. applications[a] \in Application /\ applications[a] # NoRecord
    BY <1>1 DEF RecruitingTypeOK, ExpireApplication, MyApplications
<1>3. r \in Application /\ r.status = applications[a].status
    BY <1>2, ApplicationFields DEF Application
<1>4. applications' = [applications EXCEPT ![a] = r]
    BY DEF ExpireApplication
<1>5. ApplicationLook(a)
    BY <1>1, <1>2, <1>3, <1>4 DEF ApplicationLook, RecruitingTypeOK
<1> QED
    BY <1>1, <1>3, <1>4, <1>5, ApplicationWritten

LEMMA DecideLook ==
    ASSUME RecruitingInductive, NEW s \in RecruitingSlots, FinishDecide(s)
    PROVE  ApplicationsLook
<1> USE DEF RecruitingInductive
<1> DEFINE t == recruitingTx[s]
           a == <<t.job, t.applicant>>
           status == [review |-> "under_review", accept |-> "accepted", reject |-> "rejected"]
           r == [applications[a] EXCEPT !.status = status[t.action]]
<1>1. Deciding(s) /\ t \in RecruitingTransaction
    BY DEF RecruitingTypeOK, FinishDecide, Deciding
<1>2. a \in Jobs \X People /\ a[2] = t.applicant /\ t.action \in {"review", "accept", "reject"}
    BY <1>1 DEF RecruitingTransaction, Deciding
<1>3. DecisionStands(t)
    BY <1>1 DEF DecisionsStand
<1>4. Controlled(a) /\ Open(a)
    BY <1>1, <1>2, <1>3 DEF Controlled, DecisionStands, InControl
<1>5. applications[a] \in Application /\ applications[a] # NoRecord
    BY <1>2, <1>4 DEF RecruitingTypeOK, Open
<1>6. status[t.action] \in Statuses
    BY <1>2 DEF Statuses
<1>7. r \in Application
    BY <1>5, <1>6, ApplicationFields
<1>8. applications' = [applications EXCEPT ![a] = r]
    BY DEF FinishDecide
<1> HIDE DEF r, a, t, status
<1>9. applications'[a] = r
    BY <1>2, <1>8 DEF RecruitingTypeOK
<1>10. ApplicationLook(a)
    BY <1>4, <1>5, <1>7, <1>9 DEF ApplicationLook, Open
<1> QED
    BY <1>2, <1>7, <1>8, <1>10, ApplicationWritten

-----------------------------------------------------------------------------
(* Recruiting: what a step does to everything else *)

CountersLook ==
    /\ applied' \in [People -> 0..ApplicationLimit]
    /\ blocks' \subseteq People
    /\ released' \in BOOLEAN
    /\ recruitingEvents' \in 0..RecruitingEvents

\* A transaction goes on, ends, or begins with rows that are there; a decision
\* begins alone and in control.
SlotLook(s) ==
    \/ recruitingTx'[s] \in {recruitingTx[s], NoRecord}
    \/ /\ recruitingTx'[s] \in RecruitingTransaction
       /\ recruitingTx'[s].op = "withdraw" =>
            applications[<<recruitingTx'[s].job, recruitingTx'[s].by>>] # NoRecord
       /\ recruitingTx'[s].op = "decide" =>
            /\ OrganizationUnlocked /\ DecisionStands(recruitingTx'[s])
            /\ UNCHANGED <<org, members, verification, applications>>
            /\ \A u \in RecruitingSlots \ {s} : recruitingTx'[u] = recruitingTx[u]

SlotsLook ==
    /\ recruitingTx' \in [RecruitingSlots -> RecruitingTransaction \cup {NoRecord}]
    /\ \A s \in RecruitingSlots : SlotLook(s)

\* Which handlers write which rows.
HandlersLook ==
    /\ \/ UNCHANGED org
       \/ CreateOrganization
       \/ \E o \in Owners, visibility \in {"private", "public", "kept"}, renamed \in BOOLEAN :
            UpdateOrganization(o, visibility, renamed)
    /\ \/ UNCHANGED members
       \/ \E p \in People :
            \/ \E role \in {"admin", "member"} : Invite(p, role)
            \/ AcceptMembership(p) \/ RemoveMember(p)
    /\ \/ UNCHANGED verification
       \/ \E s \in RecruitingSlots : FinishSubmit(s)
       \/ \E action \in DOMAIN Transition : DecideVerification(action)
       \/ \E ends \in BOOLEAN : Lapse(ends)
       \/ \E current \in BOOLEAN : Redeploy(current)
    /\ \/ UNCHANGED applications
       \/ \E s \in RecruitingSlots : FinishApply(s) \/ FinishWithdraw(s) \/ FinishDecide(s)
       \/ \E j \in Jobs, p \in People : ExpireApplication(j, p)
    /\ \/ UNCHANGED jobs
       \/ \E o \in Owners, j \in Jobs :
            \/ CreateJob(o, j) \/ PublishJob(o, j) \/ CloseJob(o, j)
            \/ \E human \in BOOLEAN : UpdateJob(o, j, human)
    /\ \/ UNCHANGED <<applied, blocks, released>> /\ (RecruitingEvent \/ UNCHANGED recruitingEvents)
       \/ \E s \in RecruitingSlots : FinishApply(s)
       \/ \E p \in People : Block(p)
       \/ NewDay
       \/ \E current \in BOOLEAN : Redeploy(current)
    /\ \/ UNCHANGED recruitingTx
       \/ \E s \in RecruitingSlots :
            \/ BeginSubmit(s) \/ FinishSubmit(s) \/ FinishApply(s) \/ FinishWithdraw(s) \/ FinishDecide(s)
            \/ \E p \in People, j \in Jobs : BeginApply(s, p, j) \/ BeginWithdraw(s, p, j)
            \/ \E o \in Owners, j \in Jobs, p \in People, action \in {"review", "accept", "reject"} :
                BeginDecide(s, o, j, p, action)
       \/ \E current \in BOOLEAN : Redeploy(current)

LEMMA RecruitingHandlers ==
    ASSUME [RecruitingNext]_recruitingVars
    PROVE  HandlersLook
<1>1. ASSUME NEW s \in RecruitingSlots, NEW p \in People, NEW j \in Jobs,
             BeginApply(s, p, j) \/ BeginWithdraw(s, p, j)
      PROVE  HandlersLook
    BY <1>1 DEF BeginApply, BeginWithdraw, HandlersLook
<1>2. ASSUME NEW s \in RecruitingSlots, BeginSubmit(s) \/ FinishSubmit(s) PROVE HandlersLook
    BY <1>2 DEF BeginSubmit, FinishSubmit, HandlersLook
<1>3. ASSUME NEW s \in RecruitingSlots, FinishApply(s) \/ FinishWithdraw(s) \/ FinishDecide(s)
      PROVE  HandlersLook
    BY <1>3 DEF FinishApply, FinishWithdraw, FinishDecide, HandlersLook
<1>4. ASSUME NEW p \in People,
             \/ \E role \in {"admin", "member"} : Invite(p, role)
             \/ AcceptMembership(p) \/ RemoveMember(p) \/ Block(p)
      PROVE  HandlersLook
    BY <1>4 DEF Invite, AcceptMembership, RemoveMember, Block, HandlersLook
<1>5. ASSUME NEW o \in Owners, NEW j \in Jobs,
             \/ CreateJob(o, j) \/ PublishJob(o, j) \/ CloseJob(o, j)
             \/ \E human \in BOOLEAN : UpdateJob(o, j, human)
      PROVE  HandlersLook
    BY <1>5 DEF CreateJob, PublishJob, CloseJob, UpdateJob, HandlersLook
<1>6. ASSUME NEW s \in RecruitingSlots, NEW o \in Owners, NEW j \in Jobs, NEW p \in People,
             NEW action \in {"review", "accept", "reject"}, BeginDecide(s, o, j, p, action)
      PROVE  HandlersLook
    BY <1>6 DEF BeginDecide, HandlersLook
<1>7. ASSUME NEW j \in Jobs, NEW p \in People, ExpireApplication(j, p) PROVE HandlersLook
    BY <1>7 DEF ExpireApplication, HandlersLook
<1>8. ASSUME NEW ends \in BOOLEAN, Lapse(ends) PROVE HandlersLook
    BY <1>8 DEF Lapse, HandlersLook
<1>9. ASSUME NEW action \in DOMAIN Transition, DecideVerification(action) PROVE HandlersLook
    BY <1>9 DEF DecideVerification, HandlersLook
<1>10. ASSUME NEW o \in Owners, NEW v \in {"private", "public", "kept"}, NEW renamed \in BOOLEAN,
              UpdateOrganization(o, v, renamed)
       PROVE  HandlersLook
    BY <1>10 DEF UpdateOrganization, HandlersLook
<1>11. CASE CreateOrganization \/ NewDay \/ \E current \in BOOLEAN : Redeploy(current)
    BY <1>11 DEF CreateOrganization, NewDay, Redeploy, HandlersLook
<1>12. CASE UNCHANGED recruitingVars
    BY <1>12 DEF recruitingVars, HandlersLook
<1> QED
    BY <1>1, <1>2, <1>3, <1>4, <1>5, <1>6, <1>7, <1>8, <1>9, <1>10, <1>11, <1>12 DEF RecruitingNext

LEMMA RecruitingApplications ==
    ASSUME RecruitingInductive, [RecruitingNext]_recruitingVars
    PROVE  ApplicationsLook
<1>1. CASE UNCHANGED applications
    BY <1>1 DEF ApplicationsLook, ApplicationLook, RecruitingInductive, RecruitingTypeOK
<1> QED
    BY <1>1, RecruitingHandlers, ApplyLook, WithdrawLook, ExpireLook, DecideLook DEF HandlersLook

LEMMA OrganizationStep ==
    ASSUME RecruitingInductive, [RecruitingNext]_recruitingVars
    PROVE  org' \in Organization \cup {NoRecord}
<1> USE DEF RecruitingInductive
<1>1. ASSUME NEW o \in Owners, NEW v \in {"private", "public", "kept"}, NEW renamed \in BOOLEAN,
             UpdateOrganization(o, v, renamed)
      PROVE  org' \in Organization
  <2>1. org \in Organization
    BY <1>1 DEF RecruitingTypeOK, UpdateOrganization, Manages
  <2>2. org.material \in 1..MaxMaterial /\ (renamed => org.material + 1 \in 1..MaxMaterial)
    BY <1>1, <2>1, RecruitingAssumption DEF Organization, UpdateOrganization
  <2>3. org.visibility \in {"private", "public"}
    BY <2>1 DEF Organization
  <2> QED
    BY <1>1, <2>2, <2>3 DEF UpdateOrganization, Organization
<1>2. CASE CreateOrganization
    BY <1>2, RecruitingAssumption DEF CreateOrganization, Organization
<1>3. CASE UNCHANGED org
    BY <1>3 DEF RecruitingTypeOK
<1> QED
    BY <1>1, <1>2, <1>3, RecruitingHandlers DEF HandlersLook

LEMMA MembersStep ==
    ASSUME RecruitingInductive, [RecruitingNext]_recruitingVars
    PROVE  members' \in [People -> OrganizationMembership \cup {NoRecord}]
<1> USE DEF RecruitingInductive
<1>1. ASSUME NEW p \in People, NEW m \in OrganizationMembership \cup {NoRecord},
             members' = [members EXCEPT ![p] = m]
      PROVE  members' \in [People -> OrganizationMembership \cup {NoRecord}]
    BY <1>1 DEF RecruitingTypeOK
<1>2. ASSUME NEW p \in People, NEW role \in {"admin", "member"}, Invite(p, role)
      PROVE  members' \in [People -> OrganizationMembership \cup {NoRecord}]
  <2>1. [role |-> role, status |-> "invited"] \in OrganizationMembership
    BY DEF OrganizationMembership
  <2> QED
    BY <1>1, <1>2, <2>1 DEF Invite
<1>3. ASSUME NEW p \in People, AcceptMembership(p)
      PROVE  members' \in [People -> OrganizationMembership \cup {NoRecord}]
  <2>1. members[p] \in OrganizationMembership
    BY <1>3 DEF RecruitingTypeOK, AcceptMembership, Invited, Members
  <2>2. [members[p] EXCEPT !.status = "active"] \in OrganizationMembership
    BY <2>1, Zenon DEF OrganizationMembership
  <2>3. members' = [members EXCEPT ![p] = [members[p] EXCEPT !.status = "active"]]
    BY <1>3 DEF AcceptMembership
  <2> QED
    BY <1>1, <2>2, <2>3
<1>4. ASSUME NEW p \in People, RemoveMember(p)
      PROVE  members' \in [People -> OrganizationMembership \cup {NoRecord}]
    BY <1>1, <1>4 DEF RemoveMember
<1>5. CASE UNCHANGED members
    BY <1>5 DEF RecruitingTypeOK
<1> QED
    BY <1>2, <1>3, <1>4, <1>5, RecruitingHandlers DEF HandlersLook

LEMMA VerificationStep ==
    ASSUME RecruitingInductive, [RecruitingNext]_recruitingVars
    PROVE  verification' \in Verification \cup {NoRecord}
<1> USE DEF RecruitingInductive
<1>1. ASSUME NEW s \in RecruitingSlots, FinishSubmit(s)
      PROVE  verification' \in Verification \cup {NoRecord}
  <2>1. recruitingTx[s] \in RecruitingTransaction /\ recruitingTx[s].op = "submit"
    BY <1>1 DEF RecruitingTypeOK, FinishSubmit
  <2>2. recruitingTx[s].org \in Organization
    BY <2>1 DEF RecruitingTransaction
  <2>3. recruitingTx[s].org.material \in 1..MaxMaterial
    BY <2>2 DEF Organization
  <2>4. [state |-> "submitted", claims |-> recruitingTx[s].org.material, lapsed |-> FALSE, retained |-> TRUE,
         current |-> FALSE] \in Verification
    BY <2>3 DEF Verification, VerificationStates
  <2> QED
    BY <1>1, <2>4 DEF FinishSubmit, RecruitingTypeOK
<1>2. ASSUME NEW action \in DOMAIN Transition, DecideVerification(action)
      PROVE  verification' \in Verification \cup {NoRecord}
  <2>1. EffectiveState # "none"
    BY <1>2 DEF DecideVerification, Transition
  <2>2. verification \in Verification
    BY <2>1 DEF EffectiveState, RecruitingTypeOK
  <2>3. Transition[action].to \in VerificationStates
    BY DEF Transition, VerificationStates
  <2> QED
    BY <1>2, <2>2, <2>3 DEF DecideVerification, Verification
<1>3. ASSUME NEW ends \in BOOLEAN, Lapse(ends)
      PROVE  verification' \in Verification \cup {NoRecord}
  <2>1. verification \in Verification
    BY <1>3 DEF Lapse, RecruitingTypeOK
  <2> QED
    BY <1>3, <2>1 DEF Lapse, Verification
<1>4. CASE UNCHANGED verification
    BY <1>4 DEF RecruitingTypeOK
<1>5. ASSUME NEW current \in BOOLEAN, Redeploy(current)
      PROVE  verification' \in Verification \cup {NoRecord}
  <2>1. CASE verification \in Verification /\ verification' = [verification EXCEPT !.current = current]
    BY <2>1 DEF Verification
  <2> QED
    BY <1>4, <1>5, <2>1 DEF Redeploy, RecruitingTypeOK
<1> QED
    BY <1>1, <1>2, <1>3, <1>4, <1>5, RecruitingHandlers DEF HandlersLook

LEMMA JobsStep ==
    ASSUME RecruitingInductive, [RecruitingNext]_recruitingVars
    PROVE  jobs' \in [Jobs -> Job \cup {NoRecord}]
<1> USE DEF RecruitingInductive
<1>1. ASSUME NEW j \in Jobs, NEW st \in {"draft", "published", "closed"}, jobs[j] # NoRecord, Revised(j, st)
      PROVE  jobs' \in [Jobs -> Job \cup {NoRecord}]
  <2>1. jobs[j] \in Job
    BY <1>1 DEF RecruitingTypeOK
  <2>2. jobs[j].version + 1 \in 1..MaxJobVersion
    BY <1>1, <2>1, RecruitingAssumption DEF Revised, Job
  <2>3. [status |-> st, version |-> jobs[j].version + 1] \in Job
    BY <2>2 DEF Job
  <2>4. jobs' = [jobs EXCEPT ![j] = [status |-> st, version |-> jobs[j].version + 1]]
    BY <1>1 DEF Revised
  <2> QED
    BY <2>3, <2>4 DEF RecruitingTypeOK
<1>2. ASSUME NEW o \in Owners, NEW j \in Jobs, CreateJob(o, j)
      PROVE  jobs' \in [Jobs -> Job \cup {NoRecord}]
  <2>1. [status |-> "draft", version |-> 1] \in Job
    BY RecruitingAssumption DEF Job
  <2> QED
    BY <1>2, <2>1 DEF CreateJob, RecruitingTypeOK
<1>3. ASSUME NEW o \in Owners, NEW j \in Jobs,
             \/ PublishJob(o, j) \/ CloseJob(o, j)
             \/ \E human \in BOOLEAN : UpdateJob(o, j, human)
      PROVE  jobs' \in [Jobs -> Job \cup {NoRecord}]
  <2>1. jobs[j] # NoRecord /\ jobs[j] \in Job
    BY <1>3 DEF PublishJob, CloseJob, UpdateJob, EmployerJobs, RecruitingTypeOK
  <2>2. jobs[j].status \in {"draft", "published", "closed"}
    BY <2>1 DEF Job
  <2> QED
    BY <1>1, <1>3, <2>1, <2>2 DEF PublishJob, CloseJob, UpdateJob
<1>4. CASE UNCHANGED jobs
    BY <1>4 DEF RecruitingTypeOK
<1> QED
    BY <1>2, <1>3, <1>4, RecruitingHandlers DEF HandlersLook

LEMMA CountersStep ==
    ASSUME RecruitingInductive, [RecruitingNext]_recruitingVars
    PROVE  CountersLook
<1> USE DEF RecruitingInductive, CountersLook
<1>1. CASE UNCHANGED <<applied, blocks, released>> /\ (RecruitingEvent \/ UNCHANGED recruitingEvents)
    BY <1>1, RecruitingAssumption DEF RecruitingEvent, RecruitingTypeOK
<1>2. ASSUME NEW s \in RecruitingSlots, FinishApply(s) PROVE CountersLook
  <2>1. recruitingTx[s] \in RecruitingTransaction /\ recruitingTx[s].op = "apply"
    BY <1>2 DEF RecruitingTypeOK, FinishApply
  <2>2. recruitingTx[s].by \in People
    BY <2>1 DEF RecruitingTransaction
  <2>3. CASE Admissible(recruitingTx[s])
    <3>1. applied[recruitingTx[s].by] + 1 \in 0..ApplicationLimit
      BY <2>2, <2>3, RecruitingAssumption DEF Admissible, RecruitingTypeOK
    <3> QED
      BY <1>2, <2>2, <2>3, <3>1 DEF FinishApply, RecruitingTypeOK
  <2>4. CASE ~Admissible(recruitingTx[s])
    BY <1>2, <2>4 DEF FinishApply, RecruitingTypeOK
  <2> QED
    BY <2>3, <2>4
<1>3. CASE NewDay
    BY <1>3, RecruitingAssumption DEF NewDay, RecruitingEvent, RecruitingTypeOK
<1>4. ASSUME NEW current \in BOOLEAN, Redeploy(current) PROVE CountersLook
  <2>1. released' \in BOOLEAN
    BY <1>4, Zenon DEF Redeploy, RecruitingTypeOK
  <2> QED
    BY <1>4, <2>1, RecruitingAssumption DEF Redeploy, RecruitingEvent, RecruitingTypeOK
<1>5. ASSUME NEW p \in People, Block(p) PROVE CountersLook
    BY <1>5, RecruitingAssumption DEF Block, RecruitingEvent, RecruitingTypeOK
<1> HIDE DEF CountersLook
<1> QED
    BY <1>1, <1>2, <1>3, <1>4, <1>5, RecruitingHandlers DEF HandlersLook

LEMMA SlotWritten ==
    ASSUME RecruitingTypeOK, NEW s \in RecruitingSlots, NEW t \in RecruitingTransaction \cup {NoRecord},
           recruitingTx' = [recruitingTx EXCEPT ![s] = t],
           t # NoRecord /\ t.op = "withdraw" => applications[<<t.job, t.by>>] # NoRecord,
           t # NoRecord /\ t.op = "decide" =>
               OrganizationUnlocked /\ DecisionStands(t) /\ UNCHANGED <<org, members, verification, applications>>
    PROVE  SlotsLook
BY DEF RecruitingTypeOK, SlotsLook, SlotLook

LEMMA SlotsStep ==
    ASSUME RecruitingInductive, [RecruitingNext]_recruitingVars
    PROVE  SlotsLook
<1> USE DEF RecruitingInductive
<1>1. CASE UNCHANGED recruitingTx
    BY <1>1 DEF RecruitingTypeOK, SlotsLook, SlotLook
<1>2. ASSUME NEW s \in RecruitingSlots, FinishSubmit(s) \/ FinishApply(s) \/ FinishWithdraw(s) \/ FinishDecide(s)
      PROVE  SlotsLook
    BY <1>2, SlotWritten DEF FinishSubmit, FinishApply, FinishWithdraw, FinishDecide
<1>3. ASSUME NEW s \in RecruitingSlots, BeginSubmit(s) PROVE SlotsLook
  <2>1. [op |-> "submit", org |-> org] \in RecruitingTransaction
    BY <1>3 DEF BeginSubmit, RecruitingTypeOK, RecruitingTransaction
  <2> QED
    BY <1>3, <2>1, SlotWritten DEF BeginSubmit
<1>4. ASSUME NEW s \in RecruitingSlots, NEW p \in People, NEW j \in Jobs, BeginApply(s, p, j)
      PROVE  SlotsLook
  <2>1. org \in Organization /\ jobs[j] \in Job
    BY <1>4 DEF BeginApply, RecruitingTypeOK
  <2>2. [op |-> "apply", by |-> p, job |-> j, org |-> org, status |-> jobs[j].status] \in RecruitingTransaction
    BY <2>1 DEF RecruitingTransaction, Job
  <2> QED
    BY <1>4, <2>2, SlotWritten DEF BeginApply
<1>5. ASSUME NEW s \in RecruitingSlots, NEW p \in People, NEW j \in Jobs, BeginWithdraw(s, p, j)
      PROVE  SlotsLook
  <2>1. applications[<<j, p>>] \in Application /\ applications[<<j, p>>] # NoRecord
    BY <1>5 DEF BeginWithdraw, RecruitingTypeOK
  <2>2. [op |-> "withdraw", by |-> p, job |-> j, row |-> applications[<<j, p>>]] \in RecruitingTransaction
    BY <2>1 DEF RecruitingTransaction
  <2> QED
    BY <1>5, <2>1, <2>2, SlotWritten DEF BeginWithdraw
<1>6. ASSUME NEW current \in BOOLEAN, Redeploy(current) PROVE SlotsLook
    BY <1>6 DEF Redeploy, SlotsLook, SlotLook
<1>7. ASSUME NEW s \in RecruitingSlots, NEW o \in Owners, NEW j \in Jobs, NEW p \in People,
             NEW action \in {"review", "accept", "reject"}, BeginDecide(s, o, j, p, action)
      PROVE  SlotsLook
  <2> DEFINE t == [op |-> "decide", by |-> o, job |-> j, applicant |-> p, action |-> action]
  <2>1. t \in RecruitingTransaction
    BY DEF RecruitingTransaction
  <2>2. t.op = "decide" /\ t.by = o /\ t.job = j /\ t.applicant = p
    OBVIOUS
  <2>3. InControl(o)
    BY <1>7 DEF BeginDecide, EmployerJobs, Manages, EmployerInControl, ActiveVerification, EffectiveState,
       VerifiedEvidence, InControl
  <2>4. Open(<<j, p>>)
    BY <1>7 DEF BeginDecide, MyApplications, ApplicationUndecided, Open
  <2>5. DecisionStands(t) /\ OrganizationUnlocked /\ UNCHANGED <<org, members, verification, applications>>
        /\ recruitingTx' = [recruitingTx EXCEPT ![s] = t]
    BY <1>7, <2>2, <2>3, <2>4 DEF BeginDecide, DecisionStands
  <2> HIDE DEF t
  <2> QED
    BY <2>1, <2>2, <2>5, SlotWritten
<1> QED
    BY <1>1, <1>2, <1>3, <1>4, <1>5, <1>6, <1>7, RecruitingHandlers DEF HandlersLook

\* While a decision is under way, the organization, its members, the verification
\* and the statuses of the applications stay: all who write them wait for the
\* organization's lock.
LEMMA LockKeeps ==
    ASSUME RecruitingInductive, [RecruitingNext]_recruitingVars, NEW s \in RecruitingSlots, Deciding(s),
           recruitingTx'[s] = recruitingTx[s]
    PROVE  /\ UNCHANGED <<org, members>>
           /\ verification' # NoRecord /\ verification'.state = verification.state
           /\ verification'.current = verification.current /\ verification'.claims = verification.claims
           /\ \A a \in Jobs \X People : Open(a) => Open(a)'
<1> USE DEF RecruitingInductive
<1>1. ~OrganizationUnlocked
    BY DEF OrganizationUnlocked, Deciding
<1>2. org # NoRecord /\ verification \in Verification /\ verification # NoRecord
    BY DEF DecisionsStand, DecisionStands, InControl, RecruitingTypeOK
<1>3. HandlersLook
    BY RecruitingHandlers
<1>4. UNCHANGED org
    BY <1>1, <1>2, <1>3 DEF HandlersLook, CreateOrganization, UpdateOrganization
<1>5. UNCHANGED members
    BY <1>1, <1>3 DEF HandlersLook, Invite, AcceptMembership, RemoveMember
<1>6. ~\E current \in BOOLEAN : Redeploy(current)
    BY DEF Redeploy, Deciding
<1>7. UNCHANGED verification \/ \E ends \in BOOLEAN : Lapse(ends)
    BY <1>1, <1>3, <1>6 DEF HandlersLook, FinishSubmit, DecideVerification
<1>8. /\ verification' # NoRecord /\ verification'.state = verification.state
      /\ verification'.current = verification.current /\ verification'.claims = verification.claims
  <2>1. ASSUME NEW ends \in BOOLEAN, Lapse(ends)
        PROVE  /\ verification' \in Verification /\ verification'.state = verification.state
               /\ verification'.current = verification.current /\ verification'.claims = verification.claims
    BY <1>2, <2>1 DEF Lapse, Verification
  <2> QED
    BY <1>2, <1>7, <2>1, RecruitingAssumption DEF RecruitingAssumption
<1>9. ~FinishDecide(s)
    BY DEF FinishDecide, Deciding, RecruitingTypeOK
<1>10. ASSUME NEW u \in RecruitingSlots, FinishDecide(u) PROVE FALSE
    BY <1>9, <1>10 DEF FinishDecide, OneDecision, Deciding
<1>11. UNCHANGED applications \/ \E j \in Jobs, p \in People : ExpireApplication(j, p)
    BY <1>1, <1>3, <1>10 DEF HandlersLook, FinishApply, FinishWithdraw
<1>12. ASSUME NEW j \in Jobs, NEW p \in People, ExpireApplication(j, p), NEW a \in Jobs \X People, Open(a)
       PROVE  Open(a)'
  <2> DEFINE r == [applications[<<j, p>>] EXCEPT !.expired = TRUE]
  <2>1. applications' = [applications EXCEPT ![<<j, p>>] = r]
    BY <1>12 DEF ExpireApplication
  <2>2. CASE a = <<j, p>>
    <3>1. applications[a] \in Application
      BY <1>12 DEF Open, RecruitingTypeOK
    <3>2. r \in Application /\ r.status = applications[a].status
      BY <2>2, <3>1, ApplicationFields DEF Application
    <3>3. applications'[a] = r
      BY <2>1, <2>2 DEF RecruitingTypeOK
    <3> HIDE DEF r
    <3> QED
      BY <1>12, <3>2, <3>3, RecruitingAssumption DEF Open, RecruitingAssumption
  <2>3. CASE a # <<j, p>>
    BY <1>12, <2>1, <2>3 DEF Open, RecruitingTypeOK
  <2> QED
    BY <2>2, <2>3
<1>13. \A a \in Jobs \X People : Open(a) => Open(a)'
    BY <1>11, <1>12 DEF Open
<1> QED
    BY <1>4, <1>5, <1>8, <1>13

-----------------------------------------------------------------------------
(* Recruiting: theorems *)

LEMMA RecruitingInitInductive == RecruitingInit => RecruitingInductive
<1> SUFFICES ASSUME RecruitingInit PROVE RecruitingInductive
    OBVIOUS
<1>1. RecruitingTypeOK
    BY RecruitingAssumption DEF RecruitingInit, RecruitingTypeOK
<1>2. WithdrawalsHaveRows /\ DecisionsStand /\ OneDecision
    BY DEF RecruitingInit, WithdrawalsHaveRows, DecisionsStand, OneDecision, Deciding
<1> QED
    BY <1>1, <1>2 DEF RecruitingInductive

LEMMA RecruitingNextInductive ==
    RecruitingInductive /\ [RecruitingNext]_recruitingVars => RecruitingInductive'
<1> SUFFICES ASSUME RecruitingInductive, [RecruitingNext]_recruitingVars PROVE RecruitingInductive'
    OBVIOUS
<1>1. ApplicationsLook /\ SlotsLook
    BY RecruitingApplications, SlotsStep
<1>2. RecruitingTypeOK'
    BY <1>1, OrganizationStep, MembersStep, VerificationStep, JobsStep, CountersStep
    DEF RecruitingTypeOK, ApplicationsLook, SlotsLook, CountersLook
<1>3. ASSUME NEW a \in Jobs \X People, applications[a] # NoRecord PROVE applications'[a] # NoRecord
    BY <1>1, <1>3, RecruitingAssumption DEF ApplicationsLook, ApplicationLook
<1>4. ASSUME NEW s \in RecruitingSlots, recruitingTx'[s] # NoRecord, recruitingTx'[s].op = "withdraw"
      PROVE  applications'[<<recruitingTx'[s].job, recruitingTx'[s].by>>] # NoRecord
  <2>1. applications[<<recruitingTx'[s].job, recruitingTx'[s].by>>] # NoRecord
    BY <1>1, <1>4 DEF SlotsLook, SlotLook, RecruitingInductive, WithdrawalsHaveRows
  <2>2. recruitingTx'[s] \in RecruitingTransaction
    BY <1>1, <1>4 DEF SlotsLook
  <2>3. <<recruitingTx'[s].job, recruitingTx'[s].by>> \in Jobs \X People
    BY <1>4, <2>2 DEF RecruitingTransaction
  <2> QED
    BY <1>3, <2>1, <2>3
<1>5. ASSUME NEW s \in RecruitingSlots, Deciding(s)' PROVE DecisionStands(recruitingTx[s])'
  <2>1. CASE recruitingTx'[s] = recruitingTx[s]
    <3>1. Deciding(s) /\ DecisionStands(recruitingTx[s])
      BY <1>5, <2>1 DEF Deciding, RecruitingInductive, DecisionsStand
    <3>2. /\ UNCHANGED <<org, members>>
          /\ verification' # NoRecord /\ verification'.state = verification.state
          /\ verification'.current = verification.current /\ verification'.claims = verification.claims
          /\ \A a \in Jobs \X People : Open(a) => Open(a)'
      BY <2>1, <3>1, LockKeeps
    <3>3. <<recruitingTx[s].job, recruitingTx[s].applicant>> \in Jobs \X People
      BY <3>1 DEF Deciding, RecruitingInductive, RecruitingTypeOK, RecruitingTransaction
    <3>4. InControl(recruitingTx[s].by)'
      BY <2>1, <3>1, <3>2 DEF DecisionStands, InControl, Employers
    <3>5. Open(<<recruitingTx[s].job, recruitingTx[s].applicant>>)'
      BY <2>1, <3>1, <3>2, <3>3 DEF DecisionStands
    <3> QED
      BY <2>1, <3>1, <3>4, <3>5 DEF DecisionStands
  <2>2. CASE recruitingTx'[s] # recruitingTx[s]
    <3>1. DecisionStands(recruitingTx'[s]) /\ UNCHANGED <<org, members, verification, applications>>
      BY <1>1, <1>5, <2>2 DEF SlotsLook, SlotLook, Deciding
    <3> QED
      BY <3>1 DEF DecisionStands, InControl, Open, Employers
  <2> QED
    BY <2>1, <2>2
<1>6. ASSUME NEW s \in RecruitingSlots, NEW u \in RecruitingSlots, Deciding(s)', Deciding(u)', s # u PROVE FALSE
  <2>1. ASSUME NEW x \in RecruitingSlots, NEW y \in RecruitingSlots, x # y, Deciding(x)', Deciding(y)',
               recruitingTx'[x] # recruitingTx[x]
        PROVE  FALSE
    BY <1>1, <2>1 DEF SlotsLook, SlotLook, Deciding, OrganizationUnlocked
  <2>2. recruitingTx'[s] = recruitingTx[s] /\ recruitingTx'[u] = recruitingTx[u]
    BY <1>6, <2>1
  <2> QED
    BY <1>6, <2>2 DEF Deciding, RecruitingInductive, OneDecision
<1> QED
    BY <1>2, <1>4, <1>5, <1>6 DEF RecruitingInductive, WithdrawalsHaveRows, DecisionsStand, OneDecision

\* The inductive invariant of an organization: the types of its rows; that a
\* withdrawal (withdraw_application), which tests a row it read before its locks,
\* finds a row under them, because no application is ever deleted; and that one
\* decision at a time is under way (decide_application), for which the lock of the
\* organization keeps what was tested.
THEOREM RecruitingInductiveHolds == RecruitingSpec => []RecruitingInductive
BY RecruitingInitInductive, RecruitingNextInductive, PTL DEF RecruitingSpec

\* Whatever the members, the applicants and the clock do, the rows of an
\* organization have their types: no verification past the last material
\* version, no application above the limit of a day (submit_application).
THEOREM RecruitingTypeCorrect == RecruitingSpec => []RecruitingTypeOK
BY RecruitingInductiveHolds, PTL DEF RecruitingInductive

\* When a decision commits (decide_application), the one who made it is still an
\* employer, of an organization that is still public and verified on the claims it
\* shows, for any number of people, jobs and open transactions: whoever renames it,
\* submits or decides its verification or removes its members waits for the lock.
THEOREM DecisionsAreControlled == RecruitingSpec => DecidedUnderControl
<1>1. RecruitingInductive /\ [RecruitingNext]_recruitingVars => DecisionIsControlled
  <2> SUFFICES ASSUME RecruitingInductive, [RecruitingNext]_recruitingVars,
                      NEW a \in Jobs \X People, applications[a] # NoRecord,
                      applications'[a] # applications[a],
                      applications'[a].status \in Decisions \ {applications[a].status}
               PROVE  Controlled(a)
    BY DEF DecisionIsControlled, Controlled, Deciding
  <2>1. ApplicationLook(a)
    BY RecruitingApplications DEF ApplicationsLook
  <2> QED
    BY <2>1 DEF ApplicationLook, Decisions
<1> QED
    BY <1>1, RecruitingInductiveHolds, PTL DEF RecruitingSpec, DecidedUnderControl

\* No employer changes an application that has an outcome or was withdrawn: the
\* outcome stays, or the applicant's withdrawal overtakes it
\* (decide_application, withdraw_application).
THEOREM OutcomesAreRespected == RecruitingSpec => EmployerRespectsOutcome
<1>1. RecruitingInductive /\ [RecruitingNext]_recruitingVars => OutcomeIsRespected
  <2> SUFFICES ASSUME RecruitingInductive, [RecruitingNext]_recruitingVars,
                      NEW a \in Jobs \X People, applications[a] # NoRecord,
                      applications[a].status \in {"accepted", "rejected", "withdrawn"}
               PROVE  applications'[a].status \in {applications[a].status, "withdrawn"}
    BY DEF OutcomeIsRespected
  <2>1. ApplicationLook(a)
    BY RecruitingApplications DEF ApplicationsLook
  <2> QED
    BY <2>1 DEF ApplicationLook
<1> QED
    BY <1>1, RecruitingInductiveHolds, PTL DEF RecruitingSpec, EmployerRespectsOutcome
=============================================================================
