---------------------------- MODULE SocialProofs ----------------------------
(***************************************************************************)
(* Safety of Posts (follows, blocks, reports, moderation and appeals) and  *)
(* of Connections (requests, connections, conversations and messages) for  *)
(* any number of owners, rows, reviewers and open transactions.  The two   *)
(* share the lemmas on rows and nothing else.                              *)
(***************************************************************************)
EXTENDS Posts, Connections, SequenceTheorems, TLAPS

\* Rows refer to rows: cases to posts, transactions to posts and cases.
References ==
    /\ \A c \in DOMAIN cases : cases[c].post \in DOMAIN posts
    /\ \A s \in Slots :
        /\ Runs(s, "report") => tx[s].post \in DOMAIN posts
        /\ Runs(s, "appeal") => tx[s].case \in DOMAIN cases

\* The pair's lock row is held from the check of the blocks to the commit.
FollowIsChecked == \A s \in Slots : Runs(s, "follow") => ~ContentBlocked(tx[s].by, tx[s].other)

\* A withholding that no appeal has overturned.
Standing(c) == cases[c].status \in {"withheld", "appealed", "appeal_upheld"}

\* A post is withheld by one case at most, though a report that had read it
\* before opens another.
OneStanding ==
    \A c, d \in DOMAIN cases : Standing(c) /\ Standing(d) /\ cases[c].post = cases[d].post => c = d

\* What a case records of its decision and its review comes with its status.
RecordedWhenDecided ==
    \A c \in DOMAIN cases :
        /\ cases[c].basis # None => cases[c].status # "open"
        /\ cases[c].appealReviewer # None => cases[c].status \in {"appeal_upheld", "appeal_overturned"}

Inductive ==
    /\ TypeOK
    /\ References
    /\ FollowIsChecked
    /\ OneStanding
    /\ RecordedWhenDecided
    /\ NoFollowPastBlock
    /\ PublishedIsCleared
    /\ IndependentAppeal
    /\ DecisionEvidenceStands

-----------------------------------------------------------------------------
(* Writes *)

\* An update in place of one row.
LEMMA RowUpdate ==
    ASSUME NEW S, NEW q \in Seq(S), NEW i \in DOMAIN q, NEW e \in S, NEW u, u = [q EXCEPT ![i] = e]
    PROVE  /\ u \in Seq(S) /\ Len(u) = Len(q) /\ DOMAIN u = DOMAIN q
           /\ u[i] = e /\ \A j \in DOMAIN q \ {i} : u[j] = q[j]
<1>1. DOMAIN q = 1..Len(q) /\ i \in 1..Len(q)
    OBVIOUS
<1>2. u \in Seq(S) /\ Len(u) = Len(q) /\ \A j \in 1..Len(q) : u[j] = IF j = i THEN e ELSE q[j]
    BY <1>1, ExceptSeq
<1> QED
    BY <1>1, <1>2

\* A row added at the end.
LEMMA RowAdded ==
    ASSUME NEW S, NEW q \in Seq(S), NEW e \in S, NEW u, u = Append(q, e)
    PROVE  /\ u \in Seq(S) /\ Len(u) = Len(q) + 1
           /\ DOMAIN u = DOMAIN q \cup {Len(q) + 1} /\ Len(q) + 1 \notin DOMAIN q
           /\ u[Len(q) + 1] = e /\ \A j \in DOMAIN q : u[j] = q[j]
<1>1. DOMAIN q = 1..Len(q) /\ Len(q) \in Nat
    OBVIOUS
<1>2. /\ u \in Seq(S) /\ Len(u) = Len(q) + 1
      /\ u[Len(q) + 1] = e /\ \A j \in 1..Len(q) : u[j] = q[j]
    BY AppendProperties
<1>3. DOMAIN u = 1..(Len(q) + 1)
    BY <1>2
<1> QED
    BY <1>1, <1>2, <1>3

\* What the handlers write into a case keeps its type.
LEMMA CaseTypes ==
    ASSUME NEW k \in ModerationCase, NEW st \in CaseStatuses
    PROVE  /\ [k EXCEPT !.status = st] \in ModerationCase
           /\ [k EXCEPT !.late = TRUE] \in ModerationCase
           /\ \A m \in Reviewers :
                /\ [k EXCEPT !.status = st, !.appealReviewer = m] \in ModerationCase
                /\ \A b \in {None} \cup SUBSET Owners :
                    [k EXCEPT !.status = st, !.moderator = m, !.basis = b] \in ModerationCase
<1>1. [k EXCEPT !.status = st] \in ModerationCase
    BY Zenon DEF ModerationCase
<1>2. [k EXCEPT !.late = TRUE] \in ModerationCase
    BY Zenon DEF ModerationCase
<1>3. ASSUME NEW m \in Reviewers PROVE [k EXCEPT !.status = st, !.appealReviewer = m] \in ModerationCase
    BY Zenon DEF ModerationCase
<1>4. ASSUME NEW m \in Reviewers, NEW b \in {None} \cup SUBSET Owners
      PROVE  [k EXCEPT !.status = st, !.moderator = m, !.basis = b] \in ModerationCase
    BY Zenon DEF ModerationCase
<1> QED
    BY <1>1, <1>2, <1>3, <1>4

\* A case that is written keeps its post, and the others keep everything.
OtherCases(c) ==
    /\ Len(cases') = Len(cases) /\ DOMAIN cases' = DOMAIN cases
    /\ \A d \in DOMAIN cases \ {c} : cases'[d] = cases[d]
    /\ cases'[c].post = cases[c].post

\* A post whose status is written.
OtherPosts(p) ==
    /\ Len(posts') = Len(posts) /\ DOMAIN posts' = DOMAIN posts
    /\ \A q \in DOMAIN posts \ {p} : posts'[q] = posts[q]
    /\ posts'[p].by = posts[p].by

LEMMA StatusWrites ==
    ASSUME TypeOK, NEW p \in DOMAIN posts, NEW st \in PostStatuses,
           posts' = [posts EXCEPT ![p].status = st]
    PROVE  posts' \in Seq(Post) /\ OtherPosts(p) /\ posts'[p].status = st
<1> DEFINE e == [posts[p] EXCEPT !.status = st]
<1>1. posts \in Seq(Post) /\ posts[p] \in Post
    BY DEF TypeOK
<1>2. e \in Post /\ e.by = posts[p].by /\ e.status = st
    BY <1>1 DEF Post
<1>3. posts' = [posts EXCEPT ![p] = e]
    OBVIOUS
<1> HIDE DEF e
<1> QED
    BY <1>1, <1>2, <1>3, RowUpdate DEF OtherPosts

\* A decision of an open case, with or without the evidence it is based on.
LEMMA DecideWrites ==
    ASSUME TypeOK, References, NEW c \in DOMAIN cases, NEW action \in {"withhold", "dismiss"},
           NEW basis \in {None} \cup SUBSET Owners, DecideCase(c, action, basis)
    PROVE  /\ cases' \in Seq(ModerationCase) /\ OtherCases(c)
           /\ cases[c].status = "open"
           /\ cases'[c].status = IF action = "withhold" THEN "withheld" ELSE "dismissed"
           /\ cases'[c].basis = basis /\ cases'[c].appealReviewer = cases[c].appealReviewer
           /\ posts' \in Seq(Post) /\ OtherPosts(cases[c].post)
           /\ IF action = "withhold"
              THEN /\ posts[cases[c].post].status = "published"
                   /\ posts'[cases[c].post].status = "withheld"
              ELSE posts' = posts
<1> DEFINE st == IF action = "withhold" THEN "withheld" ELSE "dismissed"
           e == [cases[c] EXCEPT !.status = st, !.moderator = authority.moderator, !.basis = basis]
<1>1. cases \in Seq(ModerationCase) /\ cases[c] \in ModerationCase /\ cases[c].post \in DOMAIN posts
    BY DEF TypeOK, References
<1>2. authority.moderator \in Reviewers /\ st \in CaseStatuses
    BY DEF TypeOK, Authorities, CaseStatuses
<1>3. e \in ModerationCase
    BY <1>1, <1>2, CaseTypes
<1>4. /\ e.status = st /\ e.basis = basis
      /\ e.appealReviewer = cases[c].appealReviewer /\ e.post = cases[c].post
    BY <1>1 DEF ModerationCase
<1>5. cases' = [cases EXCEPT ![c] = e] /\ cases[c].status = "open"
    BY DEF DecideCase, ReviewCases
<1> HIDE DEF e
<1>6. cases' \in Seq(ModerationCase) /\ OtherCases(c) /\ cases'[c] = e
    BY <1>1, <1>3, <1>4, <1>5, RowUpdate DEF OtherCases
<1>7. CASE action = "withhold"
  <2>1. /\ posts[cases[c].post].status = "published"
        /\ posts' = [posts EXCEPT ![cases[c].post].status = "withheld"]
    BY <1>7 DEF DecideCase
  <2>2. /\ posts' \in Seq(Post) /\ OtherPosts(cases[c].post)
        /\ posts'[cases[c].post].status = "withheld"
    BY <1>1, <2>1, StatusWrites DEF PostStatuses
  <2> QED
    BY <1>4, <1>5, <1>6, <1>7, <2>1, <2>2
<1>8. CASE action = "dismiss"
  <2>1. posts' = posts
    BY <1>8 DEF DecideCase
  <2> QED
    BY <1>4, <1>5, <1>6, <1>8, <2>1 DEF TypeOK, OtherPosts
<1> QED
    BY <1>7, <1>8

\* The review of an appeal by somebody independent.
LEMMA ReviewWrites ==
    ASSUME TypeOK, References, NEW c \in DOMAIN cases, NEW action \in {"uphold", "overturn"},
           ReviewAppeal(c, action)
    PROVE  /\ cases' \in Seq(ModerationCase) /\ OtherCases(c)
           /\ cases[c].status = "appealed" /\ posts[cases[c].post].status # "published"
           /\ cases'[c].status = IF action = "overturn" THEN "appeal_overturned" ELSE "appeal_upheld"
           /\ cases'[c].basis = cases[c].basis /\ cases'[c].moderator = cases[c].moderator
           /\ cases'[c].appealReviewer \notin {cases[c].moderator, Subject(c)}
           /\ posts' \in Seq(Post) /\ OtherPosts(cases[c].post)
           /\ action = "uphold" => posts' = posts
<1> DEFINE st == IF action = "overturn" THEN "appeal_overturned" ELSE "appeal_upheld"
           e == [cases[c] EXCEPT !.status = st, !.appealReviewer = authority.appealReviewer]
<1>1. cases \in Seq(ModerationCase) /\ cases[c] \in ModerationCase /\ cases[c].post \in DOMAIN posts
    BY DEF TypeOK, References
<1>2. authority.appealReviewer \in Reviewers /\ st \in CaseStatuses
    BY DEF TypeOK, Authorities, CaseStatuses
<1>3. e \in ModerationCase
    BY <1>1, <1>2, CaseTypes
<1>4. /\ e.status = st /\ e.basis = cases[c].basis /\ e.moderator = cases[c].moderator
      /\ e.appealReviewer = authority.appealReviewer /\ e.post = cases[c].post
    BY <1>1 DEF ModerationCase
<1>5. /\ cases' = [cases EXCEPT ![c] = e] /\ cases[c].status = "appealed"
      /\ posts[cases[c].post].status # "published"
      /\ authority.appealReviewer \notin {cases[c].moderator, Subject(c)}
    BY DEF ReviewAppeal, ReviewAppeals, AwaitsReview, Independent
<1> HIDE DEF e
<1>6. cases' \in Seq(ModerationCase) /\ OtherCases(c) /\ cases'[c] = e
    BY <1>1, <1>3, <1>4, <1>5, RowUpdate DEF OtherCases
<1>7. CASE action = "overturn" /\ posts[cases[c].post].status = "withheld"
  <2>1. posts' = [posts EXCEPT ![cases[c].post].status = "published"]
    BY <1>7 DEF ReviewAppeal, Restored
  <2>2. posts' \in Seq(Post) /\ OtherPosts(cases[c].post)
    BY <1>1, <2>1, StatusWrites DEF PostStatuses
  <2> QED
    BY <1>4, <1>5, <1>6, <1>7, <2>2
<1>8. CASE ~(action = "overturn" /\ posts[cases[c].post].status = "withheld")
  <2>1. posts' = posts
    BY <1>8 DEF ReviewAppeal, Restored
  <2> QED
    BY <1>4, <1>5, <1>6, <2>1 DEF TypeOK, OtherPosts
<1> QED
    BY <1>7, <1>8

\* An appeal of a withheld case that is filed, or refused and without effect.
LEMMA AppealWrites ==
    ASSUME TypeOK, References, NEW s \in Slots, FinishAppeal(s)
    PROVE  \/ cases' = cases
           \/ \E c \in DOMAIN cases :
                /\ cases' \in Seq(ModerationCase) /\ OtherCases(c)
                /\ cases[c].status = "withheld" /\ cases'[c].status = "appealed"
                /\ cases'[c].basis = cases[c].basis /\ cases'[c].moderator = cases[c].moderator
                /\ cases'[c].appealReviewer = cases[c].appealReviewer
<1> DEFINE c == tx[s].case
           e == [cases[c] EXCEPT !.status = "appealed"]
<1> SUFFICES ASSUME cases' # cases
             PROVE  /\ c \in DOMAIN cases
                    /\ cases' \in Seq(ModerationCase) /\ OtherCases(c)
                    /\ cases[c].status = "withheld" /\ cases'[c].status = "appealed"
                    /\ cases'[c].basis = cases[c].basis /\ cases'[c].moderator = cases[c].moderator
                    /\ cases'[c].appealReviewer = cases[c].appealReviewer
    OBVIOUS
<1>1. cases' = [cases EXCEPT ![c] = e] /\ cases[c].status = "withheld" /\ c \in DOMAIN cases
    BY DEF FinishAppeal, References
<1>2. cases \in Seq(ModerationCase) /\ cases[c] \in ModerationCase
    BY <1>1 DEF TypeOK
<1>3. e \in ModerationCase
    BY <1>2, CaseTypes DEF CaseStatuses
<1>4. /\ e.status = "appealed" /\ e.basis = cases[c].basis /\ e.moderator = cases[c].moderator
      /\ e.appealReviewer = cases[c].appealReviewer /\ e.post = cases[c].post
    BY <1>2 DEF ModerationCase
<1> HIDE DEF e
<1>5. cases' \in Seq(ModerationCase) /\ OtherCases(c) /\ cases'[c] = e
    BY <1>1, <1>2, <1>3, <1>4, RowUpdate DEF OtherCases
<1> QED
    BY <1>1, <1>4, <1>5

\* The deadline of an appeal changes nothing else.
LEMMA DeadlineWrites ==
    ASSUME TypeOK, NEW c \in DOMAIN cases, DeadlinePasses(c)
    PROVE  /\ cases' \in Seq(ModerationCase) /\ OtherCases(c)
           /\ cases'[c].status = cases[c].status
           /\ cases'[c].basis = cases[c].basis /\ cases'[c].moderator = cases[c].moderator
           /\ cases'[c].appealReviewer = cases[c].appealReviewer
<1> DEFINE e == [cases[c] EXCEPT !.late = TRUE]
<1>1. cases' = [cases EXCEPT ![c] = e]
    BY DEF DeadlinePasses
<1>2. cases \in Seq(ModerationCase) /\ cases[c] \in ModerationCase
    BY DEF TypeOK
<1>3. e \in ModerationCase
    BY <1>2, CaseTypes DEF CaseStatuses
<1>4. /\ e.status = cases[c].status /\ e.basis = cases[c].basis /\ e.moderator = cases[c].moderator
      /\ e.appealReviewer = cases[c].appealReviewer /\ e.post = cases[c].post
    BY <1>2 DEF ModerationCase
<1> HIDE DEF e
<1>5. cases' \in Seq(ModerationCase) /\ OtherCases(c) /\ cases'[c] = e
    BY <1>1, <1>2, <1>3, <1>4, RowUpdate DEF OtherCases
<1> QED
    BY <1>4, <1>5

\* A first report joins the open case of its post or opens one.
LEMMA ReportWrites ==
    ASSUME TypeOK, References, NEW s \in Slots, FinishReport(s)
    PROVE  \/ UNCHANGED <<cases, reports, quota>>
           \/ \E p \in DOMAIN posts, o \in Owners, c \in 1..MaxCases :
                /\ reports[<<p, o>>] = 0 /\ reports' = [reports EXCEPT ![<<p, o>>] = c]
                /\ \/ c \in DOMAIN cases /\ cases[c].status = "open" /\ cases' = cases
                   \/ c = Len(cases) + 1 /\ cases' = Append(cases, NewCase(p))
                /\ Consumes("report", o)
<1> DEFINE o == tx[s].by
           p == tx[s].post
           c == IF OpenCase(p) = {} THEN Len(cases) + 1 ELSE CHOOSE d \in OpenCase(p) : TRUE
<1>1. p \in DOMAIN posts /\ o \in Owners
    BY DEF FinishReport, References, TypeOK, Transaction, Runs
<1>2. CASE /\ posts[p].by \in public \ {o} /\ ~ContentBlocked(o, posts[p].by)
           /\ reports[<<p, o>>] = 0
           /\ quota[<<"report", o>>] < DailyLimits["report"]
  <2>1. /\ reports[<<p, o>>] = 0 /\ reports' = [reports EXCEPT ![<<p, o>>] = c]
        /\ cases' = IF OpenCase(p) = {} THEN Append(cases, NewCase(p)) ELSE cases
        /\ Consumes("report", o) /\ c <= MaxCases
    BY <1>2 DEF FinishReport
  <2>2. CASE OpenCase(p) = {}
    <3>1. c = Len(cases) + 1 /\ c \in 1..MaxCases
        BY <2>1, <2>2, PostsAssumption DEF TypeOK, PostsAssumption
    <3> QED
        BY <1>1, <2>1, <2>2, <3>1
  <2>3. CASE OpenCase(p) # {}
    <3>1. c \in OpenCase(p)
        BY <2>3
    <3> HIDE DEF c
    <3>2. c \in DOMAIN cases /\ cases[c].status = "open"
        BY <3>1 DEF OpenCase, CasesOf
    <3>3. c \in 1..MaxCases
        BY <3>2, PostsAssumption DEF TypeOK, PostsAssumption
    <3> QED
        BY <1>1, <2>1, <2>3, <3>2, <3>3
  <2> QED
    BY <2>2, <2>3
<1>3. CASE ~(/\ posts[p].by \in public \ {o} /\ ~ContentBlocked(o, posts[p].by)
             /\ reports[<<p, o>>] = 0
             /\ quota[<<"report", o>>] < DailyLimits["report"])
    BY <1>3 DEF FinishReport
<1> QED
    BY <1>2, <1>3

-----------------------------------------------------------------------------
(* Types *)

\* The quota rows keep their type.
LEMMA QuotaTyped ==
    ASSUME TypeOK, NEW kind \in {"post", "follow", "report"}, NEW o \in Owners, Consumes(kind, o)
    PROVE  quota' \in [(DOMAIN DailyLimits) \X Owners -> Nat]
BY PostsAssumption DEF PostsAssumption, TypeOK, Consumes

\* Every step keeps the types.
LEMMA NextTypeOK == TypeOK /\ References /\ [Next]_vars => TypeOK'
<1> SUFFICES ASSUME TypeOK, References, [Next]_vars PROVE TypeOK'
    OBVIOUS
<1> USE PostsAssumption DEF PostsAssumption
<1>1. ASSUME NEW o \in Owners, CreatePost(o) PROVE TypeOK'
  <2>1. [by |-> o, status |-> "published"] \in Post
    BY DEF Post, PostStatuses
  <2>2. posts' \in Seq(Post) /\ Len(posts') = Len(posts) + 1 /\ Len(posts) < MaxPosts
    BY <1>1, <2>1, RowAdded DEF CreatePost, TypeOK
  <2>3. quota' \in [(DOMAIN DailyLimits) \X Owners -> Nat]
    BY <1>1, QuotaTyped DEF CreatePost
  <2> QED
    BY <1>1, <2>2, <2>3 DEF CreatePost, TypeOK
<1>2. ASSUME NEW o \in Owners, Unpublish(o) PROVE TypeOK'
    BY <1>2 DEF Unpublish, Event, TypeOK
<1>3. ASSUME NEW p \in DOMAIN posts, WithdrawPost(p) PROVE TypeOK'
  <2>1. posts' \in Seq(Post) /\ Len(posts') = Len(posts)
    BY <1>3, StatusWrites DEF WithdrawPost, PostStatuses, OtherPosts
  <2> QED
    BY <1>3, <2>1 DEF WithdrawPost, TypeOK
<1>4. ASSUME NEW x \in Social, NEW y \in Social, BlockContent(x, y) \/ UnblockContent(x, y) PROVE TypeOK'
    BY <1>4 DEF BlockContent, UnblockContent, TypeOK
<1>5. ASSUME NEW x \in Fans, NEW y \in Social, Unfollow(x, y) PROVE TypeOK'
    BY <1>5 DEF Unfollow, TypeOK
<1>6. ASSUME NEW x \in Fans, NEW y \in Social, NEW s \in Slots, BeginFollow(s, x, y) PROVE TypeOK'
  <2>1. [op |-> "follow", by |-> x, other |-> y] \in Transaction
    BY DEF Transaction
  <2> QED
    BY <1>6, <2>1 DEF BeginFollow, Begun, TypeOK
<1>7. ASSUME NEW s \in Slots, FinishFollow(s) PROVE TypeOK'
  <2>1. tx[s].by \in Owners /\ tx[s].other \in Owners
    BY <1>7 DEF FinishFollow, Runs, TypeOK, Transaction
  <2>2. CASE UNCHANGED <<follows, quota>>
    BY <1>7, <2>2 DEF FinishFollow, Ended, TypeOK
  <2>3. CASE follows' = follows \cup {<<tx[s].by, tx[s].other>>} /\ Consumes("follow", tx[s].by)
    <3>1. quota' \in [(DOMAIN DailyLimits) \X Owners -> Nat]
        BY <2>1, <2>3, QuotaTyped
    <3> QED
        BY <1>7, <2>1, <2>3, <3>1 DEF FinishFollow, Ended, TypeOK
  <2> QED
    BY <1>7, <2>2, <2>3 DEF FinishFollow
<1>8. ASSUME NEW s \in Slots, FinishReport(s) PROVE TypeOK'
  <2>0. tx' \in [Slots -> Transaction \cup {None}]
    BY <1>8 DEF FinishReport, Ended, TypeOK
  <2>1. CASE UNCHANGED <<cases, reports, quota>>
    BY <1>8, <2>0, <2>1 DEF FinishReport, TypeOK
  <2>2. ASSUME NEW p \in DOMAIN posts, NEW o \in Owners, NEW c \in 1..MaxCases,
               reports' = [reports EXCEPT ![<<p, o>>] = c],
               \/ c \in DOMAIN cases /\ cases' = cases
               \/ c = Len(cases) + 1 /\ cases' = Append(cases, NewCase(p)),
               Consumes("report", o)
        PROVE  TypeOK'
    <3>1. p \in 1..MaxPosts
        BY DEF TypeOK
    <3>2. reports' \in [(1..MaxPosts) \X Owners -> 0..MaxCases]
        BY <2>2, <3>1 DEF TypeOK
    <3>3. quota' \in [(DOMAIN DailyLimits) \X Owners -> Nat]
        BY <2>2, QuotaTyped
    <3>4. NewCase(p) \in ModerationCase
        BY <3>1 DEF NewCase, ModerationCase, CaseStatuses
    <3>5. cases' \in Seq(ModerationCase) /\ Len(cases') <= MaxCases
      <4>1. CASE cases' = cases
        BY <4>1 DEF TypeOK
      <4>2. CASE c = Len(cases) + 1 /\ cases' = Append(cases, NewCase(p))
        <5>1. cases \in Seq(ModerationCase)
            BY DEF TypeOK
        <5>2. cases' \in Seq(ModerationCase) /\ Len(cases') = Len(cases) + 1
            BY <3>4, <4>2, <5>1, RowAdded
        <5> QED
            BY <4>2, <5>2
      <4> QED
        BY <2>2, <4>1, <4>2
    <3> QED
        BY <1>8, <2>0, <3>2, <3>3, <3>5 DEF FinishReport, TypeOK
  <2> QED
    BY <1>8, <2>1, <2>2, ReportWrites
<1>9. ASSUME NEW s \in Slots, FinishAppeal(s) PROVE TypeOK'
  <2>1. cases' \in Seq(ModerationCase) /\ Len(cases') = Len(cases)
    BY <1>9, AppealWrites DEF TypeOK, OtherCases
  <2> QED
    BY <1>9, <2>1 DEF FinishAppeal, Ended, TypeOK
<1>10. ASSUME NEW s \in Slots, NEW o \in Owners, NEW p \in DOMAIN posts, BeginReport(s, o, p) PROVE TypeOK'
  <2>1. [op |-> "report", by |-> o, post |-> p] \in Transaction
    BY DEF Transaction, TypeOK
  <2> QED
    BY <1>10, <2>1 DEF BeginReport, Begun, TypeOK
<1>11. ASSUME NEW s \in Slots, NEW o \in Owners, NEW c \in DOMAIN cases, BeginAppeal(s, o, c) PROVE TypeOK'
  <2>0. c \in 1..MaxCases /\ cases[c] \in ModerationCase
    BY DEF TypeOK
  <2>1. c \in 1..MaxCases /\ cases[c].status \in CaseStatuses
    BY <2>0 DEF ModerationCase
  <2>2. [op |-> "appeal", case |-> c, status |-> cases[c].status] \in Transaction
    BY <2>1 DEF Transaction
  <2> QED
    BY <1>11, <2>2 DEF BeginAppeal, Begun, TypeOK
<1>12. ASSUME NEW c \in DOMAIN cases, NEW action \in {"withhold", "dismiss"},
              DecideReviewCase(c, action) \/ ModeratePost(c, action)
       PROVE  TypeOK'
  <2>1. PICK basis \in {None} \cup SUBSET Owners : DecideCase(c, action, basis)
    <3>1. CASE DecideReviewCase(c, action)
        BY <3>1 DEF DecideReviewCase, ExpectedSnapshot, Evidence
    <3>2. CASE ModeratePost(c, action)
        BY <3>2 DEF ModeratePost
    <3> QED
        BY <1>12, <3>1, <3>2
  <2>2. /\ cases' \in Seq(ModerationCase) /\ Len(cases') = Len(cases)
        /\ posts' \in Seq(Post) /\ Len(posts') = Len(posts)
    BY <2>1, DecideWrites DEF OtherCases, OtherPosts
  <2> QED
    BY <2>1, <2>2 DEF DecideCase, TypeOK
<1>13. ASSUME NEW c \in DOMAIN cases, NEW action \in {"uphold", "overturn"}, ReviewAppeal(c, action)
       PROVE  TypeOK'
  <2>1. /\ cases' \in Seq(ModerationCase) /\ Len(cases') = Len(cases)
        /\ posts' \in Seq(Post) /\ Len(posts') = Len(posts)
    BY <1>13, ReviewWrites DEF OtherCases, OtherPosts
  <2> QED
    BY <1>13, <2>1 DEF ReviewAppeal, TypeOK
<1>14. ASSUME NEW c \in DOMAIN cases, InspectCase(c) PROVE TypeOK'
  <2>1. /\ c \in 1..MaxCases /\ cases[c].status \in CaseStatuses
        /\ posts[cases[c].post].status \in PostStatuses
    <3>1. c \in 1..MaxCases /\ cases[c] \in ModerationCase /\ posts[cases[c].post] \in Post
        BY DEF TypeOK, References
    <3> QED
        BY <3>1 DEF ModerationCase, Post
  <2>2. Evidence(c) \in Snapshot
    BY <2>1 DEF Evidence, Snapshot
  <2> QED
    BY <1>14, <2>2 DEF InspectCase, TypeOK
<1>15. ASSUME NEW c \in DOMAIN cases, DeadlinePasses(c) PROVE TypeOK'
  <2>1. cases' \in Seq(ModerationCase) /\ Len(cases') = Len(cases)
    BY <1>15, DeadlineWrites DEF OtherCases
  <2> QED
    BY <1>15, <2>1 DEF DeadlinePasses, Event, TypeOK
<1>16. CASE NewDay
    BY <1>16 DEF NewDay, Event, TypeOK
<1>17. CASE Redeploy
    BY <1>17 DEF Redeploy, Event, TypeOK
<1>18. CASE UNCHANGED vars
    BY <1>18 DEF vars, TypeOK
<1> QED
    BY <1>1, <1>2, <1>3, <1>4, <1>5, <1>6, <1>7, <1>8, <1>9, <1>10, <1>11, <1>12, <1>13, <1>14, <1>15,
       <1>16, <1>17, <1>18
    DEF Next

-----------------------------------------------------------------------------
(* Follows and blocks *)

\* Every step keeps follows and blocks apart, and a follow that is being
\* committed free of blocks.
LEMMA NextFollows ==
    ASSUME TypeOK, FollowIsChecked, NoFollowPastBlock, [Next]_vars
    PROVE  FollowIsChecked' /\ NoFollowPastBlock'
<1> USE PostsAssumption DEF PostsAssumption
<1> DEFINE Goal == FollowIsChecked' /\ NoFollowPastBlock'
<1>1. ASSUME NEW x \in Social, NEW y \in Social, BlockContent(x, y) PROVE Goal
  <2>1. /\ blocks' = blocks \cup {<<x, y>>} /\ follows' = follows \ {<<x, y>>, <<y, x>>}
        /\ tx' = tx /\ ~PairLocked(x, y)
    BY <1>1 DEF BlockContent
  <2>2. FollowIsChecked'
    <3> SUFFICES ASSUME NEW s \in Slots, Runs(s, "follow")
                 PROVE  ~ContentBlocked(tx[s].by, tx[s].other)'
        BY <2>1 DEF FollowIsChecked, Runs
    <3>1. ~ContentBlocked(tx[s].by, tx[s].other)
        BY DEF FollowIsChecked
    <3>2. {tx[s].by, tx[s].other} # {x, y}
        BY <2>1 DEF PairLocked
    <3> QED
        BY <2>1, <3>1, <3>2 DEF ContentBlocked
  <2>3. NoFollowPastBlock'
    <3> SUFFICES ASSUME NEW pair \in follows'
                 PROVE  ~ContentBlocked(pair[1], pair[2])'
        BY DEF NoFollowPastBlock
    <3>1. PICK v \in Owners, w \in Owners : pair = <<v, w>>
        BY <2>1 DEF TypeOK
    <3>2. ~ContentBlocked(v, w)
        BY <2>1, <3>1 DEF NoFollowPastBlock
    <3>3. <<v, w>> # <<x, y>> /\ <<v, w>> # <<y, x>>
        BY <2>1, <3>1
    <3>4. ~ContentBlocked(v, w)'
        BY <2>1, <3>2, <3>3 DEF ContentBlocked
    <3> QED
        BY <3>1, <3>4 DEF ContentBlocked
  <2> QED
    BY <2>2, <2>3
<1>2. ASSUME NEW x \in Social, NEW y \in Social, UnblockContent(x, y) PROVE Goal
    BY <1>2 DEF UnblockContent, FollowIsChecked, NoFollowPastBlock, ContentBlocked, Runs
<1>3. ASSUME NEW x \in Fans, NEW y \in Social, Unfollow(x, y) PROVE Goal
    BY <1>3 DEF Unfollow, FollowIsChecked, NoFollowPastBlock, ContentBlocked, Runs
<1>4. ASSUME NEW x \in Fans, NEW y \in Social, NEW s \in Slots, BeginFollow(s, x, y) PROVE Goal
  <2>1. /\ tx' = [tx EXCEPT ![s] = [op |-> "follow", by |-> x, other |-> y]]
        /\ ~ContentBlocked(x, y) /\ UNCHANGED <<follows, blocks>>
    BY <1>4 DEF BeginFollow, Begun
  <2> QED
    BY <2>1 DEF FollowIsChecked, NoFollowPastBlock, ContentBlocked, Runs, TypeOK
<1>5. ASSUME NEW s \in Slots, FinishFollow(s) PROVE Goal
  <2>1. /\ tx' = [tx EXCEPT ![s] = None] /\ blocks' = blocks
        /\ follows' \in {follows, follows \cup {<<tx[s].by, tx[s].other>>}}
        /\ Runs(s, "follow")
    BY <1>5 DEF FinishFollow, Ended
  <2>2. NoFollowPastBlock'
    <3>1. ~ContentBlocked(tx[s].by, tx[s].other)
        BY <2>1 DEF FollowIsChecked
    <3>2. \A pair \in follows' : pair \in follows \/ pair = <<tx[s].by, tx[s].other>>
        BY <2>1
    <3>3. \A pair \in follows' : ~ContentBlocked(pair[1], pair[2])
        BY <3>1, <3>2 DEF NoFollowPastBlock
    <3> QED
        BY <2>1, <3>3 DEF NoFollowPastBlock, ContentBlocked
  <2>3. FollowIsChecked'
    BY <2>1 DEF FollowIsChecked, ContentBlocked, Runs, TypeOK
  <2> QED
    BY <2>2, <2>3
<1>6. ASSUME NEW s \in Slots, UNCHANGED <<follows, blocks>>,
             \/ tx' = [tx EXCEPT ![s] = None]
             \/ \E o \in Owners, q \in DOMAIN posts :
                    tx' = [tx EXCEPT ![s] = [op |-> "report", by |-> o, post |-> q]]
             \/ \E c \in DOMAIN cases :
                    tx' = [tx EXCEPT ![s] = [op |-> "appeal", case |-> c, status |-> cases[c].status]]
      PROVE  Goal
  <2>1. \A r \in Slots : tx'[r] # None /\ tx'[r].op = "follow" => tx'[r] = tx[r]
    BY <1>6 DEF TypeOK
  <2>2. FollowIsChecked'
    BY <1>6, <2>1 DEF FollowIsChecked, ContentBlocked, Runs
  <2>3. NoFollowPastBlock'
    BY <1>6 DEF NoFollowPastBlock, ContentBlocked
  <2> QED
    BY <2>2, <2>3
<1>7. CASE Redeploy
    BY <1>7 DEF Redeploy, FollowIsChecked, NoFollowPastBlock, ContentBlocked, Runs
<1>8. CASE UNCHANGED <<follows, blocks, tx>>
    BY <1>8 DEF FollowIsChecked, NoFollowPastBlock, ContentBlocked, Runs
<1>9. ASSUME NEW o \in Owners, CreatePost(o) \/ Unpublish(o) PROVE Goal
    BY <1>8, <1>9 DEF CreatePost, Unpublish
<1>10. ASSUME NEW q \in DOMAIN posts, WithdrawPost(q) PROVE Goal
    BY <1>8, <1>10 DEF WithdrawPost
<1>11. ASSUME NEW s \in Slots, FinishReport(s) \/ FinishAppeal(s) PROVE Goal
    BY <1>6, <1>11 DEF FinishReport, FinishAppeal, Ended
<1>12. ASSUME NEW s \in Slots, NEW o \in Owners, NEW q \in DOMAIN posts, BeginReport(s, o, q) PROVE Goal
    BY <1>6, <1>12 DEF BeginReport, Begun
<1>13. ASSUME NEW s \in Slots, NEW o \in Owners, NEW c \in DOMAIN cases, BeginAppeal(s, o, c) PROVE Goal
    BY <1>6, <1>13 DEF BeginAppeal, Begun
<1>14. ASSUME NEW c \in DOMAIN cases, NEW action \in {"withhold", "dismiss"},
              DecideReviewCase(c, action) \/ ModeratePost(c, action)
       PROVE  Goal
    BY <1>8, <1>14 DEF DecideReviewCase, ModeratePost, DecideCase
<1>15. ASSUME NEW c \in DOMAIN cases, NEW action \in {"uphold", "overturn"}, ReviewAppeal(c, action)
       PROVE  Goal
    BY <1>8, <1>15 DEF ReviewAppeal
<1>16. ASSUME NEW c \in DOMAIN cases, InspectCase(c) \/ DeadlinePasses(c) PROVE Goal
    BY <1>8, <1>16 DEF InspectCase, DeadlinePasses
<1>17. CASE NewDay
    BY <1>8, <1>17 DEF NewDay
<1>18. CASE UNCHANGED vars
    BY <1>8, <1>18 DEF vars
<1> HIDE DEF Goal
<1> QED
    BY <1>1, <1>2, <1>3, <1>4, <1>5, <1>7, <1>9, <1>10, <1>11, <1>12, <1>13, <1>14, <1>15, <1>16, <1>17,
       <1>18
    DEF Next, Goal

-----------------------------------------------------------------------------
(* Moderation *)

CasesInvariant ==
    /\ References /\ OneStanding /\ RecordedWhenDecided
    /\ PublishedIsCleared /\ IndependentAppeal /\ DecisionEvidenceStands

\* Every step keeps what the cases promise.
LEMMA NextCases ==
    ASSUME TypeOK, CasesInvariant, [Next]_vars
    PROVE  CasesInvariant'
<1>0. References
    BY DEF CasesInvariant
<1> USE DEF CasesInvariant, References, OneStanding, Standing, RecordedWhenDecided, PublishedIsCleared,
        IndependentAppeal, DecisionEvidenceStands, Subject, Evidence
<1>1. ASSUME NEW o \in Owners, CreatePost(o) PROVE CasesInvariant'
  <2>1. [by |-> o, status |-> "published"] \in Post
    BY DEF Post, PostStatuses
  <2>2. /\ DOMAIN posts' = DOMAIN posts \cup {Len(posts) + 1}
        /\ \A p \in DOMAIN posts : posts'[p] = posts[p]
    BY <1>1, <2>1, RowAdded DEF CreatePost, TypeOK
  <2>3. UNCHANGED <<cases, reports, tx>>
    BY <1>1 DEF CreatePost
  <2> QED
    BY <2>2, <2>3 DEF Runs
<1>2. ASSUME NEW p \in DOMAIN posts, WithdrawPost(p) PROVE CasesInvariant'
  <2>1. OtherPosts(p) /\ posts'[p].status = "withdrawn" /\ UNCHANGED <<cases, reports, tx>>
    BY <1>2, StatusWrites DEF WithdrawPost, PostStatuses
  <2> QED
    BY <2>1 DEF OtherPosts, Runs
<1>3. ASSUME NEW c \in DOMAIN cases, NEW action \in {"withhold", "dismiss"},
              DecideReviewCase(c, action) \/ ModeratePost(c, action)
      PROVE  CasesInvariant'
  <2>1. PICK basis \in {None} \cup SUBSET Owners :
            DecideCase(c, action, basis) /\ (basis # None => basis = Evidence(c).reports)
    <3>1. CASE DecideReviewCase(c, action)
        BY <3>1 DEF DecideReviewCase, ExpectedSnapshot
    <3>2. CASE ModeratePost(c, action)
        BY <3>2 DEF ModeratePost
    <3> QED
        BY <1>3, <3>1, <3>2
  <2>2. UNCHANGED <<reports, tx>>
    BY <2>1 DEF DecideCase
  <2>3. /\ OtherCases(c) /\ OtherPosts(cases[c].post)
        /\ cases[c].status = "open"
        /\ cases'[c].status = IF action = "withhold" THEN "withheld" ELSE "dismissed"
        /\ cases'[c].basis = basis /\ cases'[c].appealReviewer = cases[c].appealReviewer
        /\ IF action = "withhold"
           THEN /\ posts[cases[c].post].status = "published"
                /\ posts'[cases[c].post].status = "withheld"
           ELSE posts' = posts
    BY <1>0, <2>1, DecideWrites
  <2>4. action = "withhold" =>
            \A d \in DOMAIN cases : cases[d].post = cases[c].post => ~Standing(d)
    BY <2>3
  <2>5. References' /\ RecordedWhenDecided'
    BY <2>2, <2>3 DEF OtherCases, OtherPosts, Runs
  <2>a. OneStanding'
    BY <2>3, <2>4 DEF OtherCases
  <2>b. PublishedIsCleared'
    <3>1. CASE action = "withhold"
        BY <2>3, <3>1 DEF OtherCases, OtherPosts
    <3>2. CASE action = "dismiss"
        BY <2>3, <3>2 DEF OtherCases
    <3> QED
        BY <3>1, <3>2
  <2>c. IndependentAppeal'
    BY <2>1, <2>2, <2>3 DEF OtherCases, OtherPosts
  <2>d. DecisionEvidenceStands'
    BY <2>1, <2>2, <2>3 DEF OtherCases, OtherPosts
  <2> QED
    BY <2>5, <2>a, <2>b, <2>c, <2>d, Zenon
<1>4. ASSUME NEW c \in DOMAIN cases, NEW action \in {"uphold", "overturn"}, ReviewAppeal(c, action)
      PROVE  CasesInvariant'
  <2>1. UNCHANGED <<reports, tx>>
    BY <1>4 DEF ReviewAppeal
  <2>2. /\ OtherCases(c) /\ OtherPosts(cases[c].post)
        /\ cases[c].status = "appealed" /\ posts[cases[c].post].status # "published"
        /\ cases'[c].status = IF action = "overturn" THEN "appeal_overturned" ELSE "appeal_upheld"
        /\ cases'[c].basis = cases[c].basis /\ cases'[c].moderator = cases[c].moderator
        /\ cases'[c].appealReviewer \notin {cases[c].moderator, Subject(c)}
        /\ action = "uphold" => posts' = posts
    BY <1>0, <1>4, ReviewWrites
  <2>a. References' /\ OneStanding'
    BY <2>1, <2>2 DEF OtherCases, OtherPosts, Runs
  <2>b. RecordedWhenDecided' /\ PublishedIsCleared'
    BY <2>1, <2>2 DEF OtherCases, OtherPosts
  <2>c. IndependentAppeal'
    BY <2>1, <2>2 DEF OtherCases, OtherPosts
  <2>d. DecisionEvidenceStands'
    BY <2>1, <2>2 DEF OtherCases, OtherPosts
  <2> QED
    BY <2>a, <2>b, <2>c, <2>d, Zenon
<1>5. ASSUME NEW s \in Slots, FinishAppeal(s) PROVE CasesInvariant'
  <2>1. UNCHANGED <<posts, reports>> /\ tx' = [tx EXCEPT ![s] = None]
    BY <1>5 DEF FinishAppeal, Ended
  <2>2. \A r \in Slots : tx'[r] = tx[r] \/ tx'[r] = None
    BY <2>1 DEF TypeOK
  <2>3. CASE cases' = cases
    BY <2>1, <2>2, <2>3 DEF Runs
  <2>4. ASSUME NEW c \in DOMAIN cases, OtherCases(c), cases[c].status = "withheld", cases'[c].status = "appealed",
               cases'[c].basis = cases[c].basis, cases'[c].moderator = cases[c].moderator,
               cases'[c].appealReviewer = cases[c].appealReviewer
        PROVE  CasesInvariant'
    <3>1. References' /\ OneStanding'
        BY <2>1, <2>2, <2>4 DEF OtherCases, Runs
    <3>2. RecordedWhenDecided' /\ PublishedIsCleared'
        BY <2>1, <2>2, <2>4 DEF OtherCases
    <3>3. IndependentAppeal'
        BY <2>1, <2>2, <2>4 DEF OtherCases
    <3>4. DecisionEvidenceStands'
        BY <2>1, <2>2, <2>4 DEF OtherCases
    <3> QED
        BY <3>1, <3>2, <3>3, <3>4, Zenon
  <2> QED
    BY <1>0, <1>5, <2>3, <2>4, AppealWrites
<1>6. ASSUME NEW c \in DOMAIN cases, DeadlinePasses(c) PROVE CasesInvariant'
  <2>1. UNCHANGED <<posts, reports, tx>>
    BY <1>6 DEF DeadlinePasses
  <2>2. /\ OtherCases(c) /\ cases'[c].status = cases[c].status
        /\ cases'[c].basis = cases[c].basis /\ cases'[c].moderator = cases[c].moderator
        /\ cases'[c].appealReviewer = cases[c].appealReviewer
    BY <1>0, <1>6, DeadlineWrites
  <2>a. References' /\ OneStanding'
    BY <2>1, <2>2 DEF OtherCases, Runs
  <2>b. RecordedWhenDecided' /\ PublishedIsCleared'
    BY <2>1, <2>2 DEF OtherCases
  <2>c. IndependentAppeal'
    BY <2>1, <2>2 DEF OtherCases
  <2>d. DecisionEvidenceStands'
    BY <2>1, <2>2 DEF OtherCases
  <2> QED
    BY <2>a, <2>b, <2>c, <2>d, Zenon
<1>7. ASSUME NEW s \in Slots, FinishReport(s) PROVE CasesInvariant'
  <2>1. posts' = posts /\ tx' = [tx EXCEPT ![s] = None]
    BY <1>7 DEF FinishReport, Ended
  <2>2. \A r \in Slots : tx'[r] = tx[r] \/ tx'[r] = None
    BY <2>1 DEF TypeOK
  <2>3. CASE UNCHANGED <<cases, reports>>
    BY <2>1, <2>2, <2>3 DEF Runs
  <2>4. ASSUME NEW p \in DOMAIN posts, NEW o \in Owners, NEW c \in 1..MaxCases,
               reports[<<p, o>>] = 0, reports' = [reports EXCEPT ![<<p, o>>] = c],
               \/ c \in DOMAIN cases /\ cases[c].status = "open" /\ cases' = cases
               \/ c = Len(cases) + 1 /\ cases' = Append(cases, NewCase(p))
        PROVE  CasesInvariant'
    <3>1. p \in 1..MaxPosts
        BY PostsAssumption DEF TypeOK, PostsAssumption
    <3>2. \A q \in 1..MaxPosts, v \in Owners, d \in DOMAIN cases :
            d # c => (reports'[<<q, v>>] = d <=> reports[<<q, v>>] = d)
      <4>1. \A d \in DOMAIN cases : d # 0
        BY DEF TypeOK
      <4>2. \A q \in 1..MaxPosts, v \in Owners :
                reports'[<<q, v>>] = IF <<q, v>> = <<p, o>> THEN c ELSE reports[<<q, v>>]
        BY <2>4, <3>1 DEF TypeOK
      <4> QED
        BY <2>4, <4>1, <4>2
    <3>3. \A d \in DOMAIN cases : cases[d].post \in 1..MaxPosts
        BY PostsAssumption DEF TypeOK, PostsAssumption
    <3>4. \A d \in DOMAIN cases : d # c =>
            {v \in Owners : reports'[<<cases[d].post, v>>] = d} = {v \in Owners : reports[<<cases[d].post, v>>] = d}
        BY <3>2, <3>3
    <3>5. CASE c \in DOMAIN cases /\ cases[c].status = "open" /\ cases' = cases
        BY <2>1, <2>2, <3>4, <3>5 DEF Runs
    <3>6. CASE c = Len(cases) + 1 /\ cases' = Append(cases, NewCase(p))
      <4>1. NewCase(p) \in ModerationCase
        BY <3>1 DEF NewCase, ModerationCase, CaseStatuses
      <4>2. cases \in Seq(ModerationCase)
        BY DEF TypeOK
      <4>3. /\ DOMAIN cases' = DOMAIN cases \cup {c} /\ c \notin DOMAIN cases
            /\ cases'[c] = NewCase(p) /\ \A d \in DOMAIN cases : cases'[d] = cases[d]
        BY <3>6, <4>1, <4>2, RowAdded
      <4>4. /\ cases'[c].post = p /\ cases'[c].status = "open" /\ cases'[c].basis = None
            /\ cases'[c].appealReviewer = None
        BY <4>3 DEF NewCase
      <4> QED
        BY <2>1, <2>2, <3>4, <4>3, <4>4 DEF Runs
    <3> QED
        BY <2>4, <3>5, <3>6
  <2> QED
    BY <1>0, <1>7, <2>3, <2>4, ReportWrites
<1>8. ASSUME UNCHANGED <<posts, cases, reports>>,
             \A r \in Slots :
                \/ tx'[r] = tx[r] \/ tx'[r] = None \/ tx'[r].op = "follow"
                \/ tx'[r].op = "report" /\ tx'[r].post \in DOMAIN posts
                \/ tx'[r].op = "appeal" /\ tx'[r].case \in DOMAIN cases
      PROVE  CasesInvariant'
    BY <1>8 DEF Runs
<1> HIDE DEF CasesInvariant, References, OneStanding, Standing, RecordedWhenDecided, PublishedIsCleared,
        IndependentAppeal, DecisionEvidenceStands, Subject, Evidence
<1>9. ASSUME NEW s \in Slots, NEW o \in Owners, NEW p \in DOMAIN posts, BeginReport(s, o, p)
      PROVE  CasesInvariant'
    BY <1>8, <1>9 DEF BeginReport, Begun, TypeOK
<1>10. ASSUME NEW s \in Slots, NEW o \in Owners, NEW c \in DOMAIN cases, BeginAppeal(s, o, c)
       PROVE  CasesInvariant'
    BY <1>8, <1>10 DEF BeginAppeal, Begun, TypeOK
<1>11. ASSUME NEW x \in Fans, NEW y \in Social, NEW s \in Slots, BeginFollow(s, x, y) PROVE CasesInvariant'
    BY <1>8, <1>11 DEF BeginFollow, Begun, TypeOK
<1>12. ASSUME NEW s \in Slots, FinishFollow(s) PROVE CasesInvariant'
    BY <1>8, <1>12 DEF FinishFollow, Ended, TypeOK
<1>13. CASE Redeploy
    BY <1>8, <1>13 DEF Redeploy
<1>14. CASE UNCHANGED <<posts, cases, reports, tx>>
    BY <1>8, <1>14
<1>15. ASSUME NEW x \in Social, NEW y \in Social, BlockContent(x, y) \/ UnblockContent(x, y)
       PROVE  CasesInvariant'
    BY <1>14, <1>15 DEF BlockContent, UnblockContent
<1>16. ASSUME NEW x \in Fans, NEW y \in Social, Unfollow(x, y) PROVE CasesInvariant'
    BY <1>14, <1>16 DEF Unfollow
<1>17. ASSUME NEW o \in Owners, Unpublish(o) PROVE CasesInvariant'
    BY <1>14, <1>17 DEF Unpublish
<1>18. ASSUME NEW c \in DOMAIN cases, InspectCase(c) PROVE CasesInvariant'
    BY <1>14, <1>18 DEF InspectCase
<1>19. CASE NewDay
    BY <1>14, <1>19 DEF NewDay
<1>20. CASE UNCHANGED vars
    BY <1>14, <1>20 DEF vars
<1> QED
    BY <1>1, <1>2, <1>3, <1>4, <1>5, <1>6, <1>7, <1>9, <1>10, <1>11, <1>12, <1>13, <1>15, <1>16, <1>17,
       <1>18, <1>19, <1>20
    DEF Next

-----------------------------------------------------------------------------
(* Theorems *)

\* There is nothing to follow, block, report or decide.
LEMMA InitInductive == Init => Inductive
<1> SUFFICES ASSUME Init PROVE Inductive
    OBVIOUS
<1>1. TypeOK
    BY PostsAssumption DEF PostsAssumption, Init, TypeOK
<1>2. DOMAIN cases = {}
    BY DEF Init
<1> QED
    BY <1>1, <1>2
    DEF Init, Inductive, References, FollowIsChecked, OneStanding, RecordedWhenDecided,
        NoFollowPastBlock, PublishedIsCleared, IndependentAppeal, DecisionEvidenceStands, Runs

\* Every step keeps the inductive invariant.
LEMMA NextInductive == Inductive /\ [Next]_vars => Inductive'
<1> SUFFICES ASSUME Inductive, [Next]_vars PROVE Inductive'
    OBVIOUS
<1>1. TypeOK /\ References /\ FollowIsChecked /\ NoFollowPastBlock /\ CasesInvariant
    BY DEF Inductive, CasesInvariant
<1>2. TypeOK' /\ FollowIsChecked' /\ NoFollowPastBlock' /\ CasesInvariant'
    BY <1>1, NextTypeOK, NextFollows, NextCases
<1> QED
    BY <1>2 DEF Inductive, CasesInvariant

\* The inductive invariant holds in every reachable state.
LEMMA InductiveHolds == Spec => []Inductive
    BY InitInductive, NextInductive, PTL DEF Spec

\* For any number of owners and open follows, nobody follows across a content
\* block: follow_profile and block_post_content share the pair's lock row.
THEOREM FollowsStopAtBlocks == Spec => []NoFollowPastBlock
<1>1. Inductive => NoFollowPastBlock
    BY DEF Inductive
<1> QED
    BY <1>1, InductiveHolds, PTL

\* For any number of posts, cases and stale reports, a published post has no
\* withholding that stands (decide_case and review_appeal).
THEOREM PublishedPostsAreCleared == Spec => []PublishedIsCleared
<1>1. Inductive => PublishedIsCleared
    BY DEF Inductive
<1> QED
    BY <1>1, InductiveHolds, PTL

\* Whoever is configured when, an appeal is reviewed by neither the moderator
\* of its case nor its subject (review_appeal).
THEOREM AppealsAreIndependent == Spec => []IndependentAppeal
<1>1. Inductive => IndependentAppeal
    BY DEF Inductive
<1> QED
    BY <1>1, InductiveHolds, PTL

\* The reports a reviewer decided on are the reports of the decided case for
\* ever (_require_expected_snapshot and report_post).
THEOREM EvidenceStands == Spec => []DecisionEvidenceStands
<1>1. Inductive => DecisionEvidenceStands
    BY DEF Inductive
<1> QED
    BY <1>1, InductiveHolds, PTL

-----------------------------------------------------------------------------
(* Connections: the invariant *)

\* Transactions that hold a connection's row.
HoldsConnection(s) == peerTx[s] # NoTx /\ peerTx[s].op \in {"remove", "block", "converse", "send"}

Parties(i) == {requests[i].from, requests[i].to}
IsReserved(i) == requests[i].status \in {"pending", "accepted"}

\* Transactions of create_connection_request.
Creates(s) == peerTx[s] # NoTx /\ peerTx[s].op \in {"request", "unrequested", "unconnected"}

\* Rows refer to rows: connections to requests, transactions to both.
SlotReferences(s) ==
    /\ Creates(s) =>
        /\ peerTx[s].by # peerTx[s].to
        /\ \A i \in peerTx[s].lapsed : i \in DOMAIN requests /\ requests[i].expired
    /\ PeerRuns(s, "accept") => peerTx[s].row \in DOMAIN requests
    /\ HoldsConnection(s) => peerTx[s].conn \in DOMAIN conns /\ peerTx[s].by \in Pair(peerTx[s].conn)

ConnectionReferences ==
    /\ \A i \in DOMAIN requests : requests[i].from # requests[i].to
    /\ \A c \in DOMAIN conns : conns[c].req \in DOMAIN requests
    /\ \A s \in PeerSlots : SlotReferences(s)

\* A row lock has one holder, and the row keeps the status it was locked with.
SlotLocks(s) ==
    /\ PeerRuns(s, "accept") =>
        /\ requests[peerTx[s].row].status = "pending"
        /\ \A t \in PeerSlots : PeerRuns(t, "accept") /\ peerTx[t].row = peerTx[s].row => t = s
    /\ HoldsConnection(s) =>
        /\ conns[peerTx[s].conn].status = "active"
        /\ \A t \in PeerSlots : HoldsConnection(t) /\ peerTx[t].conn = peerTx[s].conn => t = s

LockedRows == \A s \in PeerSlots : SlotLocks(s)

\* A pair has one pending or accepted request: the partial unique index.
OneReserved ==
    \A i, j \in DOMAIN requests : IsReserved(i) /\ IsReserved(j) /\ Parties(i) = Parties(j) => i = j

\* A request has one connection, when it was accepted; a pair has one that is active.
OneConnection ==
    \A c \in DOMAIN conns :
        /\ requests[conns[c].req].status # "pending"
        /\ \A d \in DOMAIN conns :
            /\ conns[c].req = conns[d].req => c = d
            /\ conns[c].status = "active" /\ conns[d].status = "active" /\ Pair(c) = Pair(d) => c = d

\* A message that passed its checks is between owners who have not blocked
\* each other, for as long as its connection is not overtaken.
SendIsUnblocked ==
    \A s \in PeerSlots :
        PeerRuns(s, "send") /\ ~Overtaken(peerTx[s].conn) =>
            \A x, y \in Pair(peerTx[s].conn) : x # y => ~Blocked(x, y)

ConnectionsInductive ==
    /\ ConnectionsTypeOK
    /\ ConnectionReferences
    /\ LockedRows
    /\ OneReserved
    /\ OneConnection
    /\ SendIsUnblocked
    /\ ConversationNeedsConnection

-----------------------------------------------------------------------------
(* Connections: what a step does to the rows, the locks and the blocks *)

\* A request keeps its parties and never becomes unexpired, pending or accepted again.
RequestKept(i) ==
    /\ i \in DOMAIN requests'
    /\ requests[i].expired => requests'[i].expired
    /\ requests'[i].from = requests[i].from /\ requests'[i].to = requests[i].to
    /\ requests'[i].status = "pending" => requests[i].status = "pending"
    /\ requests'[i].status \in {"pending", "accepted"} => IsReserved(i)

\* A new request is the only one of its pair that is not decided.
RequestAdded(n) ==
    /\ requests'[n].from # requests'[n].to
    /\ \A j \in DOMAIN requests' \ {n} :
        {requests'[j].from, requests'[j].to} = {requests'[n].from, requests'[n].to} =>
            requests'[j].status \notin {"pending", "accepted"}

RequestsLook ==
    /\ requests' \in Seq(ConnectionRequest)
    /\ \A i \in DOMAIN requests : RequestKept(i)
    /\ \A n \in DOMAIN requests' \ DOMAIN requests : RequestAdded(n)

\* A connection keeps its request and never becomes active or unexpired again.
ConnectionKept(c) ==
    /\ c \in DOMAIN conns'
    /\ conns'[c].req = conns[c].req
    /\ conns'[c].status = "active" => conns[c].status = "active"
    /\ conns[c].expired => conns'[c].expired
    /\ conns'[c].conv = "active" => conns'[c].status = "active"

\* A new connection is that of a request accepted now, and the pair has no other.
ConnectionAdded(n) ==
    LET i == conns'[n].req IN
    /\ i \in DOMAIN requests
    /\ requests[i].status = "pending" /\ requests'[i].status = "accepted"
    /\ conns'[n].conv = "none"
    /\ \A d \in DOMAIN conns' \ {n} :
        d \in DOMAIN conns /\ (conns'[d].status = "active" => Pair(d) # Parties(i))

ConnsLook ==
    /\ conns' \in Seq(Connection)
    /\ \A c \in DOMAIN conns : ConnectionKept(c)
    /\ \A n \in DOMAIN conns' \ DOMAIN conns : ConnectionAdded(n)

\* A connection that stays active keeps its request's status, or is overtaken.
StandsLook ==
    \A c \in DOMAIN conns : conns'[c].status = "active" =>
        LET i == conns[c].req IN
        \/ requests'[i].status = requests[i].status
        \/ requests'[i].status = "rejected" /\ requests'[i].expired

\* What a transaction has locked keeps its status.
LocksLook ==
    \A s \in PeerSlots : peerTx'[s] = peerTx[s] =>
        /\ PeerRuns(s, "accept") =>
            requests'[peerTx[s].row].status = requests[peerTx[s].row].status
        /\ HoldsConnection(s) => conns'[peerTx[s].conn].status = conns[peerTx[s].conn].status

\* What a transaction has checked and locked when it begins.
Admitted(t) ==
    \/ /\ t.op \in {"request", "unrequested", "unconnected"} /\ t.by # t.to
       /\ \A i \in t.lapsed : i \in DOMAIN requests /\ requests[i].expired
    \/ /\ t.op = "accept" /\ t.row \in DOMAIN requests
       /\ requests[t.row].status = "pending" /\ ~RequestLocked(t.row)
    \/ /\ t.op \in {"remove", "block", "converse", "send"}
       /\ t.conn \in DOMAIN conns /\ conns[t.conn].status = "active" /\ ~ConnectionLocked(t.conn)
       /\ t.by \in Pair(t.conn) /\ \A p \in Pair(t.conn) : p # t.by => ~Blocked(t.by, p)

\* A slot keeps its transaction, ends it, or begins or continues one.
TxLook ==
    /\ peerTx' \in [PeerSlots -> ConnectionTransaction \cup {NoTx}]
    /\ \A s \in PeerSlots :
        \/ peerTx'[s] = peerTx[s]
        \/ peerTx'[s] = NoTx
        \/ /\ UNCHANGED <<requests, conns, peerBlocks>>
           /\ Admitted(peerTx'[s])
           /\ \A t \in PeerSlots \ {s} : peerTx'[t] = peerTx[t]

\* A new block is not between the owners of a message that can still be sent.
BlocksLook ==
    \/ peerBlocks' = peerBlocks
    \/ \E u, v \in Peers :
        /\ peerBlocks' = peerBlocks \cup {<<u, v>>}
        /\ \A s \in PeerSlots :
            PeerRuns(s, "send") /\ peerTx'[s] = peerTx[s] /\ ~Overtaken(peerTx[s].conn)' =>
                Pair(peerTx[s].conn) # {u, v}

ConnectionsLook ==
    RequestsLook /\ ConnsLook /\ StandsLook /\ LocksLook /\ TxLook /\ BlocksLook

-----------------------------------------------------------------------------
(* Connections: the looks keep the invariant *)

LEMMA ReferencesKept ==
    ASSUME ConnectionsInductive, ConnectionsLook
    PROVE  ConnectionReferences'
<1> USE DEF ConnectionsInductive, ConnectionsLook
<1>1. \A i \in DOMAIN requests' : requests'[i].from # requests'[i].to
    BY DEF RequestsLook, RequestKept, RequestAdded, ConnectionReferences
<1>2. \A c \in DOMAIN conns' : conns'[c].req \in DOMAIN requests'
    BY DEF RequestsLook, RequestKept, ConnsLook, ConnectionKept, ConnectionAdded, ConnectionReferences
<1>3. ASSUME NEW c \in DOMAIN conns PROVE Pair(c)' = Pair(c)
    BY DEF RequestsLook, RequestKept, ConnsLook, ConnectionKept, ConnectionReferences, Pair
<1>4. ASSUME NEW s \in PeerSlots PROVE SlotReferences(s)'
  <2>1. ASSUME peerTx'[s] = peerTx[s] PROVE SlotReferences(s)'
    <3>1. SlotReferences(s) /\ (PeerRuns(s, "accept") => peerTx[s].row \in DOMAIN requests')
            /\ (HoldsConnection(s) => peerTx[s].conn \in DOMAIN conns')
      BY DEF RequestsLook, RequestKept, ConnsLook, ConnectionKept, ConnectionReferences, SlotReferences
    <3>5. Creates(s) => \A i \in peerTx[s].lapsed : i \in DOMAIN requests' /\ requests'[i].expired
      BY <3>1 DEF RequestsLook, RequestKept, SlotReferences
    <3>6. Creates(s)' = Creates(s)
      BY <2>1 DEF Creates
    <3>2. HoldsConnection(s) => peerTx[s].by \in Pair(peerTx[s].conn)'
      BY <1>3, <2>1, <3>1 DEF SlotReferences
    <3>3. \A op : PeerRuns(s, op)' = PeerRuns(s, op)
      BY <2>1 DEF PeerRuns
    <3>4. HoldsConnection(s)' = HoldsConnection(s)
      BY <2>1 DEF HoldsConnection
    <3> QED
      BY <2>1, <3>1, <3>2, <3>3, <3>4, <3>5, <3>6 DEF SlotReferences, Pair
  <2>2. ASSUME peerTx'[s] = NoTx PROVE SlotReferences(s)'
    BY <2>2 DEF SlotReferences, PeerRuns, HoldsConnection, Creates
  <2>3. ASSUME UNCHANGED <<requests, conns, peerBlocks>>, Admitted(peerTx'[s]) PROVE SlotReferences(s)'
    BY <2>3 DEF SlotReferences, Admitted, PeerRuns, HoldsConnection, Creates, Pair
  <2> QED
    BY <2>1, <2>2, <2>3 DEF TxLook
<1> QED
    BY <1>1, <1>2, <1>4 DEF ConnectionReferences

LEMMA LocksKept ==
    ASSUME ConnectionsInductive, ConnectionsLook
    PROVE  LockedRows'
<1> USE DEF ConnectionsInductive, ConnectionsLook
<1>1. ASSUME NEW s \in PeerSlots, peerTx'[s] = peerTx[s]
      PROVE  /\ PeerRuns(s, "accept") => requests'[peerTx'[s].row].status = "pending"
             /\ HoldsConnection(s) => conns'[peerTx'[s].conn].status = "active"
    BY <1>1 DEF LocksLook, LockedRows, SlotLocks
<1>2. CASE \A s \in PeerSlots : peerTx'[s] = peerTx[s] \/ peerTx'[s] = NoTx
    BY <1>1, <1>2 DEF LockedRows, SlotLocks, PeerRuns, HoldsConnection
<1>3. ASSUME NEW s \in PeerSlots, UNCHANGED <<requests, conns, peerBlocks>>, Admitted(peerTx'[s]),
             \A t \in PeerSlots \ {s} : peerTx'[t] = peerTx[t]
      PROVE  LockedRows'
  <2>1. SlotLocks(s)'
    BY <1>3 DEF Admitted, SlotLocks, PeerRuns, HoldsConnection, RequestLocked, ConnectionLocked
  <2>2. ASSUME NEW t \in PeerSlots, t # s PROVE SlotLocks(t)'
    BY <1>3, <2>1, <2>2 DEF LockedRows, SlotLocks, PeerRuns, HoldsConnection
  <2> QED
    BY <2>1, <2>2 DEF LockedRows
<1> QED
    BY <1>2, <1>3 DEF TxLook

LEMMA ReservedKept ==
    ASSUME ConnectionsInductive, ConnectionsLook
    PROVE  OneReserved'
BY DEF ConnectionsInductive, ConnectionsLook, OneReserved, RequestsLook, RequestKept, RequestAdded,
    IsReserved, Parties

LEMMA ConnectionsKept ==
    ASSUME ConnectionsInductive, ConnectionsLook
    PROVE  OneConnection'
<1> USE DEF ConnectionsInductive, ConnectionsLook
<1>1. ASSUME NEW c \in DOMAIN conns
      PROVE  /\ conns'[c].req = conns[c].req /\ conns[c].req \in DOMAIN requests
             /\ requests'[conns'[c].req].status # "pending"
             /\ Pair(c)' = Pair(c) /\ (conns'[c].status = "active" => conns[c].status = "active")
    BY DEF RequestsLook, RequestKept, ConnsLook, ConnectionKept, ConnectionReferences, Pair, OneConnection
<1>2. ASSUME NEW n \in DOMAIN conns' \ DOMAIN conns
      PROVE  /\ requests'[conns'[n].req].status = "accepted"
             /\ \A d \in DOMAIN conns' \ {n} :
                /\ d \in DOMAIN conns
                /\ conns'[d].req # conns'[n].req
                /\ conns'[d].status = "active" => Pair(d)' # Pair(n)'
  <2>1. ConnectionAdded(n)
    BY DEF ConnsLook
  <2>2. Pair(n)' = Parties(conns'[n].req)
    BY <2>1 DEF ConnectionAdded, RequestsLook, RequestKept, Pair, Parties
  <2> QED
    BY <1>1, <2>1, <2>2 DEF ConnectionAdded, OneConnection
<1>3. ASSUME NEW c \in DOMAIN conns', NEW d \in DOMAIN conns',
             \/ conns'[c].req = conns'[d].req
             \/ conns'[c].status = "active" /\ conns'[d].status = "active" /\ Pair(c)' = Pair(d)'
      PROVE  c = d
  <2>1. CASE c \in DOMAIN conns /\ d \in DOMAIN conns
    BY <1>1, <1>3, <2>1 DEF OneConnection
  <2>2. CASE c \notin DOMAIN conns \/ d \notin DOMAIN conns
    BY <1>2, <1>3, <2>2
  <2> QED
    BY <2>1, <2>2
<1>4. \A c \in DOMAIN conns' : requests'[conns'[c].req].status # "pending"
    BY <1>1, <1>2
<1> QED
    BY <1>3, <1>4 DEF OneConnection

\* A connection that stays active stays overtaken, and is not while its request is accepted.
LEMMA OvertakenKept ==
    ASSUME ConnectionsInductive, ConnectionsLook, NEW c \in DOMAIN conns, conns'[c].status = "active"
    PROVE  /\ Overtaken(c) => Overtaken(c)'
           /\ requests'[conns'[c].req].status = "accepted" \/ Overtaken(c)'
<1> USE DEF ConnectionsInductive, ConnectionsLook
<1> DEFINE i == conns[c].req
<1>1. i \in DOMAIN requests /\ conns'[c].req = i /\ conns[c].status = "active"
    BY DEF ConnectionReferences, ConnsLook, ConnectionKept
<1>2. requests[i].status = "accepted" \/ Overtaken(c)
    BY <1>1 DEF ConversationNeedsConnection
<1>3. \/ requests'[i].status = requests[i].status
      \/ requests'[i].status = "rejected" /\ requests'[i].expired
    BY DEF StandsLook
<1>4. requests[i].expired => requests'[i].expired
    BY <1>1 DEF RequestsLook, RequestKept
<1> QED
    BY <1>1, <1>2, <1>3, <1>4 DEF Overtaken

LEMMA NeedsKept ==
    ASSUME ConnectionsInductive, ConnectionsLook
    PROVE  ConversationNeedsConnection'
<1> USE DEF ConnectionsInductive, ConnectionsLook
<1>1. ASSUME NEW c \in DOMAIN conns', conns'[c].conv = "active" PROVE conns'[c].status = "active"
    BY <1>1 DEF ConnsLook, ConnectionKept, ConnectionAdded
<1>2. ASSUME NEW c \in DOMAIN conns', conns'[c].status = "active"
      PROVE  requests'[conns'[c].req].status = "accepted" \/ Overtaken(c)'
  <2>1. CASE c \in DOMAIN conns
    BY <1>2, <2>1, OvertakenKept
  <2>2. CASE c \notin DOMAIN conns
    BY <2>2 DEF ConnsLook, ConnectionAdded
  <2> QED
    BY <2>1, <2>2
<1>3. OneConnection'
    BY ConnectionsKept
<1>4. ASSUME NEW c \in DOMAIN conns', NEW d \in DOMAIN conns', conns'[c].status = "active",
             conns'[d].status = "active", Pair(d)' = Pair(c)'
      PROVE  d = c
    BY <1>3, <1>4 DEF OneConnection
<1> QED
    BY <1>1, <1>2, <1>4 DEF ConversationNeedsConnection

LEMMA SendKept ==
    ASSUME ConnectionsInductive, ConnectionsLook
    PROVE  SendIsUnblocked'
<1> USE DEF ConnectionsInductive, ConnectionsLook
<1> SUFFICES ASSUME NEW s \in PeerSlots, PeerRuns(s, "send")', ~Overtaken(peerTx[s].conn)',
                    NEW x \in Pair(peerTx[s].conn)', NEW y \in Pair(peerTx[s].conn)', x # y
             PROVE  ~Blocked(x, y)'
    BY DEF SendIsUnblocked
<1> DEFINE c == peerTx'[s].conn
<1>1. ASSUME peerTx'[s] = peerTx[s] PROVE ~Blocked(x, y)'
  <2>1. PeerRuns(s, "send") /\ c = peerTx[s].conn /\ c \in DOMAIN conns
    BY <1>1 DEF PeerRuns, HoldsConnection, ConnectionReferences, SlotReferences
  <2>8. conns'[c].status = "active"
    BY <1>1, <2>1 DEF LocksLook, LockedRows, SlotLocks, HoldsConnection, PeerRuns
  <2>9. ~Overtaken(c)
    BY <1>1, <2>1, <2>8, OvertakenKept
  <2>2. conns'[c].req = conns[c].req /\ conns[c].req \in DOMAIN requests
    BY <2>1 DEF ConnsLook, ConnectionKept, ConnectionReferences
  <2>3. x \in Pair(c) /\ y \in Pair(c)
    BY <2>1, <2>2 DEF RequestsLook, RequestKept, Pair
  <2>4. ~Blocked(x, y)
    BY <2>1, <2>3, <2>9 DEF SendIsUnblocked
  <2>5. Pair(c) = {x, y}
    BY <2>3 DEF Pair
  <2>6. ASSUME NEW u, NEW v, peerBlocks' = peerBlocks \cup {<<u, v>>}, Pair(c) # {u, v}
        PROVE  ~Blocked(x, y)'
    <3>1. <<u, v>> # <<x, y>> /\ <<u, v>> # <<y, x>>
        BY <2>5, <2>6
    <3> QED
        BY <2>4, <2>6, <3>1 DEF Blocked
  <2>7. ASSUME peerBlocks' = peerBlocks PROVE ~Blocked(x, y)'
    BY <2>4, <2>7 DEF Blocked
  <2> QED
    BY <1>1, <2>1, <2>6, <2>7 DEF BlocksLook
<1>2. ASSUME UNCHANGED <<requests, conns, peerBlocks>>, Admitted(peerTx'[s]) PROVE ~Blocked(x, y)'
    BY <1>2 DEF Admitted, PeerRuns, Pair, Blocked
<1>3. peerTx'[s] # NoTx
    BY DEF PeerRuns
<1> QED
    BY <1>1, <1>2, <1>3 DEF TxLook

-----------------------------------------------------------------------------
(* Connections: what each handler writes *)

\* Every row written anew.
LEMMA RowsMapped ==
    ASSUME NEW S, NEW q \in Seq(S), NEW u, DOMAIN u = DOMAIN q, u = [i \in DOMAIN q |-> u[i]],
           \A i \in DOMAIN q : u[i] \in S
    PROVE  u \in Seq(S) /\ Len(u) = Len(q)
<1>1. DOMAIN q = 1..Len(q) /\ Len(q) \in Nat
    OBVIOUS
<1>2. u \in [1..Len(q) -> S]
    BY <1>1
<1> QED
    BY <1>1, <1>2, LenProperties, IsASeq

\* Where the next connection and the next request are added.
NewConnection == Len(conns) + 1
NewRequest == Len(requests) + 1

\* Which fields a handler writes.
LEMMA RowTypes ==
    /\ \A r \in ConnectionRequest, st \in RequestStatuses :
        LET u == [r EXCEPT !.status = st] IN
        /\ u \in ConnectionRequest /\ u.status = st
        /\ u.from = r.from /\ u.to = r.to /\ u.expired = r.expired
    /\ \A r \in ConnectionRequest :
        LET u == [r EXCEPT !.expired = TRUE] IN
        /\ u \in ConnectionRequest /\ u.status = r.status /\ u.from = r.from /\ u.to = r.to /\ u.expired
<1>1. ASSUME NEW r \in ConnectionRequest, NEW st \in RequestStatuses
      PROVE  LET u == [r EXCEPT !.status = st] IN
             /\ u \in ConnectionRequest /\ u.status = st
             /\ u.from = r.from /\ u.to = r.to /\ u.expired = r.expired
  <2>1. [r EXCEPT !.status = st] \in ConnectionRequest
    BY Zenon DEF ConnectionRequest
  <2> QED
    BY <2>1 DEF ConnectionRequest
<1>2. ASSUME NEW r \in ConnectionRequest
      PROVE  LET u == [r EXCEPT !.expired = TRUE] IN
             /\ u \in ConnectionRequest /\ u.status = r.status /\ u.from = r.from /\ u.to = r.to /\ u.expired
  <2>1. [r EXCEPT !.expired = TRUE] \in ConnectionRequest
    BY Zenon DEF ConnectionRequest
  <2> QED
    BY <2>1 DEF ConnectionRequest
<1> QED
    BY <1>1, <1>2

LEMMA EndedTx ==
    ASSUME ConnectionsTypeOK, NEW s \in PeerSlots, PeerEnded(s)
    PROVE  TxLook /\ peerTx'[s] = NoTx /\ \A t \in PeerSlots \ {s} : peerTx'[t] = peerTx[t]
BY DEF ConnectionsTypeOK, PeerEnded, TxLook

LEMMA BegunTx ==
    ASSUME ConnectionsTypeOK, NEW s \in PeerSlots, NEW t \in ConnectionTransaction, PeerBegun(s, t),
           Admitted(t), UNCHANGED <<requests, conns, peerBlocks>>
    PROVE  TxLook
BY DEF ConnectionsTypeOK, PeerBegun, TxLook

\* A step that leaves requests, connections and blocks alone.
LEMMA NoRowLook ==
    ASSUME ConnectionsInductive, TxLook, UNCHANGED <<requests, conns, peerBlocks>>
    PROVE  ConnectionsLook
BY DEF ConnectionsInductive, ConnectionsTypeOK, ConversationNeedsConnection, ConnectionsLook, IsReserved,
    RequestsLook, RequestKept, ConnsLook, ConnectionKept, StandsLook, LocksLook, BlocksLook

\* A request's status is written.
LEMMA RequestWrites ==
    ASSUME ConnectionsTypeOK, NEW i \in DOMAIN requests, NEW st \in RequestStatuses,
           requests' = [requests EXCEPT ![i].status = st]
    PROVE  /\ requests' \in Seq(ConnectionRequest) /\ DOMAIN requests' = DOMAIN requests
           /\ requests'[i].status = st
           /\ requests'[i].from = requests[i].from /\ requests'[i].to = requests[i].to
           /\ requests'[i].expired = requests[i].expired
           /\ \A j \in DOMAIN requests \ {i} : requests'[j] = requests[j]
<1> DEFINE e == [requests[i] EXCEPT !.status = st]
<1>1. requests \in Seq(ConnectionRequest) /\ requests[i] \in ConnectionRequest
    BY DEF ConnectionsTypeOK
<1>2. /\ e \in ConnectionRequest /\ e.status = st /\ e.expired = requests[i].expired
      /\ e.from = requests[i].from /\ e.to = requests[i].to
    BY <1>1, RowTypes
<1>3. requests' = [requests EXCEPT ![i] = e]
    OBVIOUS
<1> HIDE DEF e
<1> QED
    BY <1>1, <1>2, <1>3, RowUpdate

\* reject and block of a pending request.
LEMMA DecisionLook ==
    ASSUME ConnectionsInductive, NEW i \in DOMAIN requests, Reject(i) \/ Block(i)
    PROVE  ConnectionsLook
<1> USE DEF ConnectionsInductive
<1>1. PICK st \in {"rejected", "blocked"} : requests' = [requests EXCEPT ![i].status = st]
    BY DEF Reject, Block
<1>2. /\ requests' \in Seq(ConnectionRequest) /\ DOMAIN requests' = DOMAIN requests
      /\ requests'[i].status = st
      /\ requests'[i].from = requests[i].from /\ requests'[i].to = requests[i].to
      /\ requests'[i].expired = requests[i].expired
      /\ \A j \in DOMAIN requests \ {i} : requests'[j] = requests[j]
    BY <1>1, RequestWrites DEF RequestStatuses
<1>3. ~RequestLocked(i) /\ requests[i].status = "pending"
    BY DEF Reject, Block, Decidable, RequestInbox
<1>4. UNCHANGED <<conns, peerTx>>
    BY DEF Reject, Block
<1>5. RequestsLook
    BY <1>2 DEF RequestsLook, RequestKept, IsReserved
<1>6. ConnsLook
    BY <1>4 DEF ConnsLook, ConnectionKept, ConnectionsTypeOK, ConversationNeedsConnection
<1>7. StandsLook
    BY <1>2, <1>3 DEF StandsLook, OneConnection, ConnectionReferences
<1>8. LocksLook
    BY <1>2, <1>3, <1>4 DEF LocksLook, RequestLocked, ConnectionReferences, SlotReferences
<1>9. TxLook
    BY <1>4 DEF TxLook, ConnectionsTypeOK
<1>10. BlocksLook
  <2>1. CASE Reject(i)
    BY <2>1 DEF Reject, BlocksLook
  <2>2. CASE Block(i)
    <3>1. peerBlocks' = peerBlocks \cup {<<requests[i].to, requests[i].from>>}
        BY <2>2 DEF Block
    <3>2. requests[i].to \in Peers /\ requests[i].from \in Peers
      <4>1. requests[i] \in ConnectionRequest
        BY DEF ConnectionsTypeOK
      <4> QED
        BY <4>1 DEF ConnectionRequest
    <3>3. ASSUME NEW s \in PeerSlots, PeerRuns(s, "send"), ~Overtaken(peerTx[s].conn)',
                 Pair(peerTx[s].conn) = {requests[i].to, requests[i].from}
          PROVE  FALSE
      <4> DEFINE c == peerTx[s].conn
      <4>1. c \in DOMAIN conns /\ conns[c].status = "active"
        BY <1>4, <3>3 DEF ConnectionReferences, SlotReferences, LockedRows, SlotLocks, PeerRuns, HoldsConnection
      <4>4. conns[c].req \in DOMAIN requests /\ conns[c].req # i
        BY <1>3, <4>1 DEF OneConnection, ConnectionReferences
      <4>5. ~Overtaken(c)
        BY <1>2, <1>4, <3>3, <4>4 DEF Overtaken
      <4>2. conns[c].req \in DOMAIN requests /\ requests[conns[c].req].status = "accepted"
        BY <4>1, <4>4, <4>5 DEF ConversationNeedsConnection
      <4>3. Parties(conns[c].req) = Parties(i)
        BY <3>3 DEF Pair, Parties
      <4> QED
        BY <1>3, <4>2, <4>3 DEF OneReserved, IsReserved
    <3> QED
        BY <3>1, <3>2, <3>3 DEF BlocksLook
  <2> QED
    BY <2>1, <2>2
<1> QED
    BY <1>5, <1>6, <1>7, <1>8, <1>9, <1>10 DEF ConnectionsLook

\* retention_expires_at of a request passes.
LEMMA ExpireRequestLook ==
    ASSUME ConnectionsInductive, NEW i \in DOMAIN requests, ExpireRequest(i)
    PROVE  ConnectionsLook
<1> USE DEF ConnectionsInductive
<1> DEFINE e == [requests[i] EXCEPT !.expired = TRUE]
<1>1. requests \in Seq(ConnectionRequest) /\ requests[i] \in ConnectionRequest
    BY DEF ConnectionsTypeOK
<1>2. /\ e \in ConnectionRequest /\ e.status = requests[i].status
      /\ e.from = requests[i].from /\ e.to = requests[i].to /\ e.expired
    BY <1>1, RowTypes
<1>3. requests' = [requests EXCEPT ![i] = e] /\ UNCHANGED <<conns, peerTx, peerBlocks>>
    BY DEF ExpireRequest
<1> HIDE DEF e
<1>4. /\ requests' \in Seq(ConnectionRequest) /\ DOMAIN requests' = DOMAIN requests
      /\ requests'[i] = e /\ \A j \in DOMAIN requests \ {i} : requests'[j] = requests[j]
    BY <1>1, <1>2, <1>3, RowUpdate
<1>5. \A j \in DOMAIN requests : /\ requests'[j].status = requests[j].status
                                 /\ requests[j].expired => requests'[j].expired
                                 /\ requests'[j].from = requests[j].from /\ requests'[j].to = requests[j].to
    BY <1>2, <1>4
<1>6. RequestsLook
    BY <1>4, <1>5 DEF RequestsLook, RequestKept, IsReserved
<1>7. ConnsLook /\ BlocksLook
    BY <1>3 DEF ConnsLook, ConnectionKept, BlocksLook, ConnectionsTypeOK, ConversationNeedsConnection
<1>8. StandsLook
    BY <1>5 DEF StandsLook, ConnectionReferences
<1>9. LocksLook
    BY <1>3, <1>5 DEF LocksLook, ConnectionReferences, SlotReferences
<1>10. TxLook
    BY <1>3 DEF TxLook, ConnectionsTypeOK
<1> QED
    BY <1>6, <1>7, <1>8, <1>9, <1>10 DEF ConnectionsLook

\* A connection's row is written, except for its request and its status.
LEMMA ConnectionWrites ==
    ASSUME ConnectionsInductive, NEW c \in DOMAIN conns, NEW e \in Connection,
           conns' = [conns EXCEPT ![c] = e], e.req = conns[c].req, e.status = conns[c].status,
           conns[c].expired => e.expired, e.conv = "active" => e.status = "active",
           TxLook, UNCHANGED <<requests, peerBlocks>>
    PROVE  ConnectionsLook
<1> USE DEF ConnectionsInductive
<1>1. conns \in Seq(Connection)
    BY DEF ConnectionsTypeOK
<1>2. /\ conns' \in Seq(Connection) /\ DOMAIN conns' = DOMAIN conns
      /\ conns'[c] = e /\ \A d \in DOMAIN conns \ {c} : conns'[d] = conns[d]
    BY <1>1, RowUpdate
<1>3. RequestsLook /\ StandsLook /\ BlocksLook
    BY DEF RequestsLook, RequestKept, IsReserved, StandsLook, BlocksLook, ConnectionsTypeOK
<1>4. ConnsLook
    BY <1>2 DEF ConnsLook, ConnectionKept, ConversationNeedsConnection
<1>5. LocksLook
    BY <1>2 DEF LocksLook, ConnectionReferences, SlotReferences
<1> QED
    BY <1>3, <1>4, <1>5 DEF ConnectionsLook

LEMMA ExpireConnectionLook ==
    ASSUME ConnectionsInductive, NEW c \in DOMAIN conns, ExpireConnection(c)
    PROVE  ConnectionsLook
<1> DEFINE e == [conns[c] EXCEPT !.expired = TRUE]
<1>1. conns[c] \in Connection
    BY DEF ConnectionsInductive, ConnectionsTypeOK
<1>2. e \in Connection
    BY <1>1, Zenon DEF Connection
<1>3. e.req = conns[c].req /\ e.status = conns[c].status /\ e.conv = conns[c].conv /\ e.expired
    BY <1>1 DEF Connection
<1>4. conns' = [conns EXCEPT ![c] = e] /\ UNCHANGED <<requests, peerTx, peerBlocks>>
    BY DEF ExpireConnection
<1>5. TxLook
    BY <1>4 DEF TxLook, ConnectionsInductive, ConnectionsTypeOK
<1> HIDE DEF e
<1>6. e.conv = "active" => e.status = "active"
    BY <1>3 DEF ConnectionsInductive, ConversationNeedsConnection
<1> QED
    BY <1>2, <1>3, <1>4, <1>5, <1>6, ConnectionWrites

LEMMA ConversationLook ==
    ASSUME ConnectionsInductive, NEW s \in PeerSlots, FinishConversation(s)
    PROVE  ConnectionsLook
<1> DEFINE c == peerTx[s].conn
           e == [conns[c] EXCEPT !.conv = "active"]
<1>1. TxLook /\ UNCHANGED <<requests, peerBlocks>>
    BY EndedTx DEF FinishConversation, ConnectionsInductive
<1>2. CASE conns' = conns
    BY <1>1, <1>2, NoRowLook
<1>3. CASE conns' # conns
  <2>1. c \in DOMAIN conns
    BY DEF FinishConversation, ConnectionsInductive, ConnectionReferences, SlotReferences, PeerRuns, HoldsConnection
  <2>2. conns[c] \in Connection
    BY <2>1 DEF ConnectionsInductive, ConnectionsTypeOK
  <2>3. e \in Connection
    BY <2>2, Zenon DEF Connection
  <2>4. e.req = conns[c].req /\ e.status = conns[c].status /\ e.expired = conns[c].expired
    BY <2>2 DEF Connection
  <2>5. conns' = [conns EXCEPT ![c] = e] /\ conns[c].status = "active"
    BY <1>3 DEF FinishConversation, Admits
  <2> HIDE DEF e, c
  <2> QED
    BY <1>1, <2>1, <2>3, <2>4, <2>5, ConnectionWrites
<1> QED
    BY <1>2, <1>3

\* create_connection_request frees the pair of its expired request and adds one.
LEMMA InsertLook ==
    ASSUME ConnectionsInductive, NEW s \in PeerSlots, NEW ask \in BOOLEAN, InsertRequest(s, ask)
    PROVE  ConnectionsLook
<1> USE DEF ConnectionsInductive
<1> DEFINE x == peerTx[s].by
           y == peerTx[s].to
           row == [from |-> x, to |-> y, ask |-> ask, status |-> "pending", expired |-> FALSE]
           released == [i \in DOMAIN requests |->
                IF i \in ExpiredRequest(s) THEN [requests[i] EXCEPT !.status = "rejected"] ELSE requests[i]]
<1>1. /\ TxLook /\ peerTx'[s] = NoTx /\ UNCHANGED <<conns, peerBlocks>> /\ PeerRuns(s, "unconnected")
      /\ \A i \in ExpiredRequest(s) : ~RequestLocked(i)
    BY EndedTx DEF InsertRequest
<1>2. CASE requests' = requests
    BY <1>1, <1>2, NoRowLook
<1>3. CASE requests' # requests
  <2>1. Reserved(x, y) = ExpiredRequest(s) /\ requests' = Append(released, row)
    BY <1>3 DEF InsertRequest
  <2>2. x \in Peers /\ y \in Peers /\ x # y /\ row \in ConnectionRequest
    <3>1. peerTx[s] \in ConnectionTransaction /\ peerTx[s].op = "unconnected"
        BY <1>1 DEF ConnectionsTypeOK, PeerRuns
    <3>2. x \in Peers /\ y \in Peers
        BY <3>1 DEF ConnectionTransaction
    <3>3. x # y
        BY <1>1 DEF ConnectionReferences, SlotReferences, Creates, PeerRuns
    <3> QED
        BY <3>2, <3>3 DEF ConnectionRequest, RequestStatuses
  <2>3. requests \in Seq(ConnectionRequest) /\ \A i \in DOMAIN requests : requests[i] \in ConnectionRequest
    BY DEF ConnectionsTypeOK
  <2>4. \A i \in DOMAIN requests :
            /\ released[i] \in ConnectionRequest
            /\ released[i].from = requests[i].from /\ released[i].to = requests[i].to
            /\ released[i].expired = requests[i].expired
            /\ IF i \in ExpiredRequest(s) THEN released[i].status = "rejected" ELSE released[i] = requests[i]
    BY <2>3, RowTypes DEF RequestStatuses
  <2>5. DOMAIN released = DOMAIN requests /\ released = [i \in DOMAIN requests |-> released[i]]
    OBVIOUS
  <2>6. row.from = x /\ row.to = y
    OBVIOUS
  <2> HIDE DEF released, row
  <2>7. released \in Seq(ConnectionRequest) /\ Len(released) = Len(requests)
    BY <2>3, <2>4, <2>5, RowsMapped
  <2>8. /\ requests' \in Seq(ConnectionRequest)
        /\ DOMAIN requests' = DOMAIN requests \cup {NewRequest} /\ NewRequest \notin DOMAIN requests
        /\ requests'[NewRequest] = row /\ \A i \in DOMAIN requests : requests'[i] = released[i]
    BY <2>1, <2>2, <2>5, <2>7, RowAdded DEF NewRequest
  <2>9. \A i \in DOMAIN requests : RequestKept(i)
    BY <2>4, <2>8 DEF RequestKept, IsReserved
  <2>10. RequestAdded(NewRequest)
    <3>1. ASSUME NEW j \in DOMAIN requests, {requests'[j].from, requests'[j].to} = {x, y}
          PROVE  requests'[j].status \notin {"pending", "accepted"}
      <4>1. requests'[j] = released[j] /\ {requests[j].from, requests[j].to} = {x, y}
        BY <2>4, <2>8, <3>1
      <4>2. CASE j \in ExpiredRequest(s)
        BY <2>4, <4>1, <4>2
      <4>3. CASE j \notin ExpiredRequest(s)
        <5>1. j \notin Reserved(x, y) /\ requests'[j] = requests[j]
            BY <2>1, <2>4, <4>1, <4>3
        <5> QED
            BY <4>1, <5>1 DEF Reserved
      <4> QED
        BY <4>2, <4>3
    <3> QED
        BY <2>2, <2>6, <2>8, <3>1 DEF RequestAdded
  <2>11. RequestsLook
    BY <2>8, <2>9, <2>10 DEF RequestsLook
  <2>12. ConnsLook /\ BlocksLook
    BY <1>1 DEF ConnsLook, ConnectionKept, BlocksLook, ConnectionsTypeOK, ConversationNeedsConnection
  <2>13. StandsLook
    <3>1. \A i \in ExpiredRequest(s) : requests[i].expired
        BY <1>1 DEF ExpiredRequest, ConnectionReferences, SlotReferences, Creates, PeerRuns
    <3>2. \A c \in DOMAIN conns : conns[c].req \in DOMAIN requests
        BY DEF ConnectionReferences
    <3> QED
        BY <1>1, <2>4, <2>8, <3>1, <3>2 DEF StandsLook
  <2>14. LocksLook
    <3>1. ASSUME NEW t \in PeerSlots, PeerRuns(t, "accept")
          PROVE  peerTx[t].row \in DOMAIN requests /\ peerTx[t].row \notin ExpiredRequest(s)
        BY <1>1, <3>1 DEF RequestLocked, ConnectionReferences, SlotReferences
    <3> QED
        BY <1>1, <2>4, <2>8, <3>1 DEF LocksLook
  <2> QED
    BY <1>1, <2>11, <2>12, <2>13, <2>14 DEF ConnectionsLook
<1> QED
    BY <1>2, <1>3

\* accept retires the pair's expired connection and adds one.
LEMMA AcceptLook ==
    ASSUME ConnectionsInductive, NEW s \in PeerSlots, NEW consent \in BOOLEAN, FinishAccept(s, consent)
    PROVE  ConnectionsLook
<1> USE DEF ConnectionsInductive
<1> DEFINE i == peerTx[s].row
           r == requests[i]
           active == {c \in Between(r.from, r.to) : conns[c].status = "active"}
           retired == [c \in DOMAIN conns |->
                IF c \in active
                THEN [conns[c] EXCEPT !.status = "removed", !.conv = IF @ = "active" THEN "closed" ELSE @]
                ELSE conns[c]]
           row == [req |-> i, enabled |-> r.ask /\ consent, status |-> "active",
                   expired |-> FALSE, conv |-> "none"]
<1>1. /\ TxLook /\ peerTx'[s] = NoTx /\ \A t \in PeerSlots \ {s} : peerTx'[t] = peerTx[t]
      /\ UNCHANGED peerBlocks /\ PeerRuns(s, "accept") /\ \A c \in active : ~ConnectionLocked(c)
    BY EndedTx DEF FinishAccept
<1>2. CASE UNCHANGED <<requests, conns>>
    BY <1>1, <1>2, NoRowLook
<1>3. CASE ~UNCHANGED <<requests, conns>>
  <2>1. /\ requests' = [requests EXCEPT ![i].status = "accepted"]
        /\ conns' = Append(retired, row)
    BY <1>3 DEF FinishAccept
  <2>2. /\ i \in DOMAIN requests /\ requests[i].status = "pending"
        /\ \A t \in PeerSlots \ {s} : PeerRuns(t, "accept") => peerTx[t].row # i
    BY <1>1 DEF ConnectionReferences, SlotReferences, LockedRows, SlotLocks
  <2>3. /\ requests' \in Seq(ConnectionRequest) /\ DOMAIN requests' = DOMAIN requests
        /\ requests'[i].status = "accepted"
        /\ requests'[i].from = requests[i].from /\ requests'[i].to = requests[i].to
        /\ requests'[i].expired = requests[i].expired
        /\ \A j \in DOMAIN requests \ {i} : requests'[j] = requests[j]
    BY <2>1, <2>2, RequestWrites DEF RequestStatuses
  <2>4. row \in Connection
    <3>1. peerTx[s] \in ConnectionTransaction /\ peerTx[s].op = "accept" /\ requests[i] \in ConnectionRequest
        BY <1>1, <2>2 DEF ConnectionsTypeOK, PeerRuns
    <3>2. peerTx[s].row \in Nat
        BY <3>1 DEF ConnectionTransaction
    <3>3. (r.ask /\ consent) \in BOOLEAN
        OBVIOUS
    <3> QED
        BY <3>2, <3>3 DEF Connection
  <2>5. conns \in Seq(Connection) /\ \A c \in DOMAIN conns : conns[c] \in Connection
    BY DEF ConnectionsTypeOK
  <2>6. \A c \in DOMAIN conns :
            /\ retired[c] \in Connection
            /\ retired[c].req = conns[c].req /\ retired[c].expired = conns[c].expired
            /\ IF c \in active THEN retired[c].status = "removed" /\ retired[c].conv # "active"
                               ELSE retired[c] = conns[c]
    <3>1. ASSUME NEW c \in DOMAIN conns, c \in active
          PROVE  /\ retired[c] \in Connection
                 /\ retired[c].req = conns[c].req /\ retired[c].expired = conns[c].expired
                 /\ retired[c].status = "removed" /\ retired[c].conv # "active"
        BY <2>5, <3>1 DEF Connection
    <3> QED
        BY <2>5, <3>1
  <2>7. DOMAIN retired = DOMAIN conns /\ retired = [c \in DOMAIN conns |-> retired[c]]
    OBVIOUS
  <2>8. row.req = i /\ row.conv = "none"
    OBVIOUS
  <2>9. \A c \in DOMAIN conns : c \in active <=> conns[c].status = "active" /\ Pair(c) = Parties(i)
    BY DEF Between, Parties
  <2> HIDE DEF retired, row, active, i
  <2>10. retired \in Seq(Connection) /\ Len(retired) = Len(conns)
    BY <2>5, <2>6, <2>7, RowsMapped
  <2>11. /\ conns' \in Seq(Connection)
         /\ DOMAIN conns' = DOMAIN conns \cup {NewConnection} /\ NewConnection \notin DOMAIN conns
         /\ conns'[NewConnection] = row /\ \A c \in DOMAIN conns : conns'[c] = retired[c]
    BY <2>1, <2>4, <2>7, <2>10, RowAdded DEF NewConnection
  <2>12. RequestsLook
    BY <2>2, <2>3 DEF RequestsLook, RequestKept, IsReserved
  <2>13. \A c \in DOMAIN conns : ConnectionKept(c)
    BY <2>6, <2>11 DEF ConnectionKept, ConversationNeedsConnection
  <2>14. ConnectionAdded(NewConnection)
    BY <2>2, <2>3, <2>6, <2>8, <2>9, <2>11 DEF ConnectionAdded
  <2>15. ConnsLook
    BY <2>11, <2>13, <2>14 DEF ConnsLook
  <2>16. StandsLook
    BY <2>2, <2>3 DEF StandsLook, OneConnection, ConnectionReferences
  <2>17. ASSUME NEW t \in PeerSlots, HoldsConnection(t)
         PROVE  peerTx[t].conn \in DOMAIN conns /\ peerTx[t].conn \notin active
    BY <1>1, <2>17 DEF ConnectionLocked, PeerRuns, HoldsConnection, ConnectionReferences, SlotReferences
  <2>18. LocksLook
    <3>1. ASSUME NEW t \in PeerSlots, peerTx'[t] = peerTx[t], PeerRuns(t, "accept")
          PROVE  requests'[peerTx[t].row].status = requests[peerTx[t].row].status
      <4>1. t # s /\ peerTx[t].row \in DOMAIN requests
        BY <1>1, <3>1 DEF PeerRuns, ConnectionReferences, SlotReferences
      <4>2. peerTx[t].row # i
        BY <2>2, <3>1, <4>1
      <4> QED
        BY <2>3, <4>1, <4>2
    <3>2. ASSUME NEW t \in PeerSlots, HoldsConnection(t)
          PROVE  conns'[peerTx[t].conn].status = conns[peerTx[t].conn].status
      BY <2>6, <2>11, <2>17, <3>2
    <3> QED
      BY <3>1, <3>2 DEF LocksLook
  <2> QED
    BY <1>1, <2>12, <2>15, <2>16, <2>18 DEF ConnectionsLook, BlocksLook
<1> QED
    BY <1>2, <1>3

\* remove_connection and block_connection: the connection and its request end.
LEMMA EndLook ==
    ASSUME ConnectionsInductive, NEW s \in PeerSlots, FinishRemove(s) \/ FinishBlock(s)
    PROVE  ConnectionsLook
<1> USE DEF ConnectionsInductive
<1> DEFINE c == peerTx[s].conn
           i == conns[c].req
<1>1. /\ TxLook /\ peerTx'[s] = NoTx /\ \A t \in PeerSlots \ {s} : peerTx'[t] = peerTx[t]
      /\ HoldsConnection(s) /\ peerTx[s].op # "send" /\ ~RequestLocked(i)
    BY EndedTx DEF FinishRemove, FinishBlock, PeerRuns, HoldsConnection
<1>2. /\ c \in DOMAIN conns /\ conns[c].status = "active" /\ i \in DOMAIN requests
      /\ peerTx[s].by \in Pair(c)
      /\ \A t \in PeerSlots \ {s} : HoldsConnection(t) => peerTx[t].conn # c
    BY <1>1 DEF ConnectionReferences, SlotReferences, LockedRows, SlotLocks
<1>3. conns[c] \in Connection /\ requests[i] \in ConnectionRequest /\ conns \in Seq(Connection)
    BY <1>2 DEF ConnectionsTypeOK
<1>4. PICK st \in {"removed", "blocked"}, rs \in {"rejected", "blocked", requests[i].status},
           cs \in {"closed", "blocked"} :
           EndedAs(c, st, rs, cs) /\ (requests[i].status = "accepted" => rs # "accepted")
    BY Zenon DEF FinishRemove, FinishBlock
<1>5. rs \in RequestStatuses
    BY <1>3 DEF RequestStatuses, ConnectionRequest
<1> DEFINE e == [conns[c] EXCEPT !.status = st, !.conv = IF @ = "active" THEN cs ELSE @]
<1>6. /\ conns' = [conns EXCEPT ![c] = e]
      /\ requests' = [requests EXCEPT ![i].status = rs]
    BY <1>4 DEF EndedAs
<1>7. /\ e \in Connection /\ e.status = st /\ e.conv # "active"
      /\ e.req = conns[c].req /\ e.expired = conns[c].expired
    BY <1>3 DEF Connection
<1> HIDE DEF e, i, c
<1>8. /\ conns' \in Seq(Connection) /\ DOMAIN conns' = DOMAIN conns
      /\ conns'[c] = e /\ \A d \in DOMAIN conns \ {c} : conns'[d] = conns[d]
    BY <1>2, <1>3, <1>6, <1>7, RowUpdate
<1>9. /\ requests' \in Seq(ConnectionRequest) /\ DOMAIN requests' = DOMAIN requests
      /\ requests'[i].status = rs
      /\ requests'[i].from = requests[i].from /\ requests'[i].to = requests[i].to
      /\ requests'[i].expired = requests[i].expired
      /\ \A j \in DOMAIN requests \ {i} : requests'[j] = requests[j]
    BY <1>2, <1>5, <1>6, RequestWrites
<1>10. RequestsLook
    BY <1>9 DEF RequestsLook, RequestKept, IsReserved
<1>11. ConnsLook
    BY <1>7, <1>8 DEF ConnsLook, ConnectionKept, ConversationNeedsConnection
<1>12. StandsLook
  <2>1. ASSUME NEW d \in DOMAIN conns, d # c PROVE conns[d].req \in DOMAIN requests \ {i}
    BY <1>2, <2>1 DEF OneConnection, ConnectionReferences, i
  <2> QED
    BY <1>7, <1>8, <1>9, <2>1 DEF StandsLook
<1>13. LocksLook
    BY <1>1, <1>2, <1>8, <1>9 DEF LocksLook, RequestLocked, PeerRuns, HoldsConnection, ConnectionReferences, SlotReferences
<1>14. BlocksLook
  <2>1. CASE FinishRemove(s)
    BY <2>1 DEF FinishRemove, BlocksLook
  <2>2. CASE FinishBlock(s)
    <3> DEFINE u == peerTx[s].by
               v == Counterparty(c, u)
    <3>1. peerBlocks' = peerBlocks \cup {<<u, v>>}
        BY <2>2 DEF FinishBlock, c
    <3>2. Pair(c) = {u, v} /\ v \in Pair(c)
      <4>1. \E p \in Pair(c) : p # u
        BY <1>2 DEF Pair, ConnectionReferences, i
      <4>2. v \in Pair(c) /\ v # u
        BY <4>1 DEF Counterparty
      <4> HIDE DEF u, v
      <4> QED
        BY <1>2, <4>2 DEF Pair, u
    <3>3. u \in Peers /\ v \in Peers
        BY <1>2, <1>3, <3>2 DEF Pair, ConnectionRequest, i
    <3>4. ASSUME NEW t \in PeerSlots, PeerRuns(t, "send"), Pair(peerTx[t].conn) = {u, v}
          PROVE  FALSE
      <4>1. HoldsConnection(t) /\ t # s
        BY <1>1, <3>4 DEF PeerRuns, HoldsConnection
      <4>2. peerTx[t].conn \in DOMAIN conns /\ conns[peerTx[t].conn].status = "active"
        BY <4>1 DEF ConnectionReferences, SlotReferences, LockedRows, SlotLocks
      <4>3. peerTx[t].conn = c
        BY <1>2, <3>2, <3>4, <4>2 DEF OneConnection
      <4> QED
        BY <1>2, <4>1, <4>3
    <3> HIDE DEF u, v
    <3> QED
        BY <3>1, <3>3, <3>4 DEF BlocksLook
  <2> QED
    BY <2>1, <2>2
<1> QED
    BY <1>1, <1>10, <1>11, <1>12, <1>13, <1>14 DEF ConnectionsLook

\* A transaction begins with its checks and its lock.
LEMMA BeginLook ==
    ASSUME ConnectionsInductive, NEW s \in PeerSlots,
           \/ \E x, y \in Peers : BeginRequest(s, x, y)
           \/ \E i \in DOMAIN requests : BeginAccept(s, i)
           \/ \E c \in DOMAIN conns, o \in Peers :
                \/ \E op \in {"remove", "block"} : BeginEnd(s, op, c, o)
                \/ BeginConversation(s, c, o) \/ BeginSend(s, c, o)
    PROVE  ConnectionsLook
<1> USE DEF ConnectionsInductive
<1>1. ASSUME NEW x \in Peers, NEW y \in Peers, BeginRequest(s, x, y)
      PROVE  TxLook
  <2> DEFINE t == [op |-> "request", by |-> x, to |-> y, lapsed |-> {}]
  <2>1. t \in ConnectionTransaction
    BY DEF ConnectionTransaction
  <2>2. Admitted(t) /\ PeerBegun(s, t) /\ UNCHANGED <<requests, conns, peerBlocks>>
    BY <1>1 DEF Admitted, BeginRequest
  <2> HIDE DEF t
  <2> QED
    BY <2>1, <2>2, BegunTx
<1>2. ASSUME NEW i \in DOMAIN requests, BeginAccept(s, i)
      PROVE  TxLook
  <2> DEFINE t == [op |-> "accept", row |-> i]
  <2>1. i \in Nat
    BY DEF ConnectionsTypeOK
  <2>2. t \in ConnectionTransaction
    BY <2>1 DEF ConnectionTransaction
  <2>3. Admitted(t) /\ PeerBegun(s, t) /\ UNCHANGED <<requests, conns, peerBlocks>>
    BY <1>2 DEF Admitted, BeginAccept, Decidable, RequestInbox
  <2> HIDE DEF t
  <2> QED
    BY <2>2, <2>3, BegunTx
<1>3. ASSUME NEW c \in DOMAIN conns, NEW o \in Peers, NEW op \in {"remove", "block", "converse", "send"},
             c \in ListedConnections(o), ~ConnectionLocked(c), UNCHANGED <<requests, conns, peerBlocks>>,
             PeerBegun(s, [op |-> op, conn |-> c, by |-> o])
      PROVE  TxLook
  <2> DEFINE t == [op |-> op, conn |-> c, by |-> o]
  <2>1. c \in Nat
    BY DEF ConnectionsTypeOK
  <2>2. t \in ConnectionTransaction
    BY <2>1 DEF ConnectionTransaction
  <2>3. Admitted(t) /\ PeerBegun(s, t)
    BY <1>3 DEF Admitted, ListedConnections, Live
  <2> HIDE DEF t
  <2> QED
    BY <1>3, <2>2, <2>3, BegunTx
<1>4. ASSUME NEW c \in DOMAIN conns, NEW o \in Peers, NEW op \in {"remove", "block"}, BeginEnd(s, op, c, o)
      PROVE  TxLook
    BY <1>3, <1>4 DEF BeginEnd
<1>5. ASSUME NEW c \in DOMAIN conns, NEW o \in Peers, BeginConversation(s, c, o)
      PROVE  TxLook
    BY <1>3, <1>5 DEF BeginConversation
<1>6. ASSUME NEW c \in DOMAIN conns, NEW o \in Peers, BeginSend(s, c, o)
      PROVE  TxLook
  <2>1. c \in ListedConnections(o)
    BY <1>6 DEF BeginSend, Open, Live, ListedConnections
  <2> QED
    BY <1>3, <1>6, <2>1 DEF BeginSend
<1>7. UNCHANGED <<requests, conns, peerBlocks>>
    BY DEF BeginRequest, BeginAccept, BeginEnd, BeginConversation, BeginSend
<1> QED
    BY <1>1, <1>2, <1>4, <1>5, <1>6, <1>7, NoRowLook

\* create_connection_request reads and goes on, or ends.
LEMMA ReadLook ==
    ASSUME ConnectionsInductive, NEW s \in PeerSlots, ReadRequest(s) \/ ReadConnection(s)
    PROVE  ConnectionsLook
<1> USE DEF ConnectionsInductive
<1> DEFINE t == peerTx[s]
<1>1. UNCHANGED <<requests, conns, peerBlocks>> /\ Creates(s)
    BY DEF ReadRequest, ReadConnection, PeerRuns, Creates
<1>2. /\ t \in ConnectionTransaction /\ t.op \in {"request", "unrequested", "unconnected"}
      /\ t.by # t.to /\ \A i \in t.lapsed : i \in DOMAIN requests /\ requests[i].expired
    BY <1>1 DEF Creates, ConnectionsTypeOK, ConnectionReferences, SlotReferences
<1>3. ASSUME NEW op \in {"unrequested", "unconnected"}, NEW lapsed \in SUBSET Nat,
             \A i \in lapsed : i \in DOMAIN requests /\ requests[i].expired,
             peerTx' = [peerTx EXCEPT ![s] = [t EXCEPT !.op = op, !.lapsed = lapsed]]
      PROVE  TxLook
  <2> DEFINE u == [t EXCEPT !.op = op, !.lapsed = lapsed]
  <2>1. t \in [op: {"request", "unrequested", "unconnected"}, by: Peers, to: Peers, lapsed: SUBSET Nat]
    BY <1>2 DEF ConnectionTransaction
  <2>2. /\ u \in [op: {"request", "unrequested", "unconnected"}, by: Peers, to: Peers, lapsed: SUBSET Nat]
        /\ u.op = op /\ u.by = t.by /\ u.to = t.to /\ u.lapsed = lapsed
    BY <2>1
  <2>3. u \in ConnectionTransaction /\ Admitted(u)
    BY <1>2, <1>3, <2>2 DEF ConnectionTransaction, Admitted
  <2>4. peerTx' = [peerTx EXCEPT ![s] = u]
    BY <1>3
  <2> HIDE DEF u
  <2> QED
    BY <1>1, <2>3, <2>4 DEF TxLook, ConnectionsTypeOK
<1>4. ASSUME PeerEnded(s) PROVE TxLook
    BY <1>4, EndedTx
<1>5. CASE ReadRequest(s)
  <2> DEFINE reserved == Reserved(t.by, t.to)
  <2>1. reserved \in SUBSET Nat /\ \A i \in reserved : i \in DOMAIN requests
    BY DEF Reserved, ConnectionsTypeOK
  <2>2. \/ PeerEnded(s)
        \/ /\ \A i \in reserved : requests[i].expired
           /\ peerTx' = [peerTx EXCEPT ![s] = [t EXCEPT !.op = "unrequested", !.lapsed = reserved]]
    BY <1>5 DEF ReadRequest
  <2> HIDE DEF reserved
  <2> QED
    BY <1>1, <1>3, <1>4, <2>1, <2>2, NoRowLook
<1>6. CASE ReadConnection(s)
  <2>1. t.lapsed \in SUBSET Nat
    BY <1>2 DEF ConnectionTransaction
  <2>2. PeerEnded(s) \/ peerTx' = [peerTx EXCEPT ![s] = [t EXCEPT !.op = "unconnected"]]
    BY <1>6 DEF ReadConnection
  <2>3. [t EXCEPT !.op = "unconnected"] = [t EXCEPT !.op = "unconnected", !.lapsed = t.lapsed]
    BY <1>2 DEF ConnectionTransaction
  <2> QED
    BY <1>1, <1>2, <1>3, <1>4, <2>1, <2>2, <2>3, NoRowLook
<1> QED
    BY <1>5, <1>6

\* Every step of Connections looks like that.
LEMMA NextConnectionsLook ==
    ASSUME ConnectionsInductive, [ConnectionsNext]_connectionVars
    PROVE  ConnectionsLook
<1> USE DEF ConnectionsInductive
<1>1. ASSUME NEW s \in PeerSlots, FinishSend(s) \/ Cancel(s) PROVE ConnectionsLook
    BY <1>1, EndedTx, NoRowLook DEF FinishSend, Cancel
<1>2. ASSUME UNCHANGED <<requests, conns, peerBlocks, peerTx>> PROVE ConnectionsLook
    BY <1>2, NoRowLook DEF TxLook, ConnectionsTypeOK
<1>3. ASSUME \/ \E o \in Peers : MarkRead(o) \/ UnpublishPeer(o)
             \/ NewPeerDay \/ UNCHANGED connectionVars
      PROVE  ConnectionsLook
    BY <1>2, <1>3 DEF MarkRead, UnpublishPeer, NewPeerDay, connectionVars
<1> QED
    BY <1>1, <1>3, BeginLook, ReadLook, DecisionLook, InsertLook, AcceptLook, EndLook, ConversationLook,
        ExpireRequestLook, ExpireConnectionLook DEF ConnectionsNext

-----------------------------------------------------------------------------
(* Connections: types *)

\* What the owner of a lock may write.
LEMMA HolderTypes ==
    ASSUME ConnectionsInductive, NEW s \in PeerSlots, HoldsConnection(s)
    PROVE  /\ peerTx[s].conn \in Nat /\ peerTx[s].by \in Peers
           /\ Counterparty(peerTx[s].conn, peerTx[s].by) \in Peers
<1> USE DEF ConnectionsInductive
<1> DEFINE c == peerTx[s].conn
           i == conns[c].req
<1>1. c \in DOMAIN conns /\ i \in DOMAIN requests /\ requests[i].from # requests[i].to
    BY DEF ConnectionReferences, SlotReferences
<1>2. requests[i] \in ConnectionRequest
    BY <1>1 DEF ConnectionsTypeOK
<1>3. Pair(c) \subseteq Peers /\ \E p \in Pair(c) : p # peerTx[s].by
    BY <1>1, <1>2 DEF Pair, ConnectionRequest
<1>4. Counterparty(c, peerTx[s].by) \in Pair(c)
    BY <1>3 DEF Counterparty
<1>5. peerTx[s].by \in Pair(c) /\ c \in Nat
    BY <1>1 DEF ConnectionReferences, SlotReferences, ConnectionsTypeOK
<1> QED
    BY <1>3, <1>4, <1>5

\* The counters, marks and profiles, which no invariant relates to the rows.
CountersTyped ==
    /\ messages \in Seq(Message)
    /\ asked \in [Peers -> 0..RequestLimit] /\ sent \in [Peers -> 0..MessageLimit]
    /\ unread \subseteq Peers
    /\ commits \in 0..MaxCommits
    /\ published \subseteq Peers /\ peerEvents \in 0..PeerEvents

LEMMA NextCountersTyped ==
    ASSUME ConnectionsInductive, [ConnectionsNext]_connectionVars
    PROVE  CountersTyped'
<1> USE ConnectionsAssumption DEF ConnectionsInductive, ConnectionsAssumption
<1>1. CountersTyped
    BY DEF ConnectionsTypeOK, CountersTyped
<1> DEFINE counters == <<messages, asked, sent, unread, commits, published, peerEvents>>
<1>2. ASSUME UNCHANGED counters PROVE CountersTyped'
    BY <1>1, <1>2 DEF CountersTyped
<1>3. ASSUME NEW s \in PeerSlots,
             \/ \E x, y \in Peers : BeginRequest(s, x, y)
             \/ ReadRequest(s) \/ ReadConnection(s)
      PROVE  CountersTyped'
    BY <1>2, <1>3 DEF BeginRequest, ReadRequest, ReadConnection
<1>4. ASSUME NEW i \in DOMAIN requests, Reject(i) \/ Block(i) PROVE CountersTyped'
  <2>1. requests[i] \in ConnectionRequest
    BY DEF ConnectionsTypeOK
  <2>2. requests[i].from \in Peers
    BY <2>1 DEF ConnectionRequest
  <2> QED
    BY <1>1, <1>4, <2>2 DEF Reject, Block, Notified, Committed, CountersTyped
<1>5. ASSUME NEW s \in PeerSlots, NEW i \in DOMAIN requests, BeginAccept(s, i)
      PROVE  CountersTyped'
    BY <1>2, <1>5 DEF BeginAccept
<1>6. ASSUME NEW s \in PeerSlots, NEW c \in DOMAIN conns, NEW o \in Peers,
             \/ \E op \in {"remove", "block"} : BeginEnd(s, op, c, o)
             \/ BeginConversation(s, c, o) \/ BeginSend(s, c, o)
      PROVE  CountersTyped'
    BY <1>2, <1>6 DEF BeginEnd, BeginConversation, BeginSend
<1>7. ASSUME NEW s \in PeerSlots, NEW ask \in BOOLEAN, InsertRequest(s, ask) PROVE CountersTyped'
  <2>1. peerTx[s] \in ConnectionTransaction /\ peerTx[s].op = "unconnected"
    BY <1>7 DEF InsertRequest, ConnectionsTypeOK, PeerRuns
  <2>2. peerTx[s].by \in Peers /\ peerTx[s].to \in Peers
    BY <2>1 DEF ConnectionTransaction
  <2>3. UNCHANGED <<messages, sent, published, peerEvents>>
    BY <1>7 DEF InsertRequest
  <2>4. CASE UNCHANGED <<asked, commits, unread>>
    BY <1>2, <2>3, <2>4
  <2>5. CASE /\ asked[peerTx[s].by] < RequestLimit
             /\ asked' = [asked EXCEPT ![peerTx[s].by] = @ + 1]
             /\ Committed /\ Notified(peerTx[s].to)
    <3>1. asked' \in [Peers -> 0..RequestLimit]
        BY <1>1, <2>2, <2>5 DEF CountersTyped
    <3>2. unread' \subseteq Peers /\ commits' \in 0..MaxCommits
        BY <1>1, <2>2, <2>5 DEF CountersTyped, Committed, Notified
    <3> QED
        BY <1>1, <2>3, <3>1, <3>2 DEF CountersTyped
  <2> QED
    BY <1>7, <2>4, <2>5 DEF InsertRequest
<1>8. ASSUME NEW s \in PeerSlots, NEW consent \in BOOLEAN, FinishAccept(s, consent) PROVE CountersTyped'
  <2>1. peerTx[s].row \in DOMAIN requests
    BY <1>8 DEF FinishAccept, ConnectionReferences, SlotReferences
  <2>2. requests[peerTx[s].row] \in ConnectionRequest
    BY <2>1 DEF ConnectionsTypeOK
  <2>3. requests[peerTx[s].row].from \in Peers
    BY <2>2 DEF ConnectionRequest
  <2>4. UNCHANGED <<messages, asked, sent, published, peerEvents>>
    BY <1>8 DEF FinishAccept
  <2>5. UNCHANGED <<commits, unread>> \/ (Committed /\ Notified(requests[peerTx[s].row].from))
    BY <1>8 DEF FinishAccept
  <2> QED
    BY <1>1, <2>3, <2>4, <2>5 DEF CountersTyped, Committed, Notified
<1>9. ASSUME NEW s \in PeerSlots, FinishRemove(s) \/ FinishBlock(s) PROVE CountersTyped'
    BY <1>1, <1>9 DEF FinishRemove, FinishBlock, Committed, CountersTyped
<1>10. ASSUME NEW s \in PeerSlots, FinishConversation(s) PROVE CountersTyped'
  <2>1. Counterparty(peerTx[s].conn, peerTx[s].by) \in Peers
    BY <1>10, HolderTypes DEF FinishConversation, PeerRuns, HoldsConnection
  <2> QED
    BY <1>1, <1>10, <2>1 DEF FinishConversation, Committed, Notified, CountersTyped
<1>11. ASSUME NEW s \in PeerSlots, FinishSend(s) PROVE CountersTyped'
  <2>1. /\ peerTx[s].conn \in Nat /\ peerTx[s].by \in Peers
        /\ Counterparty(peerTx[s].conn, peerTx[s].by) \in Peers
    BY <1>11, HolderTypes DEF FinishSend, PeerRuns, HoldsConnection
  <2>2. UNCHANGED <<asked, published, peerEvents>>
    BY <1>11 DEF FinishSend
  <2>3. CASE UNCHANGED <<messages, sent, commits, unread>>
    BY <1>2, <2>2, <2>3
  <2>4. CASE /\ sent[peerTx[s].by] < MessageLimit
             /\ messages' = Append(messages, [conn |-> peerTx[s].conn, from |-> peerTx[s].by])
             /\ sent' = [sent EXCEPT ![peerTx[s].by] = @ + 1]
             /\ Committed /\ Notified(Counterparty(peerTx[s].conn, peerTx[s].by))
    <3>1. [conn |-> peerTx[s].conn, from |-> peerTx[s].by] \in Message
        BY <2>1 DEF Message
    <3>2. messages' \in Seq(Message)
        BY <1>1, <2>4, <3>1, AppendProperties DEF CountersTyped
    <3>3. sent' \in [Peers -> 0..MessageLimit]
        BY <1>1, <2>1, <2>4 DEF CountersTyped
    <3>4. unread' \subseteq Peers /\ commits' \in 0..MaxCommits
        BY <1>1, <2>1, <2>4 DEF CountersTyped, Committed, Notified
    <3> QED
        BY <1>1, <2>2, <3>2, <3>3, <3>4 DEF CountersTyped
  <2> QED
    BY <1>11, <2>3, <2>4 DEF FinishSend
<1>12. ASSUME NEW s \in PeerSlots, Cancel(s) PROVE CountersTyped'
    BY <1>2, <1>12 DEF Cancel
<1>13. ASSUME NEW o \in Peers, MarkRead(o) \/ UnpublishPeer(o) PROVE CountersTyped'
    BY <1>1, <1>13 DEF MarkRead, UnpublishPeer, PeerEvent, CountersTyped
<1>14. ASSUME NEW i \in DOMAIN requests, ExpireRequest(i) PROVE CountersTyped'
    BY <1>1, <1>14 DEF ExpireRequest, PeerEvent, CountersTyped
<1>15. ASSUME NEW c \in DOMAIN conns, ExpireConnection(c) PROVE CountersTyped'
    BY <1>2, <1>15 DEF ExpireConnection
<1>16. ASSUME NewPeerDay PROVE CountersTyped'
    BY <1>1, <1>16 DEF NewPeerDay, PeerEvent, CountersTyped
<1>17. ASSUME UNCHANGED connectionVars PROVE CountersTyped'
    BY <1>2, <1>17 DEF connectionVars
<1> QED
    BY <1>3, <1>4, <1>5, <1>6, <1>7, <1>8, <1>9, <1>10, <1>11, <1>12, <1>13, <1>14, <1>15, <1>16, <1>17
        DEF ConnectionsNext

LEMMA NextConnectionsTypeOK ==
    ASSUME ConnectionsInductive, ConnectionsLook, CountersTyped'
    PROVE  ConnectionsTypeOK'
<1>1. peerBlocks' \subseteq Peers \X Peers
    BY DEF ConnectionsInductive, ConnectionsTypeOK, ConnectionsLook, BlocksLook
<1> QED
    BY <1>1 DEF CountersTyped, ConnectionsTypeOK, ConnectionsLook, RequestsLook, ConnsLook, TxLook

-----------------------------------------------------------------------------
(* Connections: the theorems *)

LEMMA InitConnectionsInductive == ConnectionsInit => ConnectionsInductive
<1> SUFFICES ASSUME ConnectionsInit PROVE ConnectionsInductive
    OBVIOUS
<1> USE DEF ConnectionsInit
<1>1. ConnectionsTypeOK
    BY ConnectionsAssumption DEF ConnectionsAssumption, ConnectionsTypeOK
<1>2. \A s \in PeerSlots : ~HoldsConnection(s) /\ ~Creates(s) /\ \A op : ~PeerRuns(s, op)
    BY DEF PeerRuns, HoldsConnection, Creates
<1>3. DOMAIN requests = {} /\ DOMAIN conns = {}
    OBVIOUS
<1> QED
    BY <1>1, <1>2, <1>3 DEF ConnectionsInductive, ConnectionReferences, SlotReferences, LockedRows, SlotLocks,
        OneReserved, OneConnection, SendIsUnblocked, ConversationNeedsConnection

LEMMA NextConnectionsInductive ==
    ConnectionsInductive /\ [ConnectionsNext]_connectionVars => ConnectionsInductive'
<1> SUFFICES ASSUME ConnectionsInductive, [ConnectionsNext]_connectionVars PROVE ConnectionsInductive'
    OBVIOUS
<1>1. ConnectionsLook /\ CountersTyped'
    BY NextConnectionsLook, NextCountersTyped
<1>2. ConnectionsTypeOK' /\ ConnectionReferences' /\ LockedRows' /\ OneReserved'
    BY <1>1, NextConnectionsTypeOK, ReferencesKept, LocksKept, ReservedKept
<1>3. OneConnection' /\ SendIsUnblocked' /\ ConversationNeedsConnection'
    BY <1>1, ConnectionsKept, SendKept, NeedsKept
<1> QED
    BY <1>2, <1>3 DEF ConnectionsInductive

\* Connections, conversations and messages keep the invariant, for any number
\* of owners, requests and open transactions.
THEOREM ConnectionsInductiveHolds == ConnectionsSpec => []ConnectionsInductive
BY InitConnectionsInductive, NextConnectionsInductive, PTL DEF ConnectionsSpec

\* Requests, connections, messages, quotas and transactions keep their types.
THEOREM ConnectionsTypeCorrect == ConnectionsSpec => []ConnectionsTypeOK
<1>1. ConnectionsInductive => ConnectionsTypeOK
    BY DEF ConnectionsInductive
<1> QED
    BY <1>1, ConnectionsInductiveHolds, PTL

\* A conversation never outlives its connection, two owners have one active
\* connection at most, and it keeps its request accepted until the request has
\* expired, whatever transactions of create_connection_request,
\* decide_connection_request and remove_connection run at the same time.
THEOREM ConversationsHaveConnections == ConnectionsSpec => []ConversationNeedsConnection
<1>1. ConnectionsInductive => ConversationNeedsConnection
    BY DEF ConnectionsInductive
<1> QED
    BY <1>1, ConnectionsInductiveHolds, PTL

\* Only send_message commits a message, and its owners have not blocked each
\* other when it does, unless the connection is overtaken.
LEMMA MessageStep ==
    ConnectionsInductive /\ [ConnectionsNext]_connectionVars => [MessageIsUnblocked]_connectionVars
<1> SUFFICES ASSUME ConnectionsInductive, [ConnectionsNext]_connectionVars PROVE MessageIsUnblocked
    OBVIOUS
<1>1. ASSUME messages' = messages PROVE MessageIsUnblocked
    BY <1>1 DEF MessageIsUnblocked, ConnectionsInductive, ConnectionsTypeOK
<1>2. ASSUME NEW s \in PeerSlots, FinishSend(s) PROVE MessageIsUnblocked
  <2> DEFINE c == peerTx[s].conn
             m == [conn |-> c, from |-> peerTx[s].by]
  <2>1. CASE messages' = messages
    BY <1>1, <2>1
  <2>2. CASE messages' # messages
    <3>1. messages' = Append(messages, m)
        BY <1>2, <2>2 DEF FinishSend
    <3>2. c \in Nat /\ peerTx[s].by \in Peers
        BY <1>2, HolderTypes DEF FinishSend, PeerRuns, HoldsConnection
    <3>3. messages \in Seq(Message) /\ m \in Message
        BY <3>2 DEF ConnectionsInductive, ConnectionsTypeOK, Message
    <3>4. messages'[Len(messages')] = m /\ m.conn = c
        BY <3>1, <3>3, AppendProperties
    <3>5. ~Overtaken(c) => \A x, y \in Pair(c) : x # y => ~Blocked(x, y)
        BY <1>2 DEF FinishSend, ConnectionsInductive, SendIsUnblocked
    <3> QED
        BY <3>4, <3>5 DEF MessageIsUnblocked
  <2> QED
    BY <2>1, <2>2
<1>3. ASSUME ~\E s \in PeerSlots : FinishSend(s) PROVE messages' = messages
    BY <1>3 DEF ConnectionsNext, BeginRequest, Reject, Block, BeginAccept, BeginEnd, BeginConversation,
        BeginSend, ReadRequest, ReadConnection, InsertRequest, FinishAccept, FinishRemove, FinishBlock, FinishConversation, Cancel,
        MarkRead, ExpireRequest, ExpireConnection, NewPeerDay, UnpublishPeer, connectionVars
<1> QED
    BY <1>1, <1>2, <1>3

\* No message is committed between two owners once one has blocked the other,
\* even when it had passed its checks before the block, unless the connection's
\* expired request has been rejected in favour of another one.
THEOREM MessagesRespectBlocks == ConnectionsSpec => NoMessagePastBlock
BY ConnectionsInductiveHolds, MessageStep, PTL DEF ConnectionsSpec, NoMessagePastBlock
=============================================================================
