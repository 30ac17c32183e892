-------------------------------- MODULE Posts --------------------------------
(***************************************************************************)
(* Posts, follows and content blocks, reports, and the moderation of a     *)
(* reported post up to the review of an appeal.                            *)
(*                                                                         *)
(* Handlers that change a post, a case or an appeal lock the post, then    *)
(* the case, and are one step from there to their commit.  The moderator's *)
(* and the appeal reviewer's handlers refresh what they lock.  report_post *)
(* and create_moderation_appeal read a row before they lock it and do not: *)
(* what they test is the first read, kept in their transaction.  Follows   *)
(* and content blocks of a pair of owners are serialized by a lock row of  *)
(* the pair.  A reviewer decides with the digest of the evidence that was  *)
(* inspected, compared under the locks; the operator's command decides     *)
(* without one.  The Markdown of a post is an artifact                     *)
(* (ArtifactDurability).                                                   *)
(***************************************************************************)
EXTENDS Naturals, Sequences, FiniteSets

CONSTANTS
    Owners, Slots, None,
    Profiles,               \* the owners who published a profile
    Reviewers,              \* who may be configured as moderator or appeal reviewer
    DailyLimits,            \* function from the kinds of quota to their limits
    Fans, Social,           \* bounds: the owners who follow, and whom they follow and who block
    MaxPosts, MaxCases,     \* bounds: rows
    MaxEvents               \* bound: new days, deadlines, deployments, withdrawn profiles

PostStatuses == {"published", "withheld", "withdrawn"}
CaseStatuses == {"open", "dismissed", "withheld", "appealed", "appeal_upheld", "appeal_overturned"}
Post == [by: Owners, status: PostStatuses]
ModerationCase ==
    [post: 1..MaxPosts, status: CaseStatuses, late: BOOLEAN,
     moderator: Reviewers \cup {None}, appealReviewer: Reviewers \cup {None},
     basis: {None} \cup SUBSET Owners]     \* the reports the moderator had inspected
Transaction ==
    [op: {"follow"}, by: Owners, other: Owners]
        \cup [op: {"report"}, by: Owners, post: 1..MaxPosts]
        \cup [op: {"appeal"}, case: 1..MaxCases, status: CaseStatuses]
Authorities == {a \in [moderator: Reviewers, appealReviewer: Reviewers] : a.moderator # a.appealReviewer}
Snapshot == [case: 1..MaxCases, status: CaseStatuses, post: PostStatuses, reports: SUBSET Owners]

ASSUME PostsAssumption ==
    /\ None \notin Transaction \cup Snapshot
    /\ Fans \subseteq Owners /\ Social \subseteq Owners /\ Profiles \subseteq Owners
    /\ DailyLimits \in [{"post", "follow", "report"} -> Nat]
    /\ MaxPosts \in Nat /\ MaxCases \in Nat /\ MaxEvents \in Nat

VARIABLES
    posts,                  \* Post rows in the order of their commits
    follows, blocks,        \* ProfileFollow and PostContentBlock rows <<owner, other>>
    cases,                  \* ModerationCase rows with their decision and appeal
    reports,                \* the case of each PostReport, 0 when there is no report
    quota,                  \* PostRateBucket, FollowRateBucket, PostReportRateBucket of today
    seen,                   \* the evidence the reviewing page shows, with its digest
    authority,              \* the configured moderator and appeal reviewer
    public,                 \* owners with a public profile
    tx,                     \* the open transaction of each slot
    events

vars == <<posts, follows, blocks, cases, reports, quota, seen, authority, public, tx, events>>

TypeOK ==
    /\ posts \in Seq(Post) /\ Len(posts) <= MaxPosts
    /\ follows \subseteq Owners \X Owners /\ blocks \subseteq Owners \X Owners
    /\ cases \in Seq(ModerationCase) /\ Len(cases) <= MaxCases
    /\ reports \in [(1..MaxPosts) \X Owners -> 0..MaxCases]
    /\ quota \in [(DOMAIN DailyLimits) \X Owners -> Nat]
    /\ seen \in Snapshot \cup {None}
    /\ authority \in Authorities
    /\ public \subseteq Profiles
    /\ tx \in [Slots -> Transaction \cup {None}]
    /\ events \in 0..MaxEvents

Init ==
    /\ posts = <<>> /\ follows = {} /\ blocks = {} /\ cases = <<>>
    /\ reports = [r \in (1..MaxPosts) \X Owners |-> 0]
    /\ quota = [q \in (DOMAIN DailyLimits) \X Owners |-> 0]
    /\ seen = None
    /\ authority \in Authorities
    /\ public = Profiles
    /\ tx = [s \in Slots |-> None]
    /\ events = 0

-----------------------------------------------------------------------------
(* Rows and locks *)

\* post_content_blocked, in either direction.
ContentBlocked(x, y) == <<x, y>> \in blocks \/ <<y, x>> \in blocks

Runs(s, op) == tx[s] # None /\ tx[s].op = op
Begun(s, t) == tx[s] = None /\ tx' = [tx EXCEPT ![s] = t]
Ended(s) == tx' = [tx EXCEPT ![s] = None]

NoPairLock(x, y) == FALSE       \* mutant: the pair's lock row is not taken

\* lock_post_graph_pair
PairLocked(x, y) == \E s \in Slots : Runs(s, "follow") /\ {tx[s].by, tx[s].other} = {x, y}

\* consume_post_quota
Consumes(kind, o) ==
    /\ quota[<<kind, o>>] < DailyLimits[kind]
    /\ quota' = [quota EXCEPT ![<<kind, o>>] = @ + 1]

\* public_post_is_eligible, under the locks of locked_public_post_representations.
Eligible(p) == posts[p].status = "published" /\ posts[p].by \in public

\* public_post_inventory_page: what everybody can list.
PublicPosts == {p \in DOMAIN posts : Eligible(p)}

\* read_post by a signed-in owner.
ReadablePosts(o) == {p \in PublicPosts : ~ContentBlocked(o, posts[p].by)}

-----------------------------------------------------------------------------
(* Posts *)

\* create_post
CreatePost(o) ==
    /\ o \in public /\ Len(posts) < MaxPosts
    /\ Consumes("post", o)
    /\ posts' = Append(posts, [by |-> o, status |-> "published"])
    /\ UNCHANGED <<follows, blocks, cases, reports, seen, authority, public, tx, events>>

\* withdraw_post, also of a post that is withheld.
WithdrawPost(p) ==
    /\ posts[p].status \in {"published", "withheld"}
    /\ posts' = [posts EXCEPT ![p].status = "withdrawn"]
    /\ UNCHANGED <<follows, blocks, cases, reports, quota, seen, authority, public, tx, events>>

\* list_profile_posts and public_post_archive_page
ProfilePosts(reader, o) == {p \in ReadablePosts(reader) : posts[p].by = o}

-----------------------------------------------------------------------------
(* Follows and content blocks *)

\* follow_profile: the pair's lock, then the follows and blocks of the pair.
BeginFollow(s, x, y) ==
    /\ x # y /\ y \in public /\ ~PairLocked(x, y)
    /\ ~ContentBlocked(x, y)
    /\ Begun(s, [op |-> "follow", by |-> x, other |-> y])
    /\ UNCHANGED <<posts, follows, blocks, cases, reports, quota, seen, authority, public, events>>

\* A follow that exists is answered again without its quota.
FinishFollow(s) ==
    LET pair == <<tx[s].by, tx[s].other>> IN
    /\ Runs(s, "follow")
    /\ IF pair \in follows \/ quota[<<"follow", tx[s].by>>] >= DailyLimits["follow"]
       THEN UNCHANGED <<follows, quota>>
       ELSE follows' = follows \cup {pair} /\ Consumes("follow", tx[s].by)
    /\ Ended(s)
    /\ UNCHANGED <<posts, blocks, cases, reports, seen, authority, public, events>>

\* list_follows
Followed(o) == {x \in public : <<o, x>> \in follows /\ ~ContentBlocked(o, x)}

\* feed
Feed(o) == {p \in PublicPosts : posts[p].by \in Followed(o) \cup {o}}

\* profile_post_controls
Controls(o, x) == [following |-> <<o, x>> \in follows, blocked |-> <<o, x>> \in blocks]

\* unfollow_profile
Unfollow(x, y) ==
    /\ y \in public /\ ~PairLocked(x, y)
    /\ Controls(x, y).following
    /\ follows' = follows \ {<<x, y>>}
    /\ UNCHANGED <<posts, blocks, cases, reports, quota, seen, authority, public, tx, events>>

\* block_post_content ends the follows of both.
BlockContent(x, y) ==
    /\ x # y /\ y \in public /\ ~PairLocked(x, y)
    /\ blocks' = blocks \cup {<<x, y>>}
    /\ follows' = follows \ {<<x, y>>, <<y, x>>}
    /\ UNCHANGED <<posts, cases, reports, quota, seen, authority, public, tx, events>>

\* unblock_post_content
UnblockContent(x, y) ==
    /\ y \in public /\ ~PairLocked(x, y)
    /\ Controls(x, y).blocked
    /\ blocks' = blocks \ {<<x, y>>}
    /\ UNCHANGED <<posts, follows, cases, reports, quota, seen, authority, public, tx, events>>

-----------------------------------------------------------------------------
(* Reports *)

\* report_post up to its lock: visible_published_post.
BeginReport(s, o, p) ==
    /\ p \in ReadablePosts(o)
    /\ Begun(s, [op |-> "report", by |-> o, post |-> p])
    /\ UNCHANGED <<posts, follows, blocks, cases, reports, quota, seen, authority, public, events>>

CasesOf(p) == {c \in DOMAIN cases : cases[c].post = p}

\* The open case of a post, of which the partial unique index allows one.
OpenCase(p) == {c \in CasesOf(p) : cases[c].status = "open"}

\* ensure_post_moderation_case
NewCase(p) ==
    [post |-> p, status |-> "open", late |-> FALSE, moderator |-> None, appealReviewer |-> None,
     basis |-> None]

\* Under the lock the author, the block and the reports are current and the
\* post's status is not.  A second report of the same owner changes nothing.
FinishReport(s) ==
    LET o == tx[s].by  p == tx[s].post
        c == IF OpenCase(p) = {} THEN Len(cases) + 1 ELSE CHOOSE d \in OpenCase(p) : TRUE
    IN /\ Runs(s, "report")
       /\ c <= MaxCases
       /\ IF /\ posts[p].by \in public \ {o} /\ ~ContentBlocked(o, posts[p].by)
             /\ reports[<<p, o>>] = 0
             /\ quota[<<"report", o>>] < DailyLimits["report"]
          THEN /\ cases' = IF OpenCase(p) = {} THEN Append(cases, NewCase(p)) ELSE cases
               /\ reports' = [reports EXCEPT ![<<p, o>>] = c]
               /\ Consumes("report", o)
          ELSE UNCHANGED <<cases, reports, quota>>
       /\ Ended(s)
       /\ UNCHANGED <<posts, follows, blocks, seen, authority, public, events>>

-----------------------------------------------------------------------------
(* Moderation *)

Subject(c) == posts[cases[c].post].by

\* list_moderation_review_cases
ReviewCases ==
    {c \in DOMAIN cases : cases[c].status = "open" /\ Subject(c) # authority.moderator}

\* lock_case_review_bundle and the manifest whose digest is the ETag of the page.
Evidence(c) ==
    [case |-> c, status |-> cases[c].status, post |-> posts[cases[c].post].status,
     reports |-> {o \in Owners : reports[<<cases[c].post, o>>] = c}]

\* decide_case: only a published post can be withheld, a dismissal changes no post.
DecideCase(c, action, basis) ==
    /\ c \in ReviewCases
    /\ action = "withhold" => posts[cases[c].post].status = "published"
    /\ posts' = IF action = "withhold" THEN [posts EXCEPT ![cases[c].post].status = "withheld"] ELSE posts
    /\ cases' = [cases EXCEPT ![c].status = IF action = "withhold" THEN "withheld" ELSE "dismissed",
                              ![c].moderator = authority.moderator, ![c].basis = basis]
    /\ UNCHANGED <<follows, blocks, reports, quota, seen, authority, public, tx, events>>

\* inspect_moderation_review_case
InspectCase(c) ==
    /\ c \in ReviewCases
    /\ seen' = Evidence(c)
    /\ UNCHANGED <<posts, follows, blocks, cases, reports, quota, authority, public, tx, events>>

\* mutant: the digest of the page is not compared
AnySnapshot(c) == seen # None /\ seen.case = c

\* _require_expected_snapshot
ExpectedSnapshot(c) == seen = Evidence(c)

\* decide_moderation_review_case
DecideReviewCase(c, action) == ExpectedSnapshot(c) /\ DecideCase(c, action, seen.reports)

\* moderate_post: the operator's command.
ModeratePost(c, action) == DecideCase(c, action, None)

\* list_moderation_cases: the subject's own cases.
SubjectCases(o) == {c \in DOMAIN cases : Subject(c) = o}

\* create_moderation_appeal up to its locks.
BeginAppeal(s, o, c) ==
    /\ c \in SubjectCases(o)
    /\ Begun(s, [op |-> "appeal", case |-> c, status |-> cases[c].status])
    /\ UNCHANGED <<posts, follows, blocks, cases, reports, quota, seen, authority, public, events>>

\* The decision and an earlier appeal are read under the locks, the case is not.
FinishAppeal(s) ==
    LET c == tx[s].case IN
    /\ Runs(s, "appeal")
    /\ cases' =
        IF tx[s].status = "withheld" /\ ~cases[c].late /\ cases[c].status = "withheld"
        THEN [cases EXCEPT ![c].status = "appealed"]
        ELSE cases
    /\ Ended(s)
    /\ UNCHANGED <<posts, follows, blocks, reports, quota, seen, authority, public, events>>

\* mutant: independent of the moderator configured now
IndependentNow(c) ==
    authority.appealReviewer # authority.moderator /\ authority.appealReviewer # Subject(c)

\* Independent of who decided and of the subject.
Independent(c) ==
    authority.appealReviewer # cases[c].moderator /\ authority.appealReviewer # Subject(c)

\* lock_appeal_review_bundle
AwaitsReview(c) == cases[c].status = "appealed" /\ posts[cases[c].post].status \in {"withheld", "withdrawn"}

\* list_moderation_review_appeals and inspect_moderation_review_appeal
ReviewAppeals == {c \in DOMAIN cases : AwaitsReview(c) /\ Independent(c)}

RestoredAlways(c, action) ==    \* mutant: a withheld post is restored by any review
    IF posts[cases[c].post].status = "withheld"
    THEN [posts EXCEPT ![cases[c].post].status = "published"] ELSE posts

\* An overturned decision gives a post that is still withheld back.
Restored(c, action) ==
    IF action = "overturn" /\ posts[cases[c].post].status = "withheld"
    THEN [posts EXCEPT ![cases[c].post].status = "published"] ELSE posts

\* review_appeal, with the page's digest (decide_moderation_review_appeal) or,
\* as the operator's command (review_post_appeal), without: the second admits
\* every step of the first.
ReviewAppeal(c, action) ==
    /\ c \in ReviewAppeals
    /\ posts' = Restored(c, action)
    /\ cases' = [cases EXCEPT
            ![c].status = IF action = "overturn" THEN "appeal_overturned" ELSE "appeal_upheld",
            ![c].appealReviewer = authority.appealReviewer]
    /\ UNCHANGED <<follows, blocks, reports, quota, seen, authority, public, tx, events>>

-----------------------------------------------------------------------------
(* The environment *)

Event == events < MaxEvents /\ events' = events + 1

\* 30 days after the decision.
DeadlinePasses(c) ==
    /\ Event
    /\ cases[c].status = "withheld" /\ ~cases[c].late
    /\ cases' = [cases EXCEPT ![c].late = TRUE]
    /\ UNCHANGED <<posts, follows, blocks, reports, quota, seen, authority, public, tx>>

NewDay ==
    /\ Event
    /\ quota' = [q \in DOMAIN quota |-> 0]
    /\ UNCHANGED <<posts, follows, blocks, cases, reports, seen, authority, public, tx>>

\* configured_moderation_authorities: two different people, in the settings of
\* a new process; open transactions are rolled back.
Redeploy ==
    /\ Event
    /\ authority' \in Authorities
    /\ tx' = [s \in Slots |-> None]
    /\ UNCHANGED <<posts, follows, blocks, cases, reports, quota, seen, public>>

Unpublish(o) ==
    /\ Event
    /\ o \in public /\ public' = public \ {o}
    /\ UNCHANGED <<posts, follows, blocks, cases, reports, quota, seen, authority, tx>>

Next ==
    \/ \E o \in Owners : CreatePost(o) \/ Unpublish(o)
    \/ \E p \in DOMAIN posts : WithdrawPost(p)
    \/ \E x, y \in Social : BlockContent(x, y) \/ UnblockContent(x, y)
    \/ \E x \in Fans, y \in Social : Unfollow(x, y) \/ \E s \in Slots : BeginFollow(s, x, y)
    \/ \E s \in Slots :
        \/ FinishFollow(s) \/ FinishReport(s) \/ FinishAppeal(s)
        \/ \E o \in Owners, p \in DOMAIN posts : BeginReport(s, o, p)
        \/ \E o \in Owners, c \in DOMAIN cases : BeginAppeal(s, o, c)
    \/ \E c \in DOMAIN cases :
        \/ \E action \in {"withhold", "dismiss"} : DecideReviewCase(c, action) \/ ModeratePost(c, action)
        \/ \E action \in {"uphold", "overturn"} : ReviewAppeal(c, action)
        \/ InspectCase(c)
        \/ DeadlinePasses(c)
    \/ NewDay \/ Redeploy

Spec == Init /\ [][Next]_vars

-----------------------------------------------------------------------------
(* Properties *)

\* Nobody follows across a content block, in whatever order the two owners
\* follow, block and unblock each other.
NoFollowPastBlock == \A pair \in follows : ~ContentBlocked(pair[1], pair[2])

\* A post that is published has no case whose withholding still stands: only
\* the overturned appeal of the case that withheld a post gives it back.
PublishedIsCleared ==
    \A c \in DOMAIN cases :
        posts[cases[c].post].status = "published" =>
            cases[c].status \notin {"withheld", "appealed", "appeal_upheld"}

\* Nobody reviews the appeal of a decision they took or of which they are the
\* subject, even when the two authorities were reconfigured in between.
IndependentAppeal ==
    \A c \in DOMAIN cases :
        cases[c].appealReviewer # None => cases[c].appealReviewer \notin {cases[c].moderator, Subject(c)}

\* The reports the moderator had on the page are the reports of the decided
\* case, at the decision and for as long as the case stands: one that arrives
\* between the inspection and the decision fails it, and none joins later.
DecisionEvidenceStands ==
    \A c \in DOMAIN cases : cases[c].basis # None => cases[c].basis = Evidence(c).reports
=============================================================================
