---------------------------- MODULE MCDiscovery ----------------------------
\* Discovery for TLC: two documents of one owner and two concurrent writes.
EXTENDS Discovery, TLC

MCDocs == 1..2
LabelsAreAlike == Permutations(Labels) \cup Permutations(Slots)

\* Bound: a reader searches or follows the feed.  A poll has no part in a search
\* and a search has none in the feed.
Searching == search # None \/ cursor # None \/ walk # <<>>
ReadsOneWay == feed.cursor > 0 => ~Searching

\* Bound: a first page is asked for once, at any time; what comes after it is the
\* page of its cursor.
OneFirstPage == search = None /\ search' # None /\ search'.anchor = None => reads = 0

MCSpec == Init /\ [][Next /\ ReadsOneWay' /\ OneFirstPage]_vars
=============================================================================
