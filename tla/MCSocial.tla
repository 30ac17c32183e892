------------------------------ MODULE MCSocial ------------------------------
(***************************************************************************)
(* Two components for TLC in one run: Posts, with follows and moderation,  *)
(* and Connections, with messages.  They share no row: a behaviour is one  *)
(* of either.                                                              *)
(***************************************************************************)
EXTENDS Posts, Connections, TLC

VARIABLE running        \* the module whose behaviour this is

\* One of each kind a day.
MCLimits == [kind \in {"post", "follow", "report"} |-> 1]

\* Connections does not depend on who moderates posts.
SocialInit ==
    /\ Init /\ ConnectionsInit
    /\ running \in {"posts", "connections"}
    /\ running = "connections" => authority = CHOOSE a \in Authorities : TRUE

SocialNext ==
    /\ UNCHANGED running
    /\ \/ running = "posts" /\ Next /\ UNCHANGED connectionVars
       \/ running = "connections" /\ ConnectionsNext /\ UNCHANGED vars

SocialSpec == SocialInit /\ [][SocialNext]_<<vars, connectionVars, running>>

Symmetry == Permutations(Peers) \cup Permutations(PeerSlots)
=============================================================================
