---------------------------- MODULE MCRetention ----------------------------
EXTENDS Retention, TLC
CONSTANTS request, connection, evidence, older
\* A connection below its request, and two pieces of evidence.
MCParent == (connection :> request) @@ [r \in Records \ {connection} |-> None]
MCExpiresAt == (older :> 1) @@ (evidence :> 2)
\* The older evidence is that of an open verification, when it has expired; it
\* is never claimed, and nothing is assumed of its claims.
MCInit == Init /\ older \notin over
MCFairSpec == MCInit /\ [][Next]_vars /\ FairnessFor(Disposable \ {older})
=============================================================================
