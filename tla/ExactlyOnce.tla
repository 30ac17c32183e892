----------------------------- MODULE ExactlyOnce -----------------------------
(***************************************************************************)
(* What an Idempotency-Key promises: under one key at most one request     *)
(* takes effect, and a success is told only for the request whose effect   *)
(* stands.  A key is free again when its effect and its receipt were       *)
(* disposed of together.  A refusal may always be told and changes nothing.*)
(***************************************************************************)
CONSTANTS Keys, Intents, None

VARIABLES
    standing,       \* the intent whose effect stands under a key
    told            \* <<key, intent>> that a client was told succeeded

Init == standing = [k \in Keys |-> None] /\ told = {}

Apply(k, i) ==
    /\ standing[k] = None
    /\ standing' = [standing EXCEPT ![k] = i]
    /\ told' \in {told, told \cup {<<k, i>>}}

Tell(k) ==
    /\ standing[k] # None
    /\ told' = told \cup {<<k, standing[k]>>}
    /\ UNCHANGED standing

Forget(k) ==
    /\ standing[k] # None
    /\ standing' = [standing EXCEPT ![k] = None]
    /\ UNCHANGED told

Next == \E k \in Keys : Tell(k) \/ Forget(k) \/ \E i \in Intents : Apply(k, i)

Spec == Init /\ [][Next]_<<standing, told>>
=============================================================================
