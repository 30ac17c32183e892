---------------------------- MODULE MCDelegation ----------------------------
(***************************************************************************)
(* Two components for TLC in one run: AgentAuthority, of what agents may   *)
(* do for an owner, and Recruiting, of what members may do for an          *)
(* organization.  They share no row: a behaviour is one of either.         *)
(***************************************************************************)
EXTENDS AgentAuthority, Recruiting, TLC

VARIABLE running        \* the module whose behaviour this is

\* Bound: one person has applied and one is a member; a second transaction is open
\* only beside the decision of an application, and then nothing has lapsed and no
\* setting has changed.
Open(ops) == Cardinality({s \in RecruitingSlots : recruitingTx[s] # NoRecord /\ recruitingTx[s].op \in ops})
Bounded ==
    /\ Cardinality({a \in Jobs \X People : applications[a] # NoRecord}) <= 1
    /\ Cardinality(Members) <= 1
    /\ Open({"submit", "apply", "withdraw"}) <= 1
    /\ recruitingEvents > 0 => Open({"submit", "apply", "withdraw", "decide"}) <= 1

\* Bound: an identity is created and a second event follows, of it, its mandate or
\* a credential that expires, only while there is no proposal, which needs none.
FewEvents == events > 1 => proposals = <<>>

DelegationInit == Init /\ RecruitingInit /\ running \in {"authority", "recruiting"}

DelegationNext ==
    /\ UNCHANGED running
    /\ \/ running = "authority" /\ Next /\ FewEvents' /\ UNCHANGED recruitingVars
       \/ running = "recruiting" /\ RecruitingNext /\ Bounded' /\ UNCHANGED vars

DelegationSpec == DelegationInit /\ [][DelegationNext]_<<vars, recruitingVars, running>>

Symmetry ==
    Permutations(Creds) \cup Permutations(Slots) \cup Permutations(Handles)
        \cup Permutations(People) \cup Permutations(RecruitingSlots)
=============================================================================
