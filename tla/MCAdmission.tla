----------------------------- MODULE MCAdmission -----------------------------
(***************************************************************************)
(* Three components for TLC in one run: DeletionCommitment, which admits a *)
(* deletion, Receipts, which admits the effect of a key once, and          *)
(* Contacts, which admits a contact request.  A behaviour is one of them.  *)
(***************************************************************************)
EXTENDS DeletionCommitment, Receipts, Contacts, TLC

VARIABLE running        \* the module whose behaviour this is

\* Only the receipts depend on the family of operations.
AdmissionInit ==
    /\ Init /\ ContactsInit /\ ReceiptsInit
    /\ running \in {"deletion", "contacts", "receipts"}
    /\ running # "receipts" => family = CHOOSE f \in Families : TRUE

AdmissionNext ==
    /\ UNCHANGED running
    /\ \/ running = "deletion" /\ Next /\ UNCHANGED <<contactVars, receiptVars>>
       \/ running = "contacts" /\ ContactsNext /\ UNCHANGED <<vars, receiptVars>>
       \/ running = "receipts" /\ ReceiptsNext /\ UNCHANGED <<vars, contactVars>>

AdmissionSpec == AdmissionInit /\ [][AdmissionNext]_<<vars, contactVars, receiptVars, running>>

Symmetry ==
    Permutations(ContactKeys) \cup Permutations(Owners) \cup Permutations(ContactSlots)
=============================================================================
