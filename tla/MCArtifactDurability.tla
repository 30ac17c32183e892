------------------------ MODULE MCArtifactDurability ------------------------
(* Small instances of ArtifactDurability for TLC. *)
EXTENDS ArtifactDurability
=============================================================================
