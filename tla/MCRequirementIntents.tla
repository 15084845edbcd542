------------------------ MODULE MCRequirementIntents ------------------------
(* Instances of RequirementIntents for TLC. *)
EXTENDS RequirementIntents
=============================================================================
