------------------------ MODULE MCConfigurationOwners ------------------------
(* Three objects: one with a security configuration and a fallback of its own. *)
EXTENDS ConfigurationOwners, TLC

Symmetry == Permutations(Object)

=============================================================================
