--------------------------- MODULE MCConfiguration ---------------------------
(* Values for the constants of Configuration. *)
EXTENDS Configuration

CONSTANTS a, b, v, w

\* No fallback, and one in which a is a scope with a variable of its own.
MCFallbacks ==
  {EmptyTree,
   (<<a>> :> ScopeItem) @@ (<<a, b>> :> [type |-> "String", val |-> v])}

=============================================================================
