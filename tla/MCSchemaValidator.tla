-------------------------- MODULE MCSchemaValidator --------------------------
(* Values for the constants of SchemaValidator. *)
EXTENDS SchemaValidator

CONSTANTS a, u, u1, u2, v, w, num, scp, tdef

\* u1 and u2 are expansions of u.
MCPlain == [n \in Name |-> IF n \in {u1, u2} THEN u ELSE n]

MCRuleName == {<<a>>, <<u>>, <<a, a>>, <<u, a>>}

MCOrder == (Root :> 0) @@ (<<a>> :> 1) @@ (<<a, a>> :> 2) @@ (<<u>> :> 3) @@ (<<u, a>> :> 4)

MCBuiltIn == (num :> {[type |-> "String", val |-> v]}) @@ (scp :> {ScopeItem})

\* A subclass has a type of its own, whose name a schema may define too.
MCCustom == tdef :> {[type |-> "String", val |-> w]}

\* Trees over a few paths, without and with uid- names.
TreesOver(places, items) == {t \in UNION {[P -> items] : P \in SUBSET places} : Rooted(t)}
Number == [type |-> "String", val |-> v]
Text   == [type |-> "String", val |-> w]
MCTrees ==
  TreesOver({<<a>>, <<a, a>>}, {Number, Text, ScopeItem})
    \cup TreesOver({<<a>>, <<u1>>, <<u2>>, <<u1, a>>, <<u2, a>>, <<a, u1>>},
                   {Number, ScopeItem})
ShallowTrees == TreesOver({<<a>>, <<a, a>>, <<a, a, a>>}, {Number, ScopeItem})

Call(scope, local) ==
  [scope |-> scope, local |-> local, recurse |-> TRUE, mask |-> {"String", "List", "Scope"}]
RootCall  == {Call(Root, Root)}
ScopeCall == RootCall \cup {Call(<<a>>, Root)}
LocalCall == RootCall \cup {Call(Root, <<a>>)}
MCCalls ==
  ScopeCall \cup {[Call(Root, Root) EXCEPT !.mask = {"String", "List"}],
                  [Call(Root, Root) EXCEPT !.recurse = FALSE, !.mask = {"Scope"}]}

=============================================================================
