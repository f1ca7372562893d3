--------------------------- MODULE MCConfigParser ---------------------------
(* Values for the constants of ConfigParser. *)
EXTENDS ConfigParser

CONSTANTS a, b, v, w, nil

\* No fallback.
NoFallback == {EmptyTree}

\* Names of one character: what is left of each is the empty name.
ChopToEmpty == [n \in Name |-> nil]
SameName    == [n \in Name |-> n]

\* No definition tells the names a and b apart.
NamesAlike == Permutations({a, b})

----------------------------------------------------------------------------
(* One parse of a file that works on contents the program, or an earlier   *)
(* parse, has put there.                                                   *)

String(value) == [type |-> "String", val |-> value]
List(value)   == [type |-> "List", val |-> value]

\* Trees over a few paths, three names deep.
Places == {<<a>>, <<a, a>>, <<a, b>>, <<a, a, b>>, <<b>>}
SomeTrees ==
  {t \in UNION {[P -> {String(v), List(w), ScopeItem}] : P \in SUBSET Places} :
     Rooted(t)}

FilledFallback ==
  (<<a>> :> ScopeItem) @@ (<<a, b>> :> String(w)) @@ (<<a, a>> :> ScopeItem)
    @@ (<<a, a, b>> :> String(v))

FilledInit ==
  /\ tree \in SomeTrees
  /\ currScope = Root
  /\ fallback \in {EmptyTree, FilledFallback}
  /\ exc = "none"
  /\ fileNameStack = << >>
  /\ stack = << >>
  /\ copy = NoCopy

\* The statements a copy can meet: the contents an assignment or a removal
\* could have made before it are among the initial ones.
CopyOnly ==
  \/ \E f \in File : Parse(f)
  \/ AtStmt /\
       \/ \E name \in Spelled : OpenScope(<<name>>)
       \/ \E from \in Ref(Vec(MaxDepth)), ifExists \in BOOLEAN : StartCopy(from, ifExists)
  \/ copy # NoCopy /\ (EndCopy \/ \E p \in copy.todo : CopyItem(p))
  \/ CloseScope \/ EndFile \/ StmtError \/ Unwind

FilledSpec == FilledInit /\ [][CopyOnly]_vars

=============================================================================
