---------------------------- MODULE Configuration ----------------------------
(***************************************************************************)
(* ConfigurationImpl: the calls a program makes on a Configuration object  *)
(* between two parses.  Every call either succeeds or raises an exception, *)
(* which the program catches before its next call.                         *)
(***************************************************************************)
EXTENDS ConfigTree

CONSTANTS
  Fallbacks,   \* contents the program may give the fallback configuration
  MaxDepth     \* bound: names in the path of an entry

ASSUME DepthBound == MaxDepth \in Nat \ {0}
ASSUME FallbacksAreTrees ==
  \A t \in Fallbacks : IsTree(t) /\ Rooted(t)

VARIABLES
  tree,        \* m_rootScope: the tables below the root scope
  currScope,   \* m_currScope
  fallback,    \* m_fallbackCfg: its tree, empty when there is none
  exc          \* the exception on its way to the caller, if any

configVars == <<tree, currScope, fallback, exc>>

\* "config" is a ConfigurationException, "foreign" any other exception.
Exception == {"none", "config", "foreign"}

\* Scoped names of at most n names.
Vec(n) == UNION {[1..m -> Name] : m \in 1..n}

\* The bound on paths: the entry vec names from the current scope fits.
Fits(vec) == Len(currScope) + Len(vec) <= MaxDepth

ConfigTypeOK ==
  /\ IsTree(tree)
  /\ currScope \in Path
  /\ IsTree(fallback)
  /\ exc \in Exception

ConfigInit ==
  /\ tree = EmptyTree
  /\ currScope = Root
  /\ fallback = EmptyTree
  /\ exc = "none"

----------------------------------------------------------------------------
(* Calls. *)

\* What insertString, insertList and ensureScopeExists have in common: the
\* result of the tree operation is kept, a refusal is raised.
Take(result) ==
  /\ tree' = result.tree
  /\ exc' = IF result.ok THEN "none" ELSE "config"
  /\ UNCHANGED <<currScope, fallback>>

InsertItem(vec, item) ==
  /\ exc = "none" /\ Fits(vec)
  /\ Take(Insert(tree, currScope, vec, item))

EnsureScope(vec) ==
  /\ exc = "none" /\ Fits(vec)
  /\ Take(EnsureScopeExists(tree, currScope, vec))

\* remove walks down from the current scope; it is not a lookup, so parents
\* and the fallback are not searched.
RemoveEntry(vec) ==
  /\ exc = "none"
  /\ LET found == LookupHelper(tree, currScope, vec) # NoItem
     IN  Take([ok   |-> found,
               tree |-> IF found THEN RemoveItem(tree, currScope \o vec) ELSE tree])

EmptyConfig ==
  /\ exc = "none"
  /\ tree' = EmptyTree
  /\ currScope' = Root
  /\ UNCHANGED <<fallback, exc>>

SetFallback(t) ==
  /\ exc = "none"
  /\ fallback' = t
  /\ UNCHANGED <<tree, currScope, exc>>

\* External: the program handles the exception a call or a parse raised.
Catch ==
  /\ exc # "none"
  /\ exc' = "none"
  /\ UNCHANGED <<tree, currScope, fallback>>

Call ==
  \/ \E vec \in Vec(MaxDepth), item \in Variable : InsertItem(vec, item)
  \/ \E vec \in Vec(MaxDepth) : EnsureScope(vec)
  \/ \E vec \in Vec(MaxDepth) : RemoveEntry(vec)
  \/ EmptyConfig
  \/ \E t \in Fallbacks : SetFallback(t)
  \/ Catch

ConfigSpec == ConfigInit /\ [][Call]_configVars

----------------------------------------------------------------------------
(* Properties. *)

\* The tree never holds an entry outside every scope, whatever sequence of
\* insertions, scope creations and removals built it.
TreeIsRooted == Rooted(tree)

\* The scope that relative names start from is a scope of the tree: the raw
\* pointer m_currScope does not dangle after a removal.
CurrScopeLives == IsScope(tree, currScope)

\* A call that raises an exception has changed nothing: in particular an
\* insertion into a.b.c that is refused has not left a or a.b behind.
RefusedCallChangesNothing ==
  [][exc = "none" /\ exc' # "none" => UNCHANGED <<tree, currScope, fallback>>]_configVars

\* A name keeps its kind: no step turns a variable into a scope, or a scope
\* (and what is in it) into a variable; the name must be removed first.
KindIsKept ==
  [][\A p \in DOMAIN tree \cap DOMAIN tree' :
        IsScope(tree, p) <=> IsScope(tree', p)]_configVars

\* A step only adds, changes or removes entries strictly below the current
\* scope; only empty() reaches everything.
OnlyBelowCurrScope ==
  [][tree' = EmptyTree \/
     \A p \in DOMAIN tree \cup DOMAIN tree' :
        FindItem(tree, p) # FindItem(tree', p) => IsStrictPrefix(currScope, p)]_configVars

\* lookup finds the entry of the innermost enclosing scope that has it: an
\* outer scope's entry is seen exactly when no inner one hides it, also when
\* an inner scope has the first names of the reference but not the last.
Enclosing(scope, vec) ==
  {n \in 0..Len(scope) : SubSeq(scope, 1, n) \o vec \in DOMAIN tree}

InnermostIsFound ==
  \A scope \in {s \in DOMAIN tree \cup {Root} : IsScope(tree, s)}, vec \in Vec(MaxDepth) :
    LET n == Enclosing(scope, vec)
    IN  OwnLookup(tree, scope, [rooted |-> FALSE, vec |-> vec], FALSE) =
          IF n = {} THEN NoItem
          ELSE tree[SubSeq(scope, 1, Max(n)) \o vec]

\* A program that sees only variables sees a VariableStore: scopes appear and
\* disappear without it noticing.
Variables == [p \in {q \in DOMAIN tree : IsVariable(tree, q)} |-> tree[p]]

Store == INSTANCE VariableStore WITH store <- Variables, Val <- Variable
ImplementsStore == Store!Spec

=============================================================================
