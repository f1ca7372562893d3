----------------------------- MODULE ConfigTree -----------------------------
(***************************************************************************)
(* The scope tree of a Configuration object and the operations on it.      *)
(*                                                                         *)
(* A ConfigScope holds a table of named ConfigItems; an item is a string,  *)
(* a list or a nested ConfigScope.  The tree of tables is represented as   *)
(* one function from the paths of its entries to their items: the path is  *)
(* what ConfigScope::scopedName() spells with dots, so a scope is named by *)
(* its path and the root scope, which is no item, by the empty path.  The  *)
(* order of a table is abstracted away: only @copyFrom can observe it, and *)
(* ConfigParser chooses the order there.                                   *)
(***************************************************************************)
EXTENDS Naturals, Sequences, SequencesExt

CONSTANTS
  Name,    \* names between the dots of a scoped name (the empty one may be there)
  Value,   \* what a variable may hold: the text of a string, the words of a list
  None     \* "no value"

ASSUME NoneIsNoValue == None \notin Value

Path == Seq(Name)
Root == << >>

----------------------------------------------------------------------------
(* Items: ConfType and ConfigItem. *)

Variable  == [type : {"String", "List"}, val : Value]
ScopeItem == [type |-> "Scope", val |-> None]
NoItem    == [type |-> "NoValue", val |-> None]
Item      == Variable \cup {ScopeItem}

EmptyTree == [p \in {} |-> NoItem]

IsTree(t) ==
  /\ t = [p \in DOMAIN t |-> t[p]]
  /\ \A p \in DOMAIN t : p \in Path /\ p # Root /\ t[p] \in Item

IsVariable(t, p) == p \in DOMAIN t /\ t[p].type # "Scope"
IsScope(t, p)    == p = Root \/ (p \in DOMAIN t /\ t[p].type = "Scope")

\* Every entry is reached through scopes that are themselves in the tree: what
\* ownership by unique_ptr gives the real tree.
Rooted(t) ==
  \A p \in DOMAIN t : \A n \in 1..(Len(p) - 1) : IsScope(t, SubSeq(p, 1, n))

----------------------------------------------------------------------------
(* ConfigScope: operations on the entry at path p. *)

FindItem(t, p) == IF p \in DOMAIN t THEN t[p] ELSE NoItem

\* Mutant: the test for an existing scope is dropped.
AddOrReplaceAny(t, p, item) ==
  [ok |-> TRUE, tree |-> [q \in DOMAIN t \cup {p} |-> IF q = p THEN item ELSE t[q]]]

\* addOrReplaceString and addOrReplaceList: a scope is not replaced.
AddOrReplace(t, p, item) ==
  IF p \in DOMAIN t /\ t[p].type = "Scope"
  THEN [ok |-> FALSE, tree |-> t]
  ELSE [ok |-> TRUE,
        tree |-> [q \in DOMAIN t \cup {p} |-> IF q = p THEN item ELSE t[q]]]

\* removeItem erases the item and with it everything below.
RemoveItem(t, p) == [q \in {r \in DOMAIN t : ~IsPrefix(p, r)} |-> t[q]]

----------------------------------------------------------------------------
(* ConfigurationImpl: operations on a scoped name vec relative to a scope. *)

\* Mutant: the loop runs one index too early.
EnsureScopeExistsFromZero(t, scope, vec) ==
  LET chain   == {scope \o SubSeq(vec, 1, i) : i \in 0..Len(vec)}
      blocked == {p \in chain : IsVariable(t, p)}
      made    == {p \in chain \ DOMAIN t : \A q \in blocked : Len(p) < Len(q)}
  IN  [ok   |-> blocked = {},
       tree |-> [p \in DOMAIN t \cup made |->
                   IF p \in DOMAIN t THEN t[p] ELSE ScopeItem]]

\* Mutant: the loop goes on after a name that is a variable.
EnsureScopeExistsGoesOn(t, scope, vec) ==
  LET chain == {scope \o SubSeq(vec, 1, i) : i \in 1..Len(vec)}
  IN  [ok   |-> \A p \in chain : ~IsVariable(t, p),
       tree |-> [p \in DOMAIN t \cup chain |->
                   IF p \in DOMAIN t THEN t[p] ELSE ScopeItem]]

\* ensureScopeExists(vec, ...): the loop creates the scopes of the chain that
\* are missing and stops at the first name that is a variable.  What it made
\* before stopping stays.
EnsureScopeExists(t, scope, vec) ==
  LET chain   == {scope \o SubSeq(vec, 1, i) : i \in 1..Len(vec)}
      blocked == {p \in chain : IsVariable(t, p)}
      made    == {p \in chain \ DOMAIN t : \A q \in blocked : Len(p) < Len(q)}
  IN  [ok   |-> blocked = {},
       tree |-> [p \in DOMAIN t \cup made |->
                   IF p \in DOMAIN t THEN t[p] ELSE ScopeItem]]

\* Mutant: the current scope is ignored.
InsertAtRoot(t, scope, vec, item) ==
  LET outer == EnsureScopeExists(t, Root, Front(vec))
  IN  IF outer.ok THEN AddOrReplace(outer.tree, vec, item) ELSE outer

\* insertString and insertList: the enclosing scopes first, then the entry.
Insert(t, scope, vec, item) ==
  LET outer == EnsureScopeExists(t, scope, Front(vec))
  IN  IF outer.ok THEN AddOrReplace(outer.tree, scope \o vec, item) ELSE outer

\* lookupHelper: every name but the last must lead into a scope.
LookupHelper(t, scope, vec) ==
  IF \A i \in 1..(Len(vec) - 1) :
        FindItem(t, scope \o SubSeq(vec, 1, i)).type = "Scope"
  THEN FindItem(t, scope \o vec)
  ELSE NoItem

\* Mutant: the search ends in the first scope that has the first name.
LookupUpwardsStopsEarly(t, scope, vec) ==
  LET hits == {n \in 0..Len(scope) :
                 FindItem(t, Append(SubSeq(scope, 1, n), Head(vec))) # NoItem}
  IN  IF hits = {} THEN NoItem ELSE LookupHelper(t, SubSeq(scope, 1, Max(hits)), vec)

\* The loop of lookup: the given scope, then its parents up to the root, until
\* one of them has the entry.
LookupUpwards(t, scope, vec) ==
  LET hits == {n \in 0..Len(scope) : LookupHelper(t, SubSeq(scope, 1, n), vec) # NoItem}
  IN  IF hits = {} THEN NoItem ELSE LookupHelper(t, SubSeq(scope, 1, Max(hits)), vec)

\* A reference to an entry: rooted when it is spelled with a leading dot.
Reference == [rooted : BOOLEAN, vec : Path]

\* lookup without a fallback configuration.
OwnLookup(t, scope, ref, startInRoot) ==
  LookupUpwards(t, IF ref.rooted \/ startInRoot THEN Root ELSE scope, ref.vec)

\* lookup: what the tree does not have is searched in the fallback's root.
Lookup(t, fallback, scope, ref, startInRoot) ==
  LET own == OwnLookup(t, scope, ref, startInRoot)
  IN  IF own # NoItem THEN own ELSE LookupUpwards(fallback, Root, ref.vec)

=============================================================================
