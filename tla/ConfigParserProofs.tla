------------------------- MODULE ConfigParserProofs -------------------------
(***************************************************************************)
(* The scope tree and the scopes the parser points to, for every file and  *)
(* every sequence of calls.  First what the operations on the tree do to   *)
(* the variables in it: each step of them is a step of VariableStore, or   *)
(* none that it can see; then theorems about Configuration's               *)
(* specification, every configuration a program can build by calls,        *)
(* whatever the names and values; then theorems about ConfigParser's, with *)
(* the activations of the parser's functions: which scope and which file   *)
(* each is in, for every file and every depth of nesting.                  *)
(***************************************************************************)
EXTENDS ConfigParser, ConfigTreeTheorems, SequenceTheorems, FiniteSetTheorems,
        WellFoundedInduction

----------------------------------------------------------------------------
(* Changes of a tree. *)

\* u has everything t has, and further scopes.
Keeps(t, u) ==
  /\ DOMAIN t \subseteq DOMAIN u
  /\ \A q \in DOMAIN t : u[q] = t[q]
  /\ \A q \in DOMAIN u \ DOMAIN t : u[q] = ScopeItem

\* ... and a variable at p.
Sets(t, u, p) ==
  /\ p \in DOMAIN u /\ u[p] \in Variable
  /\ DOMAIN t \subseteq DOMAIN u
  /\ \A q \in DOMAIN t \ {p} : u[q] = t[q]
  /\ \A q \in DOMAIN u \ (DOMAIN t \cup {p}) : u[q] = ScopeItem

StoreChange(t, u) ==
  \/ Keeps(t, u)
  \/ \E p \in Path : Sets(t, u, p)
  \/ \E p \in Path : u = RemoveItem(t, p)
  \/ u = EmptyTree

LEMMA EnsureScopeExistsChanges ==
  ASSUME NEW t, IsTree(t), Rooted(t), NEW scope \in Path, IsScope(t, scope), NEW vec \in Path
  PROVE  StoreChange(t, EnsureScopeExists(t, scope, vec).tree)
<1>1. Keeps(t, EnsureScopeExists(t, scope, vec).tree)
  BY EnsureScopeExistsKeepsTree DEF Keeps
<1> QED BY <1>1 DEF StoreChange

LEMMA InsertChanges ==
  ASSUME NEW t, IsTree(t), Rooted(t), NEW scope \in Path, IsScope(t, scope),
         NEW vec \in Path, vec # Root, NEW item \in Variable
  PROVE  StoreChange(t, Insert(t, scope, vec, item).tree)
<1> DEFINE outer == EnsureScopeExists(t, scope, Front(vec))
           p == scope \o vec
           u == Insert(t, scope, vec, item).tree
<1>1. Keeps(t, outer.tree)
  BY FrontOfPath, EnsureScopeExistsKeepsTree DEF Keeps
<1>2. p \in Path
  BY BelowIsLonger
<1>3. u = IF outer.ok THEN AddOrReplace(outer.tree, p, item).tree ELSE outer.tree
  BY DEF Insert
<1> HIDE DEF outer, p, u
<1>4. CASE u = outer.tree
  BY <1>1, <1>4 DEF StoreChange, u
<1>5. CASE u = [q \in DOMAIN outer.tree \cup {p} |-> IF q = p THEN item ELSE outer.tree[q]]
  <2>1. Sets(t, u, p)
    BY <1>1, <1>5 DEF Keeps, Sets
  <2> QED BY <1>2, <2>1 DEF StoreChange, u
<1> QED BY <1>3, <1>4, <1>5 DEF AddOrReplace

----------------------------------------------------------------------------
(* Their variables. *)

VariablesOf(t) == [p \in {q \in DOMAIN t : IsVariable(t, q)} |-> t[p]]

LEMMA VariablesAre ==
  /\ Variables = VariablesOf(tree)
  /\ Variables' = VariablesOf(tree')
BY DEF Variables, VariablesOf

LEMMA KindsOfItems ==
  /\ ScopeItem.type = "Scope"
  /\ \A item \in Variable : item.type # "Scope"
BY DEF ScopeItem, Variable

LEMMA KeepsVariables ==
  ASSUME NEW t, NEW u, Keeps(t, u)
  PROVE  VariablesOf(u) = VariablesOf(t)
<1>1. {q \in DOMAIN u : IsVariable(u, q)} = {q \in DOMAIN t : IsVariable(t, q)}
  BY KindsOfItems DEF Keeps, IsVariable
<1> QED BY <1>1 DEF Keeps, VariablesOf

LEMMA SetsVariable ==
  ASSUME NEW t, NEW u, NEW p, Sets(t, u, p)
  PROVE  /\ DOMAIN VariablesOf(u) = DOMAIN VariablesOf(t) \cup {p}
         /\ VariablesOf(u) = [q \in DOMAIN VariablesOf(t) \cup {p} |->
                                IF q = p THEN VariablesOf(u)[p] ELSE VariablesOf(t)[q]]
         /\ VariablesOf(u)[p] \in Variable
<1>1. {q \in DOMAIN u : IsVariable(u, q)} = {q \in DOMAIN t : IsVariable(t, q)} \cup {p}
  BY KindsOfItems DEF Sets, IsVariable
<1>2. \A q \in {r \in DOMAIN t : IsVariable(t, r)} \ {p} : u[q] = t[q]
  BY DEF Sets
<1> QED BY <1>1, <1>2 DEF Sets, VariablesOf

\* A variable's name leads through scopes.
LEMMA NoVariableOnTheWay ==
  ASSUME NEW t, IsTree(t), Rooted(t), NEW p, IsVariable(t, p), NEW q \in DOMAIN t
  PROVE  ~IsStrictPrefix(p, q)
<1> SUFFICES ASSUME IsStrictPrefix(p, q) PROVE FALSE
  OBVIOUS
<1>1. p \in Path /\ q \in Path /\ p # Root /\ t[p].type # "Scope"
  BY DEF IsTree, IsVariable
<1>2. Len(p) \in 1..(Len(q) - 1) /\ p = SubSeq(q, 1, Len(p))
  BY <1>1 DEF IsStrictPrefix, IsPrefix, Path, Root
<1>3. IsScope(t, p)
  BY <1>2 DEF Rooted
<1> QED BY <1>1, <1>3 DEF IsScope

LEMMA SetsClear ==
  ASSUME NEW t, NEW u, IsTree(u), Rooted(u), NEW p, Sets(t, u, p),
         NEW q \in DOMAIN VariablesOf(t)
  PROVE  ~IsStrictPrefix(p, q) /\ ~IsStrictPrefix(q, p)
<1>1. IsVariable(u, p) /\ p \in DOMAIN u /\ q \in DOMAIN u
  BY KindsOfItems DEF Sets, IsVariable, VariablesOf
<1>2. IsVariable(u, q)
  BY <1>1 DEF Sets, IsVariable, VariablesOf
<1> QED BY <1>1, <1>2, NoVariableOnTheWay

LEMMA RemovesVariables ==
  ASSUME NEW t, NEW p
  PROVE  VariablesOf(RemoveItem(t, p))
           = [q \in {r \in DOMAIN VariablesOf(t) : ~IsPrefix(p, r)} |-> VariablesOf(t)[q]]
BY DEF VariablesOf, RemoveItem, IsVariable

----------------------------------------------------------------------------
(* The refinement. *)

LEMMA PrefixIsOneOf ==
  ASSUME NEW q \in Path, NEW p \in Path, IsPrefix(p, q)
  PROVE  p \in Prefixes(q)
<1>1. Len(p) \in 0..Len(q) /\ p = SubSeq(q, 1, Len(p))
  BY DEF IsPrefix, Path
<1> QED BY <1>1 DEF Prefixes

LEMMA SamePrefixes ==
  /\ \A p, q : Store!IsPrefix(p, q) <=> IsPrefix(p, q)
  /\ \A p, q : Store!IsStrictPrefix(p, q) <=> IsStrictPrefix(p, q)
  /\ \A q : Store!Prefixes(q) = Prefixes(q)
BY DEF Store!IsPrefix, IsPrefix, Store!IsStrictPrefix, IsStrictPrefix, Store!Prefixes, Prefixes

LEMMA SetStep ==
  ASSUME IsTree(tree'), Rooted(tree'), NEW p, Sets(tree, tree', p)
  PROVE  Store!Next
<1> DEFINE V == VariablesOf(tree)
           W == VariablesOf(tree')
<1>1. Variables = V /\ Variables' = W
  BY VariablesAre
<1>2. /\ DOMAIN W = DOMAIN V \cup {p}
      /\ W = [q \in DOMAIN V \cup {p} |-> IF q = p THEN W[p] ELSE V[q]]
      /\ W[p] \in Variable
  BY SetsVariable
<1>3. \A q \in DOMAIN V : ~IsStrictPrefix(p, q) /\ ~IsStrictPrefix(q, p)
  BY SetsClear
<1> HIDE DEF V, W
<1>4. Store!Clear(p)
  BY <1>1, <1>3, SamePrefixes DEF Store!Clear
<1>5. Variables' = [q \in DOMAIN Variables \cup {p} |->
                      IF q = p THEN Variables'[p] ELSE Variables[q]]
  BY <1>1, <1>2
<1>6. Variables'[p] \in Variable /\ p \in DOMAIN Variables'
  BY <1>1, <1>2
<1>7. Store!Set(p, Variables'[p])
  BY <1>4, <1>5, <1>6 DEF Store!Set
<1> QED BY <1>6, <1>7 DEF Store!Next

LEMMA DiscardStep ==
  ASSUME IsTree(tree), NEW p \in Path, tree' = RemoveItem(tree, p)
  PROVE  [Store!Next]_Variables
<1> DEFINE V == VariablesOf(tree)
           W == VariablesOf(tree')
<1>1. Variables = V /\ Variables' = W
  BY VariablesAre
<1>2. W = [q \in {r \in DOMAIN V : ~IsPrefix(p, r)} |-> V[q]]
  BY RemovesVariables
<1>3. DOMAIN V \subseteq Path /\ V = [q \in DOMAIN V |-> V[q]]
  BY DEF VariablesOf, IsTree
<1> HIDE DEF V, W
<1>4. CASE \E q \in DOMAIN V : IsPrefix(p, q)
  <2>1. PICK q \in DOMAIN V : IsPrefix(p, q)
    BY <1>4
  <2>2. p \in Store!Prefixes(q)
    BY <1>3, <2>1, PrefixIsOneOf, SamePrefixes
  <2>3. {r \in DOMAIN V : ~Store!IsPrefix(p, r)} = {r \in DOMAIN V : ~IsPrefix(p, r)}
    BY SamePrefixes
  <2>4. Store!Discard(p)
    BY <1>1, <1>2, <2>3 DEF Store!Discard
  <2> QED BY <1>1, <2>2, <2>4 DEF Store!Next
<1>5. CASE \A q \in DOMAIN V : ~IsPrefix(p, q)
  <2>1. {r \in DOMAIN V : ~IsPrefix(p, r)} = DOMAIN V
    BY <1>5
  <2> QED BY <1>1, <1>2, <1>3, <2>1
<1> QED BY <1>4, <1>5

LEMMA StoreStep ==
  ASSUME IsTree(tree), IsTree(tree'), Rooted(tree'), StoreChange(tree, tree')
  PROVE  [Store!Next]_Variables
<1>1. CASE Keeps(tree, tree')
  BY <1>1, VariablesAre, KeepsVariables
<1>2. CASE \E p \in Path : Sets(tree, tree', p)
  BY <1>2, SetStep
<1>3. CASE \E p \in Path : tree' = RemoveItem(tree, p)
  BY <1>3, DiscardStep
<1>4. CASE tree' = EmptyTree
  <2>1. Root \in Path /\ \A q \in Path : IsPrefix(Root, q)
    BY DEF Root, Path, IsPrefix
  <2>2. \A q \in DOMAIN tree : q \in Path
    BY DEF IsTree
  <2>3. RemoveItem(tree, Root) = EmptyTree
    <3>1. {r \in DOMAIN tree : ~IsPrefix(Root, r)} = {}
      BY <2>1, <2>2
    <3> QED BY <3>1 DEF RemoveItem, EmptyTree
  <2> QED BY <1>4, <2>1, <2>3, DiscardStep
<1> QED BY <1>1, <1>2, <1>3, <1>4 DEF StoreChange

\* The store is empty at first.
LEMMA StoreInit ==
  ASSUME tree = EmptyTree
  PROVE  Store!Init
BY DEF Store!Init, Variables, EmptyTree

\* A call changes the tree in one of these ways.
LEMMA CallChanges ==
  ASSUME IsTree(tree), Rooted(tree), currScope \in Path, IsScope(tree, currScope),
         \A vec \in Vec(MaxDepth) : vec \in Path /\ vec # Root, Call
  PROVE  StoreChange(tree, tree')
<1>1. Keeps(tree, tree)
  BY DEF Keeps
<1>2. ASSUME NEW vec \in Vec(MaxDepth), NEW item \in Variable, InsertItem(vec, item)
      PROVE  StoreChange(tree, tree')
  BY <1>2, InsertChanges DEF InsertItem, Take
<1>3. ASSUME NEW vec \in Vec(MaxDepth), EnsureScope(vec)
      PROVE  StoreChange(tree, tree')
  BY <1>3, EnsureScopeExistsChanges DEF EnsureScope, Take
<1>4. ASSUME NEW vec \in Vec(MaxDepth), RemoveEntry(vec)
      PROVE  StoreChange(tree, tree')
  <2>1. currScope \o vec \in Path
    BY BelowIsLonger
  <2>2. tree' = tree \/ tree' = RemoveItem(tree, currScope \o vec)
    BY <1>4 DEF RemoveEntry, Take
  <2> QED BY <1>1, <2>1, <2>2 DEF StoreChange
<1>5. CASE EmptyConfig
  BY <1>5 DEF EmptyConfig, StoreChange
<1>6. CASE Catch \/ \E t \in Fallbacks : SetFallback(t)
  BY <1>1, <1>6 DEF Catch, SetFallback, StoreChange
<1> QED BY <1>2, <1>3, <1>4, <1>5, <1>6 DEF Call

----------------------------------------------------------------------------
(* The inductive invariant: the current scope stays the root scope, since    *)
(* only the parser moves it.                                                 *)

CallInv ==
  /\ ConfigTypeOK
  /\ TreeIsRooted
  /\ currScope = Root

LEMMA CallFacts ==
  ASSUME CallInv
  PROVE  /\ IsTree(tree) /\ Rooted(tree) /\ IsTree(fallback) /\ exc \in Exception
         /\ currScope \in Path /\ IsScope(tree, currScope)
BY DEF CallInv, ConfigTypeOK, TreeIsRooted, IsScope

LEMMA RootIsPath == Root \in Path
BY DEF Root, Path

LEMMA VecIsPath == \A vec \in Vec(MaxDepth) : vec \in Path /\ vec # Root
<1> SUFFICES ASSUME NEW m \in 1..MaxDepth, NEW vec \in [1..m -> Name]
             PROVE  vec \in Path /\ vec # Root
  BY DEF Vec
<1>1. m \in Nat /\ m # 0
  BY DepthBound
<1>2. vec \in Seq(Name) /\ Len(vec) = m
  BY <1>1
<1> QED BY <1>1, <1>2 DEF Path, Root

\* A call that is refused leaves everything as it was; one that is not keeps
\* the invariant.
Refused == exc' # "none" => UNCHANGED <<tree, currScope, fallback>>

LEMMA TakeKeeps ==
  ASSUME CallInv, NEW result, Take(result),
         IsTree(result.tree), Rooted(result.tree), ~result.ok => result.tree = tree
  PROVE  CallInv' /\ Refused
<1>1. tree' = result.tree /\ UNCHANGED <<currScope, fallback>>
  BY DEF Take
<1>2. exc' \in Exception /\ (exc' # "none" => ~result.ok)
  BY DEF Take, Exception
<1> QED BY <1>1, <1>2 DEF CallInv, ConfigTypeOK, TreeIsRooted, Refused

LEMMA InsertItemKeeps ==
  ASSUME CallInv, NEW vec \in Vec(MaxDepth), NEW item \in Variable, InsertItem(vec, item)
  PROVE  CallInv' /\ Refused
<1> DEFINE r == Insert(tree, currScope, vec, item)
<1>1. Grown(tree, r.tree, currScope) /\ (~r.ok => r.tree = tree)
  BY VecIsPath, CallFacts, InsertGrows
<1>2. Take(r)
  BY DEF InsertItem
<1> HIDE DEF r
<1> QED BY <1>1, <1>2, TakeKeeps DEF Grown

LEMMA EnsureScopeKeeps ==
  ASSUME CallInv, NEW vec \in Vec(MaxDepth), EnsureScope(vec)
  PROVE  CallInv' /\ Refused
<1> DEFINE r == EnsureScopeExists(tree, currScope, vec)
<1>1. IsTree(r.tree) /\ Rooted(r.tree) /\ (~r.ok => r.tree = tree)
  BY VecIsPath, CallFacts, EnsureScopeExistsKeepsTree
<1>2. Take(r)
  BY DEF EnsureScope
<1> HIDE DEF r
<1> QED BY <1>1, <1>2, TakeKeeps

LEMMA RemoveEntryKeeps ==
  ASSUME CallInv, NEW vec \in Vec(MaxDepth), RemoveEntry(vec)
  PROVE  CallInv' /\ Refused
<1> DEFINE found == LookupHelper(tree, currScope, vec) # NoItem
           r == [ok   |-> found,
                 tree |-> IF found THEN RemoveItem(tree, currScope \o vec) ELSE tree]
<1>1. currScope \o vec \in Path
  BY VecIsPath, CallFacts, BelowIsLonger
<1>2. IsTree(RemoveItem(tree, currScope \o vec)) /\ Rooted(RemoveItem(tree, currScope \o vec))
  BY <1>1, CallFacts, RemoveItemKeepsTree
<1>3. IsTree(r.tree) /\ Rooted(r.tree) /\ (~r.ok => r.tree = tree)
  BY <1>2, CallFacts
<1>4. Take(r)
  BY DEF RemoveEntry
<1> HIDE DEF r
<1> QED BY <1>3, <1>4, TakeKeeps

LEMMA NextCallInv ==
  CallInv /\ [Call]_configVars => CallInv' /\ (exc = "none" => UNCHANGED configVars \/ Refused)
<1> SUFFICES ASSUME CallInv, [Call]_configVars
             PROVE  CallInv' /\ (exc = "none" => UNCHANGED configVars \/ Refused)
  OBVIOUS
<1>1. CASE \E vec \in Vec(MaxDepth), item \in Variable : InsertItem(vec, item)
  BY <1>1, InsertItemKeeps
<1>2. CASE \E vec \in Vec(MaxDepth) : EnsureScope(vec)
  BY <1>2, EnsureScopeKeeps
<1>3. CASE \E vec \in Vec(MaxDepth) : RemoveEntry(vec)
  BY <1>3, RemoveEntryKeeps
<1>4. CASE EmptyConfig
  BY <1>4 DEF EmptyConfig, EmptyTree, CallInv, ConfigTypeOK, TreeIsRooted, IsTree, Rooted, Path,
              Root, Refused
<1>5. CASE \E t \in Fallbacks : SetFallback(t)
  BY <1>5, FallbacksAreTrees DEF SetFallback, CallInv, ConfigTypeOK, TreeIsRooted, Refused
<1>6. CASE Catch
  BY <1>6 DEF Catch, CallInv, ConfigTypeOK, TreeIsRooted, Exception
<1>7. CASE UNCHANGED configVars
  BY <1>7 DEF configVars, CallInv, ConfigTypeOK, TreeIsRooted
<1> QED BY <1>1, <1>2, <1>3, <1>4, <1>5, <1>6, <1>7 DEF Call

LEMMA InitCallInv == ConfigInit => CallInv
BY DEF ConfigInit, CallInv, ConfigTypeOK, TreeIsRooted, IsTree, Rooted, EmptyTree, Path, Root,
       Exception

\* ConfigurationImpl without a parser: whatever is called, each entry lies in scopes
\* of the tree, and m_currScope stays the root scope.
THEOREM CallInvHolds == ConfigSpec => []CallInv
BY InitCallInv, NextCallInv, PTL DEF ConfigSpec

----------------------------------------------------------------------------
(* Results. *)

\* A call that raises an exception has changed nothing, however many scopes
\* it would have had to create on the way.
THEOREM RefusalsChangeNothing == ConfigSpec => RefusedCallChangesNothing
<1>1. CallInv /\ [Call]_configVars =>
        [exc = "none" /\ exc' # "none" => UNCHANGED <<tree, currScope, fallback>>]_configVars
  BY NextCallInv DEF Refused
<1> QED BY <1>1, CallInvHolds, PTL DEF ConfigSpec, RefusedCallChangesNothing

\* A set of bounded naturals that is not empty has a greatest element: the
\* least of the distances to the bound leads to it.
LEMMA MaxIsMember ==
  ASSUME NEW n \in Nat, NEW E \in SUBSET (0..n), E # {}
  PROVE  Max(E) \in E
<1> DEFINE T == {n - k : k \in E}
<1>1. T \subseteq Nat /\ T # {}
  <2>1. \A k \in E : n - k \in Nat
    OBVIOUS
  <2>2. T # {}
    OBVIOUS
  <2> QED BY <2>1, <2>2
<1>2. PICK x \in T : \A y \in T : ~ (<<y, x>> \in OpToRel(<, Nat))
  <2> HIDE DEF T
  <2> QED BY <1>1, WFMin, NatLessThanWellFounded
<1>3. \A y \in T : ~(y < x)
  BY <1>1, <1>2 DEF OpToRel
<1>4. PICK m \in E : x = n - m
  OBVIOUS
<1>5. ASSUME NEW k \in E PROVE m >= k
  <2>1. n - k \in T
    OBVIOUS
  <2>2. ~(n - k < n - m)
    BY <1>3, <1>4, <2>1
  <2>3. k \in Nat /\ m \in Nat
    OBVIOUS
  <2> QED BY <2>2, <2>3
<1> QED BY <1>5 DEF Max

\* The loop of lookup, in a rooted tree, returns the entry of the innermost
\* enclosing scope that has it.
LEMMA LookupUpwardsFinds ==
  ASSUME IsTree(tree), Rooted(tree), NEW scope \in Path, NEW vec \in Path, vec # Root
  PROVE  LET n == Enclosing(scope, vec)
         IN  LookupUpwards(tree, scope, vec) =
               IF n = {} THEN NoItem ELSE tree[SubSeq(scope, 1, Max(n)) \o vec]
<1> DEFINE hits == {n \in 0..Len(scope) :
                      LookupHelper(tree, SubSeq(scope, 1, n), vec) # NoItem}
           E == Enclosing(scope, vec)
<1>1. ASSUME NEW n \in 0..Len(scope)
      PROVE  LookupHelper(tree, SubSeq(scope, 1, n), vec)
               = FindItem(tree, SubSeq(scope, 1, n) \o vec)
  BY FirstNames, LookupHelperFinds
<1>2. \A p \in DOMAIN tree : FindItem(tree, p) = tree[p] /\ tree[p] # NoItem
  BY DEF IsTree, FindItem, Item, Variable, ScopeItem, NoItem
<1>3. \A p : p \notin DOMAIN tree => FindItem(tree, p) = NoItem
  BY DEF FindItem
<1>4. hits = E
  BY <1>1, <1>2, <1>3 DEF Enclosing
<1>5. LookupUpwards(tree, scope, vec) =
        IF E = {} THEN NoItem ELSE LookupHelper(tree, SubSeq(scope, 1, Max(E)), vec)
  BY <1>4 DEF LookupUpwards
<1>6. ASSUME E # {} PROVE Max(E) \in E
  <2>1. E \subseteq 0..Len(scope) /\ Len(scope) \in Nat
    BY DEF Enclosing, Path
  <2> HIDE DEF E
  <2> QED BY <1>6, <2>1, MaxIsMember
<1>7. ASSUME E # {}
      PROVE  LookupHelper(tree, SubSeq(scope, 1, Max(E)), vec)
               = tree[SubSeq(scope, 1, Max(E)) \o vec]
  BY <1>1, <1>2, <1>6, <1>7 DEF Enclosing
<1> QED BY <1>5, <1>7

\* Lookup of a name that is not rooted finds the entry of the innermost
\* enclosing scope that has it, and no other.
THEOREM InnermostWins == ConfigSpec => []InnermostIsFound
<1>1. CallInv => InnermostIsFound
  <2> SUFFICES ASSUME CallInv,
                      NEW scope \in DOMAIN tree \cup {Root}, NEW vec \in Vec(MaxDepth)
               PROVE  LET n == Enclosing(scope, vec)
                      IN  OwnLookup(tree, scope, [rooted |-> FALSE, vec |-> vec], FALSE) =
                            IF n = {} THEN NoItem
                            ELSE tree[SubSeq(scope, 1, Max(n)) \o vec]
    BY DEF InnermostIsFound
  <2>1. scope \in Path
    BY CallFacts, RootIsPath DEF IsTree
  <2>2. OwnLookup(tree, scope, [rooted |-> FALSE, vec |-> vec], FALSE)
          = LookupUpwards(tree, scope, vec)
    BY DEF OwnLookup
  <2> QED BY <2>1, <2>2, CallFacts, VecIsPath, LookupUpwardsFinds
<1> QED BY <1>1, CallInvHolds, PTL

\* A program that sees only variables sees a VariableStore, whatever it calls.
THEOREM CallsKeepAStore == ConfigSpec => ImplementsStore
<1>1. ConfigInit => Store!Init
  BY StoreInit DEF ConfigInit
<1>2. CallInv /\ CallInv' /\ [Call]_configVars => [Store!Next]_Variables
  <2> SUFFICES ASSUME CallInv, CallInv', [Call]_configVars PROVE [Store!Next]_Variables
    OBVIOUS
  <2>1. IsTree(tree) /\ IsTree(tree') /\ Rooted(tree')
    BY DEF CallInv, ConfigTypeOK, TreeIsRooted
  <2>2. CASE Call
    BY <2>1, <2>2, CallFacts, VecIsPath, CallChanges, StoreStep
  <2>3. CASE UNCHANGED configVars
    <3>1. Keeps(tree, tree')
      BY <2>3 DEF configVars, Keeps
    <3> QED BY <2>1, <3>1, StoreStep DEF StoreChange
  <2> QED BY <2>2, <2>3
<1> QED BY <1>1, <1>2, CallInvHolds, PTL DEF ConfigSpec, ImplementsStore, Store!Spec

----------------------------------------------------------------------------
(* The inductive invariant. *)

\* The activations in s are well formed; the scopes they were entered from are
\* scopes of t, each encloses the next, and all enclose the current scope.
\* A removal can only hit what the current scope encloses, hence none of them.
StackFits(s, scope, t) ==
  /\ s \in Seq(Frame)
  /\ \A i \in DOMAIN s : IsScope(t, s[i].at) /\ IsPrefix(s[i].at, scope)
  /\ \A i, j \in DOMAIN s : i <= j => IsPrefix(s[i].at, s[j].at)

IndInv ==
  /\ ConfigTypeOK
  /\ fileNameStack \in Seq(File)
  /\ CopyTypeOK
  /\ TreeIsRooted
  /\ CurrScopeLives
  /\ StackFits(stack, currScope, tree)

LEMMA IndInvImplies == IndInv => TypeOK /\ TreeIsRooted /\ ScopesLive
BY DEF IndInv, TypeOK, ScopesLive, StackFits

----------------------------------------------------------------------------
(* Stacks of activations. *)

LEMMA ActivationsInStack ==
  ASSUME NEW s \in Seq(Frame), NEW i \in DOMAIN s
  PROVE  s[i] \in Frame /\ s[i].at \in Path /\ s[i].left \in 0..MaxStmts
<1>1. s[i] \in Frame
  OBVIOUS
<1> QED BY <1>1 DEF Frame

\* Entering a block from the current scope.
LEMMA PushFits ==
  ASSUME NEW s, NEW scope \in Path, NEW t, StackFits(s, scope, t), IsScope(t, scope),
         NEW frame \in Frame, frame.at = scope
  PROVE  StackFits(Append(s, frame), scope, t)
<1> DEFINE u == Append(s, frame)
<1>1. s \in Seq(Frame) /\ Len(s) \in Nat /\ DOMAIN s = 1..Len(s)
  BY DEF StackFits
<1>2. /\ u \in Seq(Frame) /\ DOMAIN u = 1..(Len(s) + 1)
      /\ \A i \in DOMAIN s : u[i] = s[i]
      /\ u[Len(s) + 1] = frame
  BY <1>1
<1>3. IsPrefix(scope, scope)
  BY DEF IsPrefix, Path
<1> HIDE DEF u
<1>4. \A i \in DOMAIN u : i \in DOMAIN s \/ i = Len(s) + 1
  BY <1>1, <1>2
<1>5. \A i \in DOMAIN u : IsScope(t, u[i].at) /\ IsPrefix(u[i].at, scope)
  BY <1>2, <1>3, <1>4 DEF StackFits
<1>6. ASSUME NEW i \in DOMAIN u, NEW j \in DOMAIN u, i <= j
      PROVE  IsPrefix(u[i].at, u[j].at)
  <2>1. CASE j \in DOMAIN s
    <3>1. i \in DOMAIN s
      BY <1>1, <1>2, <1>6, <2>1
    <3> QED BY <2>1, <3>1, <1>2, <1>6 DEF StackFits
  <2>2. CASE j = Len(s) + 1
    BY <2>2, <1>2, <1>5
  <2> QED BY <2>1, <2>2, <1>4
<1> QED BY <1>2, <1>5, <1>6 DEF StackFits, u

\* Leaving a block: the scope it was entered from, or the current one, is
\* enclosed by those of the blocks around it.
LEMMA PopFits ==
  ASSUME NEW s, NEW scope \in Path, NEW t, StackFits(s, scope, t), s # << >>
  PROVE  /\ StackFits(Front(s), scope, t)
         /\ StackFits(Front(s), Last(s).at, t)
         /\ Last(s) \in Frame /\ Last(s).at \in Path
         /\ IsScope(t, Last(s).at)
<1> DEFINE u == Front(s)
<1>1. s \in Seq(Frame) /\ Len(s) \in Nat /\ Len(s) # 0 /\ DOMAIN s = 1..Len(s)
  BY DEF StackFits
<1>2. /\ u \in Seq(Frame) /\ DOMAIN u = 1..(Len(s) - 1)
      /\ \A i \in DOMAIN u : i \in DOMAIN s /\ i <= Len(s) /\ u[i] = s[i]
  BY <1>1 DEF Front
<1>3. Len(s) \in DOMAIN s /\ Last(s) = s[Len(s)]
  BY <1>1 DEF Last
<1> HIDE DEF u
<1>4. \A i \in DOMAIN u : IsScope(t, u[i].at) /\ IsPrefix(u[i].at, scope)
  BY <1>2 DEF StackFits
<1>5. \A i \in DOMAIN u : IsPrefix(u[i].at, Last(s).at)
  BY <1>2, <1>3 DEF StackFits
<1>6. \A i, j \in DOMAIN u : i <= j => IsPrefix(u[i].at, u[j].at)
  BY <1>2 DEF StackFits
<1>7. Last(s) \in Frame /\ Last(s).at \in Path /\ IsScope(t, Last(s).at)
  <2>1. s[Len(s)] \in Frame /\ s[Len(s)].at \in Path
    BY <1>1, <1>3, ActivationsInStack
  <2> QED BY <1>3, <2>1 DEF StackFits
<1> QED BY <1>2, <1>4, <1>5, <1>6, <1>7 DEF StackFits, u

\* Changing an activation, but not the scope it was entered from.
LEMMA ChangeFits ==
  ASSUME NEW s, NEW scope \in Path, NEW t, StackFits(s, scope, t),
         NEW k \in DOMAIN s, NEW frame \in Frame, frame.at = s[k].at
  PROVE  StackFits([s EXCEPT ![k] = frame], scope, t)
<1> DEFINE u == [s EXCEPT ![k] = frame]
<1>1. u \in Seq(Frame) /\ DOMAIN u = DOMAIN s
  BY DEF StackFits
<1>2. \A i \in DOMAIN s : u[i].at = s[i].at
  BY DEF StackFits
<1> HIDE DEF u
<1> QED BY <1>1, <1>2 DEF StackFits, u

\* The current scope moves inwards, and the tree keeps its scopes.
LEMMA GrowFits ==
  ASSUME NEW s, NEW scope \in Path, NEW t, StackFits(s, scope, t),
         NEW inner \in Path, IsPrefix(scope, inner),
         NEW u, \A p \in Path : IsScope(t, p) => IsScope(u, p)
  PROVE  StackFits(s, inner, u)
<1>1. \A i \in DOMAIN s : s[i].at \in Path
  BY ActivationsInStack DEF StackFits
<1>2. \A i \in DOMAIN s : IsPrefix(s[i].at, inner)
  BY <1>1, PrefixIsTransitive DEF StackFits
<1> QED BY <1>1, <1>2 DEF StackFits

\* An entry that no scope around the current one lies below is removed.
LEMMA RemoveFits ==
  ASSUME NEW s, NEW scope \in Path, NEW t, IsTree(t), Rooted(t), StackFits(s, scope, t),
         NEW p \in Path, \A q \in Path : IsPrefix(q, scope) => ~IsPrefix(p, q)
  PROVE  StackFits(s, scope, RemoveItem(t, p))
<1>1. \A i \in DOMAIN s : s[i].at \in Path /\ ~IsPrefix(p, s[i].at)
  BY ActivationsInStack DEF StackFits
<1>2. \A i \in DOMAIN s : IsScope(RemoveItem(t, p), s[i].at)
  BY <1>1, RemoveItemKeepsTree DEF StackFits
<1> QED BY <1>2 DEF StackFits

----------------------------------------------------------------------------
(* Parts that the steps share. *)

LEMMA ScopedNames ==
  /\ \A vec \in Vec(MaxDepth) : vec \in Path /\ vec # Root
  /\ Ident \subseteq Vec(MaxDepth)
<1>1. ASSUME NEW m \in 1..MaxDepth, NEW vec \in [1..m -> Name]
      PROVE  vec \in Path /\ vec # Root
  <2>1. m \in Nat /\ m # 0
    BY DepthBound
  <2>2. vec \in Seq(Name) /\ Len(vec) = m
    BY <2>1
  <2> QED BY <2>1, <2>2 DEF Path, Root
<1>2. \A m \in 1..MaxDepth : [1..m -> Spelled] \subseteq [1..m -> Name]
  BY SpelledNames
<1> QED BY <1>1, <1>2 DEF Vec, Ident

LEMMA Exceptions ==
  /\ Error \subseteq Exception
  /\ Terminated => exc' \in Exception
BY DEF Error, Exception, Terminated

LEMMA NewActivation ==
  ASSUME currScope \in Path, NEW kind \in {"file", "scope", "if", "clause", "search"},
         NEW left \in 0..MaxStmts
  PROVE  /\ Activation(kind, left) \in Frame
         /\ Activation(kind, left).at = currScope
         /\ \A b \in BOOLEAN : [Activation(kind, left) EXCEPT !.taken = b] \in Frame
         /\ \A b : [Activation(kind, left) EXCEPT !.taken = b].at = currScope
         /\ \A f \in File : [Activation(kind, left) EXCEPT !.file = f] \in Frame
         /\ \A f : [Activation(kind, left) EXCEPT !.file = f].at = currScope
BY DEF Activation, Frame

LEMMA TopOfStack ==
  ASSUME IndInv, stack # << >>
  PROVE  /\ stack \in Seq(Frame) /\ Len(stack) \in DOMAIN stack
         /\ Top = stack[Len(stack)] /\ Top \in Frame
         /\ Top.at \in Path /\ Top.left \in 0..MaxStmts
<1>1. stack \in Seq(Frame)
  BY DEF IndInv, StackFits
<1>2. Len(stack) \in DOMAIN stack
  BY <1>1
<1> QED BY <1>1, <1>2, ActivationsInStack DEF Top, Last

\* The innermost block has had one statement more.
LEMMA AdvancedFits ==
  ASSUME IndInv, stack # << >>, Top.left > 0
  PROVE  /\ StackFits(Advanced, currScope, tree)
         /\ Advanced # << >> /\ Len(Advanced) = Len(stack)
         /\ Top.left - 1 \in 0..MaxStmts
<1> DEFINE frame == [Top EXCEPT !.left = Top.left - 1]
<1>1. Top.left - 1 \in 0..MaxStmts
  BY TopOfStack, ParserBounds
<1>2. frame \in Frame /\ frame.at = stack[Len(stack)].at
  BY <1>1, TopOfStack DEF Frame
<1>3. Advanced = [stack EXCEPT ![Len(stack)] = frame]
  BY TopOfStack DEF Advanced
<1>4. currScope \in Path /\ StackFits(stack, currScope, tree)
  BY DEF IndInv, ConfigTypeOK
<1>5. StackFits(Advanced, currScope, tree)
  BY <1>2, <1>3, <1>4, ChangeFits, TopOfStack
<1>6. Len(Advanced) = Len(stack) /\ Advanced # << >>
  BY TopOfStack DEF Advanced
<1> QED BY <1>1, <1>5, <1>6

\* Scopes of a tree that has grown.
LEMMA GrownKeepsScopes ==
  ASSUME NEW t, NEW u, NEW scope, Grown(t, u, scope)
  PROVE  \A p \in Path : IsScope(t, p) => IsScope(u, p)
BY DEF Grown, IsScope

\* What a step may do to the tree.
TreeChange ==
  \/ UNCHANGED tree
  \/ Grown(tree, tree', currScope)
  \/ \E vec \in Path \ {Root} : tree' = RemoveItem(tree, currScope \o vec)
  \/ tree' = EmptyTree

\* A step that lets the tree grow below the current scope, and one that leaves
\* the tree as it is.
LEMMA GrowingStep ==
  ASSUME IndInv, Grown(tree, tree', currScope), UNCHANGED <<fallback, fileNameStack>>,
         currScope' \in Path, IsPrefix(currScope, currScope'), IsScope(tree', currScope'),
         StackFits(stack', currScope', tree'), exc' \in Exception, CopyTypeOK'
  PROVE  IndInv' /\ TreeChange
BY DEF IndInv, ConfigTypeOK, Grown, TreeIsRooted, CurrScopeLives, TreeChange

LEMMA QuietStep ==
  ASSUME IndInv, UNCHANGED <<tree, currScope, fallback>>,
         StackFits(stack', currScope, tree), fileNameStack' \in Seq(File),
         exc' \in Exception, CopyTypeOK'
  PROVE  IndInv' /\ TreeChange
BY DEF IndInv, ConfigTypeOK, TreeIsRooted, CurrScopeLives, TreeChange

LEMMA SameCopy ==
  ASSUME IndInv, UNCHANGED copy
  PROVE  CopyTypeOK'
BY DEF IndInv, CopyTypeOK

\* What is known of the tree and the current scope.
LEMMA TreeFacts ==
  ASSUME IndInv
  PROVE  /\ IsTree(tree) /\ Rooted(tree) /\ IsTree(fallback)
         /\ currScope \in Path /\ IsScope(tree, currScope)
         /\ exc \in Exception /\ fileNameStack \in Seq(File)
         /\ StackFits(stack, currScope, tree)
         /\ IsPrefix(currScope, currScope)
<1>1. currScope \in Path
  BY DEF IndInv, ConfigTypeOK
<1>2. IsPrefix(currScope, currScope)
  BY <1>1 DEF IsPrefix, Path
<1> QED BY <1>1, <1>2 DEF IndInv, ConfigTypeOK, TreeIsRooted, CurrScopeLives

----------------------------------------------------------------------------
(* Statements that assign, open and remove. *)

LEMMA AssignKeeps ==
  ASSUME IndInv, NEW vec \in Ident, NEW item \in Variable, NEW op, Assign(vec, item, op)
  PROVE  IndInv' /\ TreeChange
<1> DEFINE result == Insert(tree, currScope, vec, item)
<1>1. vec \in Path /\ vec # Root
  BY ScopedNames
<1>2. StackFits(stack', currScope, tree) /\ UNCHANGED <<currScope, fallback, fileNameStack, copy>>
  BY AdvancedFits DEF Assign, AtStmt, InStmtList
<1>3. \/ tree' = tree /\ Terminated
      \/ tree' = result.tree /\ exc' \in Exception
  BY Exceptions DEF Assign, Exception
<1>4. CopyTypeOK'
  BY <1>2, SameCopy
<1>5. CASE tree' = tree /\ Terminated
  <2>1. fileNameStack' \in Seq(File)
    BY <1>2, TreeFacts
  <2> QED BY <1>2, <1>4, <1>5, <2>1, Exceptions, QuietStep
<1>6. CASE tree' = result.tree /\ exc' \in Exception
  <2>1. Grown(tree, tree', currScope)
    BY <1>1, <1>6, TreeFacts, InsertGrows
  <2>2. IsScope(tree', currScope) /\ StackFits(stack', currScope, tree')
    BY <1>2, <2>1, TreeFacts, GrownKeepsScopes, GrowFits
  <2> QED BY <1>2, <1>4, <1>6, <2>1, <2>2, TreeFacts, GrowingStep
<1> QED BY <1>3, <1>5, <1>6

LEMMA AssignFromKeeps ==
  ASSUME IndInv, NEW vec \in Ident, NEW ref, NEW kind, NEW op, AssignFrom(vec, ref, kind, op)
  PROVE  IndInv' /\ TreeChange
<1> DEFINE item == Operand(ref, kind)
<1>1. CASE item \in Variable /\ kind \in {"First", item.type}
  <2>1. Assign(vec, item, op)
    BY <1>1 DEF AssignFrom
  <2> QED BY <1>1, <2>1, AssignKeeps
<1>2. CASE ~(item \in Variable /\ kind \in {"First", item.type})
  <2>1. /\ stack' = Advanced /\ exc' = "config" /\ AtStmt
        /\ UNCHANGED <<tree, currScope, fallback, fileNameStack, copy>>
    BY <1>2 DEF AssignFrom
  <2>2. StackFits(stack', currScope, tree)
    BY <2>1, AdvancedFits DEF AtStmt, InStmtList
  <2>3. CopyTypeOK' /\ fileNameStack' \in Seq(File) /\ exc' \in Exception
    BY <2>1, SameCopy, TreeFacts DEF Exception
  <2> QED BY <2>1, <2>2, <2>3, QuietStep
<1> QED BY <1>1, <1>2

LEMMA OpenScopeKeeps ==
  ASSUME IndInv, NEW vec \in Ident, OpenScope(vec)
  PROVE  IndInv' /\ TreeChange
<1> DEFINE result == EnsureScopeExists(tree, currScope, vec)
           frame == Activation("scope", Top.left - 1)
           inner == currScope \o vec
<1>1. vec \in Path /\ vec # Root
  BY ScopedNames
<1>2. /\ tree' = result.tree /\ UNCHANGED <<fallback, fileNameStack, copy>>
      /\ stack # << >> /\ Top.left > 0
  BY DEF OpenScope, AtStmt, InStmtList
<1>3. Grown(tree, tree', currScope)
  BY <1>1, <1>2, TreeFacts, EnsureScopeExistsGrows
<1>4. \A p \in Path : IsScope(tree, p) => IsScope(tree', p)
  BY <1>3, GrownKeepsScopes
<1>5. CopyTypeOK'
  BY <1>2, SameCopy
<1>6. StackFits(Advanced, currScope, tree')
  BY <1>2, <1>4, AdvancedFits, TreeFacts, GrowFits
<1>7. CASE result.ok
  <2>1. currScope' = inner /\ stack' = Append(Advanced, frame) /\ exc' = "none"
    BY <1>7 DEF OpenScope
  <2>2. inner \in Path /\ IsPrefix(currScope, inner)
    BY <1>1, TreeFacts, BelowIsLonger DEF IsStrictPrefix
  <2>3. IsScope(tree', inner)
    BY <1>1, <1>2, <1>7, TreeFacts, EnsureScopeExistsKeepsTree
  <2>4. frame \in Frame /\ frame.at = currScope
    BY <1>2, AdvancedFits, TreeFacts, NewActivation
  <2>5. StackFits(stack', currScope, tree')
    BY <1>4, <1>6, <2>1, <2>4, TreeFacts, PushFits
  <2>6. StackFits(stack', inner, tree')
    BY <2>2, <2>5, TreeFacts, GrowFits
  <2> QED BY <1>2, <1>3, <1>5, <2>1, <2>2, <2>3, <2>6, GrowingStep DEF Exception
<1>8. CASE ~result.ok
  <2>1. exc' = "config" /\ stack' = Advanced /\ UNCHANGED currScope
    BY <1>8 DEF OpenScope
  <2> QED BY <1>2, <1>3, <1>4, <1>5, <1>6, <2>1, TreeFacts, GrowingStep DEF Exception
<1> QED BY <1>7, <1>8

\* A removal below the current scope.
LEMMA RemovingStep ==
  ASSUME IndInv, NEW vec \in Path, vec # Root,
         tree' = RemoveItem(tree, currScope \o vec),
         UNCHANGED <<currScope, fallback>>, fileNameStack' \in Seq(File),
         StackFits(stack', currScope, tree), exc' \in Exception, CopyTypeOK'
  PROVE  IndInv' /\ TreeChange
<1> DEFINE p == currScope \o vec
<1>1. p \in Path /\ \A q \in Path : IsPrefix(q, currScope) => ~IsPrefix(p, q)
  BY TreeFacts, BelowIsLonger
<1>2. /\ IsTree(tree') /\ Rooted(tree')
      /\ \A q \in Path : IsScope(tree, q) /\ ~IsPrefix(p, q) => IsScope(tree', q)
  BY <1>1, TreeFacts, RemoveItemKeepsTree
<1>3. IsScope(tree', currScope)
  BY <1>1, <1>2, TreeFacts
<1>4. StackFits(stack', currScope, tree')
  BY <1>1, TreeFacts, RemoveFits
<1> QED BY <1>2, <1>3, <1>4 DEF IndInv, ConfigTypeOK, TreeIsRooted, CurrScopeLives, TreeChange

LEMMA RemoveStmtKeeps ==
  ASSUME IndInv, NEW name \in Spelled, RemoveStmt(name)
  PROVE  IndInv' /\ TreeChange
<1>1. /\ stack' = Advanced /\ stack # << >> /\ Top.left > 0
      /\ UNCHANGED <<currScope, fallback, fileNameStack, copy>>
  BY DEF RemoveStmt, AtStmt, InStmtList
<1>2. /\ StackFits(stack', currScope, tree) /\ fileNameStack' \in Seq(File) /\ CopyTypeOK'
  BY <1>1, AdvancedFits, TreeFacts, SameCopy
<1>3. exc' \in Exception
  BY Exceptions DEF RemoveStmt, Exception
<1>4. CASE FindItem(tree, Append(currScope, name)) # NoItem
  <2>1. tree' = RemoveItem(tree, Append(currScope, name))
    BY <1>4 DEF RemoveStmt
  <2>2. <<name>> \in Path /\ <<name>> # Root
    BY SpelledNames DEF Path, Root
  <2>3. Append(currScope, name) = currScope \o <<name>>
    BY TreeFacts, SpelledNames DEF Path
  <2> QED BY <1>1, <1>2, <1>3, <2>1, <2>2, <2>3, RemovingStep
<1>5. CASE ~(FindItem(tree, Append(currScope, name)) # NoItem)
  <2>1. UNCHANGED tree
    BY <1>5 DEF RemoveStmt
  <2> QED BY <1>1, <1>2, <1>3, <2>1, QuietStep
<1> QED BY <1>4, <1>5

----------------------------------------------------------------------------
(* Blocks. *)

LEMMA CloseScopeKeeps ==
  ASSUME IndInv, CloseScope
  PROVE  IndInv' /\ TreeChange
<1>1. /\ stack # << >> /\ currScope' = Top.at /\ stack' = Below
      /\ UNCHANGED <<tree, fallback, exc, fileNameStack, copy>>
  BY DEF CloseScope, InStmtList
<1>2. StackFits(stack', Top.at, tree) /\ Top.at \in Path /\ IsScope(tree, Top.at)
  BY <1>1, TreeFacts, PopFits DEF Top, Below
<1>3. CopyTypeOK'
  BY <1>1, SameCopy
<1> QED BY <1>1, <1>2, <1>3 DEF IndInv, ConfigTypeOK, TreeIsRooted, CurrScopeLives, TreeChange

\* Leaving a block without a change of the current scope.
LEMMA LeavingStep ==
  ASSUME IndInv, stack # << >>, stack' = Below, UNCHANGED <<tree, currScope, fallback, copy>>,
         fileNameStack' \in Seq(File), exc' \in Exception
  PROVE  IndInv' /\ TreeChange
<1>1. StackFits(stack', currScope, tree)
  BY TreeFacts, PopFits DEF Below
<1>2. CopyTypeOK'
  BY SameCopy
<1> QED BY <1>1, <1>2, QuietStep

LEMMA LeavingKeeps ==
  ASSUME IndInv, CloseClause \/ EndIf
  PROVE  IndInv' /\ TreeChange
<1>1. /\ stack # << >> /\ stack' = Below
      /\ UNCHANGED <<tree, currScope, fallback, exc, fileNameStack, copy>>
  BY DEF CloseClause, EndIf, InStmtList, BetweenClauses
<1> QED BY <1>1, TreeFacts, LeavingStep

LEMMA ClauseFits ==
  ASSUME IndInv, NEW st, StackFits(st, currScope, tree), st # << >>, NEW run \in BOOLEAN
  PROVE  StackFits(Clause(st, run), currScope, tree)
<1> DEFINE k == Len(st)
           frame == [st[k] EXCEPT !.ran = @ + 1]
           inner == Activation("clause", st[k].left)
<1>1. st \in Seq(Frame) /\ k \in DOMAIN st
  BY DEF StackFits
<1>2. st[k] \in Frame /\ st[k].left \in 0..MaxStmts
  BY <1>1, ActivationsInStack
<1>3. frame \in Frame /\ frame.at = st[k].at
  BY <1>2 DEF Frame
<1>4. StackFits([st EXCEPT ![k] = frame], currScope, tree)
  BY <1>1, <1>3, TreeFacts, ChangeFits
<1>5. inner \in Frame /\ inner.at = currScope
  BY <1>2, TreeFacts, NewActivation
<1>6. StackFits(Append([st EXCEPT ![k] = frame], inner), currScope, tree)
  BY <1>4, <1>5, TreeFacts, PushFits
<1>7. [st EXCEPT ![Len(st)].ran = @ + 1] = [st EXCEPT ![k] = frame]
  OBVIOUS
<1> QED BY <1>6, <1>7 DEF Clause

\* A step that enters, or skips, a clause.
LEMMA ClauseStep ==
  ASSUME IndInv, NEW st, StackFits(st, currScope, tree), st # << >>, NEW run \in BOOLEAN,
         stack' = Clause(st, run),
         UNCHANGED <<tree, currScope, fallback, exc, fileNameStack, copy>>
  PROVE  IndInv' /\ TreeChange
<1>1. StackFits(stack', currScope, tree)
  BY ClauseFits
<1>2. CopyTypeOK'
  BY SameCopy
<1> QED BY <1>1, <1>2, TreeFacts, QuietStep

LEMMA OpenIfKeeps ==
  ASSUME IndInv, NEW condition \in BOOLEAN, OpenIf(condition)
  PROVE  IndInv' /\ TreeChange
<1> DEFINE frame == [Activation("if", Top.left - 1) EXCEPT !.taken = condition]
           st == Append(Advanced, frame)
<1>1. /\ stack # << >> /\ Top.left > 0 /\ stack' = Clause(st, condition)
      /\ UNCHANGED <<tree, currScope, fallback, exc, fileNameStack, copy>>
  BY DEF OpenIf, AtStmt, InStmtList
<1>2. frame \in Frame /\ frame.at = currScope
  BY <1>1, AdvancedFits, TreeFacts, NewActivation
<1>3. StackFits(st, currScope, tree)
  BY <1>1, <1>2, AdvancedFits, TreeFacts, PushFits
<1>4. st # << >>
  <2>1. Advanced \in Seq(Frame)
    BY <1>1, AdvancedFits DEF StackFits
  <2> QED BY <2>1
<1> QED BY <1>1, <1>3, <1>4, ClauseStep

LEMMA ElseIfKeeps ==
  ASSUME IndInv, NEW condition \in BOOLEAN, ElseIf(condition)
  PROVE  IndInv' /\ TreeChange
<1> DEFINE k == Len(stack)
           frame == [Advanced[k] EXCEPT !.taken = @ \/ condition]
           st == [Advanced EXCEPT ![k] = frame]
<1>1. /\ stack # << >> /\ Top.left > 0
      /\ stack' = Clause([Advanced EXCEPT ![Len(stack)].taken = @ \/ condition],
                         ~Top.taken /\ condition)
      /\ UNCHANGED <<tree, currScope, fallback, exc, fileNameStack, copy>>
  BY DEF ElseIf, BetweenClauses
<1>2. StackFits(Advanced, currScope, tree) /\ Len(Advanced) = k
  BY <1>1, AdvancedFits
<1>3. Advanced \in Seq(Frame) /\ k \in DOMAIN Advanced /\ Advanced[k] \in Frame
  <2>1. Advanced \in Seq(Frame) /\ stack \in Seq(Frame) /\ k \in DOMAIN stack
    BY <1>1, <1>2, TopOfStack DEF StackFits
  <2>2. k \in DOMAIN Advanced
    BY <1>2, <2>1
  <2> QED BY <2>1, <2>2, ActivationsInStack
<1>4. frame \in Frame /\ frame.at = Advanced[k].at
  BY <1>3 DEF Frame
<1>5. StackFits(st, currScope, tree)
  BY <1>2, <1>3, <1>4, TreeFacts, ChangeFits
<1>6. st # << >>
  BY <1>2, <1>3
<1>7. stack' = Clause(st, ~Top.taken /\ condition)
  BY <1>1
<1>8. (~Top.taken /\ condition) \in BOOLEAN
  OBVIOUS
<1> QED BY <1>1, <1>5, <1>6, <1>7, <1>8, ClauseStep

LEMMA ElseKeeps ==
  ASSUME IndInv, Else
  PROVE  IndInv' /\ TreeChange
<1> DEFINE k == Len(stack)
           frame == [stack[k] EXCEPT !.left = 0]
           st == [stack EXCEPT ![k] = frame]
<1>1. /\ stack # << >> /\ stack' = Clause([stack EXCEPT ![Len(stack)].left = 0], ~Top.taken)
      /\ UNCHANGED <<tree, currScope, fallback, exc, fileNameStack, copy>>
  BY DEF Else, BetweenClauses
<1>2. stack \in Seq(Frame) /\ k \in DOMAIN stack /\ stack[k] \in Frame
  BY <1>1, TopOfStack
<1>3. frame \in Frame /\ frame.at = stack[k].at
  <2>1. 0 \in 0..MaxStmts
    BY ParserBounds
  <2> QED BY <1>2, <2>1 DEF Frame
<1>4. StackFits(st, currScope, tree)
  BY <1>2, <1>3, TreeFacts, ChangeFits
<1>5. st # << >>
  BY <1>2
<1>6. stack' = Clause(st, ~Top.taken)
  BY <1>1
<1>7. (~Top.taken) \in BOOLEAN
  OBVIOUS
<1> QED BY <1>1, <1>4, <1>5, <1>6, <1>7, ClauseStep

LEMMA StmtErrorKeeps ==
  ASSUME IndInv, StmtError
  PROVE  IndInv' /\ TreeChange
<1>1. exc' \in Exception /\ UNCHANGED <<tree, currScope, fallback, fileNameStack, stack, copy>>
  BY Exceptions DEF StmtError
<1>2. CopyTypeOK'
  BY <1>1, SameCopy
<1> QED BY <1>1, <1>2, TreeFacts, QuietStep

LEMMA SearchKeeps ==
  ASSUME IndInv, SearchForever \/ SearchOn
  PROVE  IndInv' /\ TreeChange
<1> DEFINE frame == Activation("search", 0)
<1>1. CASE SearchForever
  <2>1. /\ stack' = Append(stack, frame) /\ stack # << >>
        /\ UNCHANGED <<tree, currScope, fallback, exc, fileNameStack, copy>>
    BY <1>1 DEF SearchForever, AtStmt, InStmtList, BetweenClauses
  <2>2. frame \in Frame /\ frame.at = currScope
    BY TreeFacts, NewActivation, ParserBounds
  <2>3. StackFits(stack', currScope, tree)
    <3>1. StackFits(stack, currScope, tree)
      BY DEF IndInv
    <3> HIDE DEF frame
    <3> QED BY <2>1, <2>2, <3>1, TreeFacts, PushFits
  <2>4. CopyTypeOK'
    BY <2>1, SameCopy
  <2> QED BY <2>1, <2>3, <2>4, TreeFacts, QuietStep
<1>2. CASE SearchOn
  <2>1. UNCHANGED <<tree, currScope, fallback, exc, fileNameStack, stack, copy>>
    BY <1>2 DEF SearchOn, vars
  <2>2. CopyTypeOK'
    BY <2>1, SameCopy
  <2> QED BY <2>1, <2>2, TreeFacts, QuietStep
<1> QED BY <1>1, <1>2

----------------------------------------------------------------------------
(* @copyFrom. *)

LEMMA ListingIsTree ==
  ASSUME IndInv, NEW from
  PROVE  /\ IsTree(Listing(from))
         /\ \A p \in DOMAIN Listing(from) : IsStrictPrefix(from.vec, p)
<1>1. IsTree(CopySource(from))
  BY TreeFacts DEF CopySource
<1> QED BY <1>1 DEF Listing, IsTree

LEMMA StartCopyKeeps ==
  ASSUME IndInv, NEW from \in Ref(Vec(MaxDepth)), NEW ifExists, StartCopy(from, ifExists)
  PROVE  IndInv' /\ TreeChange
<1> DEFINE item == Lookup(tree, fallback, currScope, from, TRUE)
           started == [from |-> from, names |-> Listing(from),
                       todo |-> DOMAIN Listing(from), last |-> from.vec]
<1>1. /\ stack # << >> /\ Top.left > 0 /\ stack' = Advanced
      /\ UNCHANGED <<tree, currScope, fallback, fileNameStack>>
  BY DEF StartCopy, AtStmt, InStmtList
<1>2. StackFits(stack', currScope, tree)
  BY <1>1, AdvancedFits
<1>3. exc' \in Exception /\ (UNCHANGED copy \/ copy' = started)
  <2>1. CASE CopiesFromOwnOrParent(from)
    BY <2>1 DEF StartCopy, Exception
  <2>2. CASE ~CopiesFromOwnOrParent(from) /\ item = NoItem
    <3>1. (IF ifExists THEN Terminated ELSE exc' = "config") /\ UNCHANGED copy
      BY <2>2 DEF StartCopy
    <3> QED BY <3>1, Exceptions DEF Exception
  <2>3. CASE ~CopiesFromOwnOrParent(from) /\ item # NoItem /\ item.type # "Scope"
    BY <2>3 DEF StartCopy, Exception
  <2>4. CASE /\ ~CopiesFromOwnOrParent(from) /\ item # NoItem
             /\ ~(item # NoItem /\ item.type # "Scope")
    BY <2>4 DEF StartCopy, Exception
  <2> QED BY <2>1, <2>2, <2>3, <2>4
<1>4. from \in Reference /\ from.vec \in Path
  BY ScopedNames DEF Ref, Reference
<1>5. CASE UNCHANGED copy
  BY <1>1, <1>2, <1>3, <1>5, SameCopy, TreeFacts, QuietStep
<1>6. CASE copy' = started
  <2>1. CopyTypeOK'
    BY <1>4, <1>6, ListingIsTree DEF CopyTypeOK
  <2> QED BY <1>1, <1>2, <1>3, <2>1, TreeFacts, QuietStep
<1> QED BY <1>3, <1>5, <1>6

\* The name under which an entry is copied is never empty.
LEMMA NewNameIsPath ==
  ASSUME NEW from \in Reference, NEW p \in Path, IsStrictPrefix(from.vec, p)
  PROVE  NewName(from, p) \in Path /\ NewName(from, p) # Root
<1> DEFINE rest == SubSeq(p, Len(from.vec) + 1, Len(p))
<1>1. from.vec \in Path
  BY DEF Reference
<1>2. rest \in Path /\ Len(rest) > 0
  <2>1. Len(from.vec) < Len(p) /\ rest \in Path /\ Len(rest) = Len(p) - Len(from.vec)
    BY <1>1, PathFromParts
  <2>2. Len(from.vec) \in Nat /\ Len(p) \in Nat
    BY <1>1 DEF Path
  <2> HIDE DEF rest
  <2> QED BY <2>1, <2>2
<1> HIDE DEF rest
<1>3. Head(rest) \in Name /\ Tail(rest) \in Path
  BY <1>2, HeadTailProperties DEF Path
<1>4. Chop[Head(rest)] \in Name
  BY <1>3, ChopGivesNames
<1>5. <<Chop[Head(rest)]>> \o Tail(rest) \in Path /\ <<Chop[Head(rest)]>> \o Tail(rest) # Root
  <2>1. <<Chop[Head(rest)]>> \in Seq(Name) /\ Len(<<Chop[Head(rest)]>>) = 1
    BY <1>4
  <2> QED BY <1>3, <2>1 DEF Path, Root
<1>6. NewName(from, p) = IF from.rooted THEN <<Chop[Head(rest)]>> \o Tail(rest) ELSE rest
  BY DEF NewName, rest
<1> QED BY <1>2, <1>5, <1>6 DEF Root

LEMMA CopyItemKeeps ==
  ASSUME IndInv, NEW p \in copy.todo, CopyItem(p)
  PROVE  IndInv' /\ TreeChange /\ DOMAIN tree \subseteq DOMAIN tree'
<1> DEFINE item == Lookup(tree, fallback, currScope, [rooted |-> FALSE, vec |-> p], TRUE)
           newName == NewName(copy.from, p)
           result == IF item.type = "Scope"
                     THEN EnsureScopeExists(tree, currScope, newName)
                     ELSE Insert(tree, currScope, newName, item)
<1>1. /\ copy # NoCopy /\ UNCHANGED <<currScope, fallback, fileNameStack, stack>>
  BY DEF CopyItem
<1>2. /\ copy.from \in Reference /\ IsTree(copy.names)
      /\ p \in DOMAIN copy.names /\ IsStrictPrefix(copy.from.vec, p)
  BY <1>1 DEF IndInv, CopyTypeOK
<1>3. p \in Path
  BY <1>2 DEF IsTree
<1>4. newName \in Path /\ newName # Root
  BY <1>2, <1>3, NewNameIsPath
<1>5. item \in Item \cup {NoItem}
  BY TreeFacts, LookupReturnsItem
<1>6. CASE item = NoItem
  <2>1. exc' = "foreign" /\ copy' = NoCopy /\ UNCHANGED tree
    BY <1>6 DEF CopyItem
  <2> QED BY <1>1, <2>1, TreeFacts, QuietStep DEF CopyTypeOK, Exception
<1>7. CASE item # NoItem
  <2>1. /\ tree' = result.tree
        /\ \/ exc' = "none" /\ copy' = [copy EXCEPT !.todo = @ \ {p}, !.last = p]
           \/ exc' = "config" /\ copy' = NoCopy
    BY <1>7 DEF CopyItem
  <2>2. Grown(tree, tree', currScope)
    <3>1. CASE item.type = "Scope"
      BY <1>4, <2>1, <3>1, TreeFacts, EnsureScopeExistsGrows
    <3>2. CASE item.type # "Scope"
      <4>1. \A i \in Item \cup {NoItem} : i # NoItem /\ i.type # "Scope" => i \in Variable
        BY DEF Item, ScopeItem
      <4>2. item \in Variable
        BY <1>5, <1>7, <3>2, <4>1
      <4> QED BY <1>4, <2>1, <3>2, <4>2, TreeFacts, InsertGrows
    <3> QED BY <3>1, <3>2
  <2>3. CopyTypeOK'
    <3>1. CASE copy' = NoCopy
      BY <3>1 DEF CopyTypeOK
    <3>2. CASE copy' = [copy EXCEPT !.todo = @ \ {p}, !.last = p]
      <4>1. /\ CopyTypeOK
            /\ copy'.from = copy.from /\ copy'.names = copy.names
            /\ copy'.todo \subseteq copy.todo /\ copy'.last = p
        <5>1. CopyTypeOK
          BY DEF IndInv
        <5>2. copy'.from = copy.from /\ copy'.names = copy.names
          BY <3>2
        <5>3. copy'.todo \subseteq copy.todo
          BY <3>2
        <5>4. copy'.last = p
          BY <3>2
        <5> QED BY <5>1, <5>2, <5>3, <5>4
      <4> QED BY <1>1, <1>3, <4>1 DEF CopyTypeOK
    <3> QED BY <2>1, <3>1, <3>2
  <2>4. IsScope(tree', currScope) /\ StackFits(stack', currScope, tree')
    BY <1>1, <2>2, TreeFacts, GrownKeepsScopes, GrowFits
  <2> QED BY <1>1, <2>1, <2>2, <2>3, <2>4, TreeFacts, GrowingStep DEF Exception, Grown
<1> QED BY <1>6, <1>7

LEMMA EndCopyKeeps ==
  ASSUME IndInv, EndCopy
  PROVE  IndInv' /\ TreeChange
<1>1. /\ copy' = NoCopy /\ exc' \in Exception
      /\ UNCHANGED <<tree, currScope, fallback, fileNameStack, stack>>
  BY Exceptions DEF EndCopy
<1>2. CopyTypeOK'
  BY <1>1 DEF CopyTypeOK
<1> QED BY <1>1, <1>2, TreeFacts, QuietStep

----------------------------------------------------------------------------
(* Files, and the way of an exception. *)

LEMMA OpenFileKeeps ==
  ASSUME IndInv, NEW f \in File, NEW ifExists, NEW under, StackFits(under, currScope, tree),
         OpenFile(f, ifExists, under), UNCHANGED <<tree, currScope, fallback, copy>>
  PROVE  IndInv' /\ TreeChange
<1>1. CopyTypeOK'
  BY SameCopy
<1>2. exc' \in Exception
  BY Exceptions DEF OpenFile, Exception
<1>3. CASE stack' = under /\ UNCHANGED fileNameStack
  BY <1>1, <1>2, <1>3, TreeFacts, QuietStep
<1>4. CASE /\ fileNameStack' = Append(fileNameStack, f)
           /\ stack' = Append(under, [Activation("file", MaxStmts) EXCEPT !.file = f])
  <2>1. fileNameStack' \in Seq(File)
    BY <1>4, TreeFacts
  <2>2. StackFits(stack', currScope, tree)
    <3> DEFINE frame == [Activation("file", MaxStmts) EXCEPT !.file = f]
    <3>1. frame \in Frame /\ frame.at = currScope
      BY TreeFacts, ParserBounds, NewActivation
    <3> QED BY <1>4, <3>1, TreeFacts, PushFits
  <2> QED BY <1>1, <1>2, <2>1, <2>2, QuietStep
<1> QED BY <1>3, <1>4 DEF OpenFile

LEMMA ParseKeeps ==
  ASSUME IndInv, NEW f \in File, Parse(f)
  PROVE  IndInv' /\ TreeChange
<1>1. StackFits(<< >>, currScope, tree)
  BY DEF StackFits
<1> QED BY <1>1, OpenFileKeeps DEF Parse

LEMMA IncludeKeeps ==
  ASSUME IndInv, NEW f \in File, NEW hashed, NEW ifExists, Include(f, hashed, ifExists)
  PROVE  IndInv' /\ TreeChange
<1>1. StackFits(Advanced, currScope, tree)
  BY AdvancedFits DEF Include, AtStmt, InStmtList
<1>2. CASE currScope # Root \/ IsCircular(f, hashed)
  <2>1. /\ exc' = "config" /\ stack' = Advanced
        /\ UNCHANGED <<tree, currScope, fallback, fileNameStack, copy>>
    BY <1>2 DEF Include
  <2> QED BY <1>1, <2>1, SameCopy, TreeFacts, QuietStep DEF Exception
<1>3. CASE ~(currScope # Root \/ IsCircular(f, hashed))
  BY <1>1, <1>3, OpenFileKeeps DEF Include
<1> QED BY <1>2, <1>3

LEMMA FrontOfNames ==
  ASSUME IndInv, fileNameStack # << >>
  PROVE  Front(fileNameStack) \in Seq(File)
BY TreeFacts DEF Front

LEMMA EndFileKeeps ==
  ASSUME IndInv, EndFile
  PROVE  IndInv' /\ TreeChange
<1>1. stack # << >> /\ stack' = Below /\ UNCHANGED <<tree, currScope, fallback, copy>>
  BY DEF EndFile, InStmtList
<1>2. fileNameStack' \in Seq(File) /\ exc' \in Exception
  BY FrontOfNames, TreeFacts DEF EndFile, Exception
<1> QED BY <1>1, <1>2, LeavingStep

LEMMA UnwindKeeps ==
  ASSUME IndInv, Unwind
  PROVE  IndInv' /\ TreeChange
<1>1. stack # << >> /\ stack' = Below /\ UNCHANGED <<tree, currScope, fallback, copy>>
  BY DEF Unwind
<1>2. fileNameStack' \in Seq(File) /\ exc' \in Exception
  BY FrontOfNames, TreeFacts DEF Unwind, Exception
<1> QED BY <1>1, <1>2, LeavingStep

----------------------------------------------------------------------------
(* Calls between two parses. *)

\* A call that puts something into the tree.
LEMMA TakingCall ==
  ASSUME IndInv, NEW result, Take(result), UNCHANGED parserVars,
         Grown(tree, result.tree, currScope)
  PROVE  IndInv' /\ TreeChange
<1>1. /\ tree' = result.tree /\ exc' \in Exception
      /\ UNCHANGED <<currScope, fallback, fileNameStack, stack, copy>>
  BY DEF Take, Exception, parserVars
<1>2. CopyTypeOK'
  BY <1>1, SameCopy
<1>3. IsScope(tree', currScope) /\ StackFits(stack', currScope, tree')
  BY <1>1, TreeFacts, GrownKeepsScopes, GrowFits
<1> QED BY <1>1, <1>2, <1>3, TreeFacts, GrowingStep

LEMMA RemoveStatementKeeps ==
  ASSUME IndInv, NEW vec \in Vec(MaxDepth), RemoveEntry(vec), UNCHANGED parserVars
  PROVE  IndInv' /\ TreeChange
<1> DEFINE found == LookupHelper(tree, currScope, vec) # NoItem
<1>1. /\ exc' \in Exception
      /\ UNCHANGED <<currScope, fallback, fileNameStack, stack, copy>>
      /\ tree' = IF found THEN RemoveItem(tree, currScope \o vec) ELSE tree
  BY DEF RemoveEntry, Take, Exception, parserVars
<1>2. CopyTypeOK'
  BY <1>1, SameCopy
<1>3. vec \in Path /\ vec # Root
  BY ScopedNames
<1>4. CASE found
  BY <1>1, <1>2, <1>3, <1>4, TreeFacts, RemovingStep
<1>5. CASE ~found
  BY <1>1, <1>2, <1>5, TreeFacts, QuietStep
<1> QED BY <1>4, <1>5

LEMMA EmptyTreeIsTree ==
  IsTree(EmptyTree) /\ Rooted(EmptyTree) /\ Root \in Path /\ IsScope(EmptyTree, Root)
BY DEF IsTree, Rooted, EmptyTree, Root, Path, IsScope

LEMMA EmptyConfigKeeps ==
  ASSUME IndInv, stack = << >>, EmptyConfig, UNCHANGED parserVars
  PROVE  IndInv' /\ TreeChange
<1>1. /\ tree' = EmptyTree /\ currScope' = Root /\ stack' = << >>
      /\ UNCHANGED <<fallback, exc, fileNameStack, copy>>
  BY DEF EmptyConfig, parserVars
<1>2. CopyTypeOK' /\ StackFits(stack', currScope', tree')
  BY <1>1, SameCopy DEF StackFits
<1> QED BY <1>1, <1>2, EmptyTreeIsTree
        DEF IndInv, ConfigTypeOK, TreeIsRooted, CurrScopeLives, TreeChange

LEMMA SetFallbackKeeps ==
  ASSUME IndInv, NEW t \in Fallbacks, SetFallback(t), UNCHANGED parserVars
  PROVE  IndInv' /\ TreeChange
<1>1. /\ fallback' = t /\ IsTree(t)
      /\ UNCHANGED <<tree, currScope, exc, fileNameStack, stack, copy>>
  BY FallbacksAreTrees DEF SetFallback, parserVars
<1>2. CopyTypeOK'
  BY <1>1, SameCopy
<1> QED BY <1>1, <1>2, TreeFacts
        DEF IndInv, ConfigTypeOK, TreeIsRooted, CurrScopeLives, TreeChange

LEMMA CatchKeeps ==
  ASSUME IndInv, Catch, UNCHANGED parserVars
  PROVE  IndInv' /\ TreeChange
<1>1. exc' \in Exception /\ UNCHANGED <<tree, currScope, fallback, fileNameStack, stack, copy>>
  BY DEF Catch, Exception, parserVars
<1> QED BY <1>1, SameCopy, TreeFacts, QuietStep

LEMMA ApiCallKeeps ==
  ASSUME IndInv, ApiCall
  PROVE  IndInv' /\ TreeChange
<1>1. stack = << >> /\ UNCHANGED parserVars
  BY DEF ApiCall
<1>2. ASSUME NEW vec \in Vec(MaxDepth), NEW item \in Variable, InsertItem(vec, item)
      PROVE  IndInv' /\ TreeChange
  <2>1. Grown(tree, Insert(tree, currScope, vec, item).tree, currScope)
    BY ScopedNames, TreeFacts, InsertGrows
  <2> QED BY <1>1, <1>2, <2>1, TakingCall DEF InsertItem
<1>3. ASSUME NEW vec \in Vec(MaxDepth), EnsureScope(vec)
      PROVE  IndInv' /\ TreeChange
  <2>1. Grown(tree, EnsureScopeExists(tree, currScope, vec).tree, currScope)
    BY ScopedNames, TreeFacts, EnsureScopeExistsGrows
  <2> QED BY <1>1, <1>3, <2>1, TakingCall DEF EnsureScope
<1> QED BY <1>1, <1>2, <1>3, RemoveStatementKeeps, EmptyConfigKeeps, SetFallbackKeeps, CatchKeeps
        DEF ApiCall, Call

----------------------------------------------------------------------------
(* The invariant is inductive. *)

LEMMA InitIndInv == Init => IndInv
<1> SUFFICES ASSUME Init PROVE IndInv
  OBVIOUS
<1>1. /\ tree = EmptyTree /\ currScope = Root /\ fallback = EmptyTree /\ exc = "none"
      /\ fileNameStack = << >> /\ stack = << >> /\ copy = NoCopy
  BY DEF Init, ConfigInit
<1>2. CopyTypeOK /\ StackFits(stack, currScope, tree) /\ fileNameStack \in Seq(File)
  BY <1>1 DEF CopyTypeOK, StackFits
<1> QED BY <1>1, <1>2, EmptyTreeIsTree
        DEF IndInv, ConfigTypeOK, TreeIsRooted, CurrScopeLives, Exception

LEMMA StatementKeeps ==
  ASSUME IndInv, Statement
  PROVE  IndInv' /\ TreeChange
<1>1. CASE \E vec \in Ident, item \in Variable, op \in {"=", "?="} : Assign(vec, item, op)
  BY <1>1, AssignKeeps
<1>2. CASE \E vec \in Ident, ref \in Ref(Ident), kind \in {"First", "String", "List"},
             op \in {"=", "?="} : AssignFrom(vec, ref, kind, op)
  BY <1>2, AssignFromKeeps
<1>3. CASE \E vec \in Ident : OpenScope(vec)
  BY <1>3, OpenScopeKeeps
<1>4. CASE \E condition \in BOOLEAN : OpenIf(condition) \/ ElseIf(condition)
  BY <1>4, OpenIfKeeps, ElseIfKeeps
<1>5. CASE Else
  BY <1>5, ElseKeeps
<1>6. CASE \E name \in Spelled : RemoveStmt(name)
  BY <1>6, RemoveStmtKeeps
<1>7. CASE \E from \in Ref(Vec(MaxDepth)), ifExists \in BOOLEAN : StartCopy(from, ifExists)
  BY <1>7, StartCopyKeeps
<1>8. CASE \E p \in copy.todo : CopyItem(p)
  BY <1>8, CopyItemKeeps
<1>9. CASE EndCopy
  BY <1>9, EndCopyKeeps
<1>10. CASE \E f \in File, hashed, ifExists \in BOOLEAN : Include(f, hashed, ifExists)
  BY <1>10, IncludeKeeps
<1>11. CASE CloseScope
  BY <1>11, CloseScopeKeeps
<1>12. CASE CloseClause \/ EndIf
  BY <1>12, LeavingKeeps
<1>13. CASE EndFile \/ Unwind
  BY <1>13, EndFileKeeps, UnwindKeeps
<1>14. CASE StmtError
  BY <1>14, StmtErrorKeeps
<1>15. CASE SearchForever \/ SearchOn
  BY <1>15, SearchKeeps
<1> QED BY <1>1, <1>2, <1>3, <1>4, <1>5, <1>6, <1>7, <1>8, <1>9, <1>10, <1>11, <1>12, <1>13,
           <1>14, <1>15 DEF Statement

LEMMA NextIndInv == IndInv /\ [Next]_vars => IndInv' /\ TreeChange
<1> SUFFICES ASSUME IndInv, [Next]_vars PROVE IndInv' /\ TreeChange
  OBVIOUS
<1>1. CASE Statement
  BY <1>1, StatementKeeps
<1>2. CASE \E f \in File : Parse(f)
  BY <1>2, ParseKeeps
<1>3. CASE ApiCall
  BY <1>3, ApiCallKeeps
<1>4. CASE UNCHANGED vars
  BY <1>4, SameCopy, TreeFacts, QuietStep DEF vars
<1> QED BY <1>1, <1>2, <1>3, <1>4 DEF Next

\* With parses: each scope that an activation of the parser returns to is in the
\* tree and encloses the current scope or is it, whatever statements remove.
THEOREM IndInvHolds == Spec => []IndInv
BY InitIndInv, NextIndInv, PTL DEF Spec

----------------------------------------------------------------------------
(* Results. *)

\* Whatever the files contain and the program calls, the tree, the current
\* scope, the files being parsed and the activations are well formed.
THEOREM TypesHold == Spec => []TypeOK
BY IndInvHolds, IndInvImplies, PTL

\* No entry is ever left outside every scope.
THEOREM TreeStaysRooted == Spec => []TreeIsRooted
BY IndInvHolds, IndInvImplies, PTL

\* m_currScope and the oldScope of every activation of parseScope point to
\* scopes that exist: no statement can remove a scope the parser is inside.
THEOREM ScopesStayAlive == Spec => []ScopesLive
BY IndInvHolds, IndInvImplies, PTL

\* No step turns a variable into a scope or a scope into a variable.
THEOREM KindsAreKept == Spec => KindIsKept
<1>1. ASSUME IndInv, TreeChange, NEW p \in DOMAIN tree \cap DOMAIN tree'
      PROVE  IsScope(tree, p) <=> IsScope(tree', p)
  <2>1. CASE Grown(tree, tree', currScope)
    BY <1>1, <2>1 DEF Grown
  <2>2. ASSUME NEW vec \in Path \ {Root}, tree' = RemoveItem(tree, currScope \o vec)
        PROVE  IsScope(tree, p) <=> IsScope(tree', p)
    <3>1. p \in DOMAIN tree' /\ tree'[p] = tree[p]
      BY <1>1, <2>2, TreeFacts, BelowIsLonger, RemoveItemKeepsTree
    <3> QED BY <1>1, <3>1 DEF IsScope
  <2> QED BY <1>1, <2>1, <2>2 DEF TreeChange, EmptyTree
<1>2. IndInv /\ [Next]_vars =>
        [\A p \in DOMAIN tree \cap DOMAIN tree' : IsScope(tree, p) <=> IsScope(tree', p)]_configVars
  BY <1>1, NextIndInv
<1> QED BY <1>2, IndInvHolds, PTL DEF Spec, KindIsKept

\* A step that does not empty the configuration changes entries strictly below
\* the current scope only.
THEOREM ChangesStayBelow == Spec => OnlyBelowCurrScope
<1>1. ASSUME IndInv, TreeChange, NEW p \in DOMAIN tree \cup DOMAIN tree', tree' # EmptyTree,
             FindItem(tree, p) # FindItem(tree', p)
      PROVE  IsStrictPrefix(currScope, p)
  <2>1. CASE Grown(tree, tree', currScope)
    BY <1>1, <2>1 DEF Grown
  <2>2. ASSUME NEW vec \in Path \ {Root}, tree' = RemoveItem(tree, currScope \o vec)
        PROVE  IsStrictPrefix(currScope, p)
    <3> DEFINE removed == currScope \o vec
    <3>1. removed \in Path /\ currScope \in Path /\ IsStrictPrefix(currScope, removed)
      BY <1>1, TreeFacts, BelowIsLonger
    <3>2. p \in DOMAIN tree /\ IsPrefix(removed, p)
      BY <1>1, <2>2, <3>1, TreeFacts, RemoveItemKeepsTree DEF FindItem
    <3>3. p \in Path
      BY <1>1, <3>2, TreeFacts DEF IsTree
    <3>4. IsPrefix(currScope, p) /\ Len(currScope) < Len(removed) /\ Len(removed) <= Len(p)
      <4>1. IsPrefix(currScope, p)
        BY <3>1, <3>2, <3>3, PrefixIsTransitive DEF IsStrictPrefix
      <4>2. Len(removed) = Len(currScope) + Len(vec) /\ Len(vec) > 0
        BY <1>1, TreeFacts, BelowIsLonger DEF Path, Root
      <4>3. Len(removed) <= Len(p) /\ Len(currScope) \in Nat /\ Len(vec) \in Nat
        BY <3>1, <3>2 DEF IsPrefix, Path
      <4> QED BY <4>1, <4>2, <4>3
    <3> QED BY <3>1, <3>3, <3>4 DEF IsStrictPrefix, Path
  <2> QED BY <1>1, <2>1, <2>2 DEF TreeChange
<1>2. IndInv /\ [Next]_vars =>
        [tree' = EmptyTree \/
         \A p \in DOMAIN tree \cup DOMAIN tree' :
           FindItem(tree, p) # FindItem(tree', p) => IsStrictPrefix(currScope, p)]_configVars
  BY <1>1, NextIndInv
<1> QED BY <1>2, IndInvHolds, PTL DEF Spec, OnlyBelowCurrScope

----------------------------------------------------------------------------
(* The refinement. *)

LEMMA StatementChanges ==
  ASSUME IndInv, Statement
  PROVE  StoreChange(tree, tree')
<1>1. ASSUME UNCHANGED tree PROVE StoreChange(tree, tree')
  BY <1>1 DEF StoreChange, Keeps
<1>2. ASSUME NEW vec \in Ident, NEW item \in Variable, NEW op, Assign(vec, item, op)
      PROVE  StoreChange(tree, tree')
  <2>1. tree' = tree \/ tree' = Insert(tree, currScope, vec, item).tree
    BY <1>2 DEF Assign
  <2> QED BY <1>1, <2>1, ScopedNames, TreeFacts, InsertChanges
<1>3. ASSUME NEW vec \in Ident, NEW ref, NEW kind, NEW op, AssignFrom(vec, ref, kind, op)
      PROVE  StoreChange(tree, tree')
  BY <1>1, <1>2, <1>3 DEF AssignFrom
<1>4. ASSUME NEW vec \in Ident, OpenScope(vec)
      PROVE  StoreChange(tree, tree')
  BY <1>4, ScopedNames, TreeFacts, EnsureScopeExistsChanges DEF OpenScope
<1>5. ASSUME NEW name \in Spelled, RemoveStmt(name)
      PROVE  StoreChange(tree, tree')
  <2>1. tree' = tree \/ tree' = RemoveItem(tree, Append(currScope, name))
    BY <1>5 DEF RemoveStmt
  <2>2. Append(currScope, name) \in Path
    BY TreeFacts, SpelledNames DEF Path
  <2> QED BY <1>1, <2>1, <2>2 DEF StoreChange
<1>6. ASSUME NEW p \in copy.todo, CopyItem(p)
      PROVE  StoreChange(tree, tree')
  <2> DEFINE item == Lookup(tree, fallback, currScope, [rooted |-> FALSE, vec |-> p], TRUE)
             newName == NewName(copy.from, p)
  <2>1. copy.from \in Reference /\ p \in Path /\ IsStrictPrefix(copy.from.vec, p)
    BY <1>6 DEF CopyItem, IndInv, CopyTypeOK, IsTree
  <2>2. newName \in Path /\ newName # Root
    BY <2>1, NewNameIsPath
  <2>3. item \in Item \cup {NoItem}
    BY TreeFacts, LookupReturnsItem
  <2>4. \/ tree' = tree
        \/ item # NoItem /\ item.type = "Scope"
             /\ tree' = EnsureScopeExists(tree, currScope, newName).tree
        \/ item # NoItem /\ item.type # "Scope"
             /\ tree' = Insert(tree, currScope, newName, item).tree
    BY <1>6 DEF CopyItem
  <2>5. item # NoItem /\ item.type # "Scope" => item \in Variable
    <3>1. \A i \in Item \cup {NoItem} : i # NoItem /\ i.type # "Scope" => i \in Variable
      BY DEF Item, ScopeItem
    <3> HIDE DEF item
    <3> QED BY <2>3, <3>1
  <2> HIDE DEF item, newName
  <2> QED BY <1>1, <2>2, <2>4, <2>5, TreeFacts, EnsureScopeExistsChanges, InsertChanges
<1>7. ASSUME \/ \E condition \in BOOLEAN : OpenIf(condition) \/ ElseIf(condition)
             \/ \E from \in Ref(Vec(MaxDepth)), ifExists \in BOOLEAN : StartCopy(from, ifExists)
             \/ \E f \in File, hashed, ifExists \in BOOLEAN : Include(f, hashed, ifExists)
             \/ Else \/ CloseScope \/ CloseClause \/ EndIf \/ EndFile
             \/ EndCopy \/ StmtError \/ SearchForever \/ SearchOn \/ Unwind
      PROVE  UNCHANGED tree
  BY <1>7 DEF OpenIf, ElseIf, StartCopy, Include, Else, CloseScope, CloseClause, EndIf, EndFile,
              EndCopy, StmtError, SearchForever, SearchOn, vars, Unwind
<1> QED BY <1>1, <1>2, <1>3, <1>4, <1>5, <1>6, <1>7 DEF Statement

\* A program that sees only variables sees a VariableStore, whatever it calls
\* and whatever is in the files it parses.
THEOREM ParsesKeepAStore == Spec => ImplementsStore
<1>1. Init => Store!Init
  BY StoreInit DEF Init, ConfigInit
<1>2. IndInv /\ IndInv' /\ [Next]_vars => [Store!Next]_Variables
  <2> SUFFICES ASSUME IndInv, IndInv', [Next]_vars PROVE [Store!Next]_Variables
    OBVIOUS
  <2>1. IsTree(tree) /\ IsTree(tree') /\ Rooted(tree')
    BY DEF IndInv, ConfigTypeOK, TreeIsRooted
  <2>2. CASE Statement
    BY <2>1, <2>2, StatementChanges, StoreStep
  <2>3. CASE ApiCall
    BY <2>1, <2>3, TreeFacts, ScopedNames, CallChanges, StoreStep DEF ApiCall
  <2>4. CASE UNCHANGED tree
    <3>1. Keeps(tree, tree')
      BY <2>4 DEF Keeps
    <3> QED BY <2>1, <3>1, StoreStep DEF StoreChange
  <2>5. ASSUME NEW f \in File, Parse(f) PROVE UNCHANGED tree
    BY <2>5 DEF Parse
  <2> QED BY <2>2, <2>3, <2>4, <2>5 DEF Next, vars
<1> QED BY <1>1, <1>2, IndInvHolds, PTL DEF Spec, ImplementsStore, Store!Spec

----------------------------------------------------------------------------
(* Stacks. *)

\* The same activations, entered from the same scopes: what they have counted
\* may differ.
Alike(s, u) ==
  /\ s \in Seq(Frame) /\ u \in Seq(Frame) /\ Len(s) = Len(u)
  /\ \A i \in DOMAIN s : s[i].kind = u[i].kind /\ s[i].file = u[i].file /\ s[i].at = u[i].at

\* The scope in force inside the i-th activation of s, the current one being scope.
Inside(s, i, scope) == IF i = Len(s) THEN scope ELSE s[i + 1].at

\* Each activation of parseScope goes down from the scope it found, no other
\* changes it.
NestFits(s, scope) ==
  \A i \in DOMAIN s :
    IF s[i].kind = "scope" THEN IsStrictPrefix(s[i].at, Inside(s, i, scope))
    ELSE Inside(s, i, scope) = s[i].at

\* A clause has run exactly if a condition was true, or it is that of an @else,
\* behind which there is no other clause.
IfFits(frame) ==
  frame.kind = "if" =>
    /\ frame.taken => frame.ran = 1
    /\ ~frame.taken => frame.ran = 0 \/ (frame.ran = 1 /\ frame.left = 0)
IfsFit(s) == \A i \in DOMAIN s : IfFits(s[i])

FilesDiffer(s) ==
  \A i, j \in DOMAIN s :
    s[i].kind = "file" /\ s[j].kind = "file" /\ s[i].file = s[j].file => i = j

Files(s, i) == {j \in i..Len(s) : s[j].kind = "file"}

LEMMA FilesAreCounted ==
  ASSUME NEW s \in Seq(Frame), NEW i \in Nat
  PROVE  /\ IsFiniteSet(Files(s, i)) /\ FilesFrom(s, i) = Cardinality(Files(s, i))
         /\ FilesFrom(s, i) \in Nat
<1>1. IsFiniteSet(i..Len(s))
  BY FS_Interval
<1>2. IsFiniteSet(Files(s, i))
  BY <1>1, FS_Subset DEF Files
<1> QED BY <1>2, FS_CardinalityType DEF Files, FilesFrom

\* An activation of a file is one of those counted.
LEMMA FileIsCounted ==
  ASSUME NEW s \in Seq(Frame), NEW i \in DOMAIN s
  PROVE  /\ FilesFrom(s, i) <= FilesFrom(s, 1)
         /\ s[i].kind = "file" => FilesFrom(s, i) >= 1
<1>1. i \in Nat /\ i >= 1 /\ i \in i..Len(s) /\ 1 \in Nat
  OBVIOUS
<1>2. Files(s, i) \subseteq Files(s, 1)
  BY <1>1 DEF Files
<1>3. FilesFrom(s, i) <= FilesFrom(s, 1)
  BY <1>1, <1>2, FilesAreCounted, FS_Subset
<1>4. ASSUME s[i].kind = "file" PROVE FilesFrom(s, i) >= 1
  <2>1. i \in Files(s, i)
    BY <1>1, <1>4 DEF Files
  <2>2. Cardinality(Files(s, i)) # 0
    BY <1>1, <2>1, FilesAreCounted, FS_EmptySet
  <2> QED BY <1>1, <2>2, FilesAreCounted
<1> QED BY <1>3, <1>4

LEMMA AlikeCounts ==
  ASSUME NEW s, NEW u, Alike(s, u), NEW i \in Nat \ {0}
  PROVE  FilesFrom(u, i) = FilesFrom(s, i)
<1>1. {j \in i..Len(u) : u[j].kind = "file"} = {j \in i..Len(s) : s[j].kind = "file"}
  <2>1. DOMAIN s = 1..Len(s) /\ Len(s) \in Nat
    BY DEF Alike
  <2>2. \A j \in i..Len(s) : j \in DOMAIN s
    BY <2>1
  <2> QED BY <2>2 DEF Alike
<1> QED BY <1>1 DEF FilesFrom

\* One activation more, or one less.
LEMMA PushCounts ==
  ASSUME NEW s \in Seq(Frame), NEW frame \in Frame, NEW i \in 1..(Len(s) + 1)
  PROVE  FilesFrom(Append(s, frame), i)
           = FilesFrom(s, i) + (IF frame.kind = "file" THEN 1 ELSE 0)
<1> DEFINE u == Append(s, frame)
           n == Len(s) + 1
<1>1. /\ u \in Seq(Frame) /\ Len(u) = n /\ Len(s) \in Nat /\ n \in Nat /\ i \in Nat
      /\ \A j \in 1..Len(s) : u[j] = s[j]
      /\ u[n] = frame /\ n \in i..n
  OBVIOUS
<1>2. i..n = (i..Len(s)) \cup {n} /\ n \notin i..Len(s) /\ i..Len(s) \subseteq 1..Len(s)
  BY <1>1
<1> HIDE DEF u, n
<1>3. n \notin Files(s, i) /\ IsFiniteSet(Files(s, i))
  BY <1>1, <1>2, FilesAreCounted DEF Files
<1>4. FilesFrom(u, i) = Cardinality(Files(u, i)) /\ FilesFrom(s, i) = Cardinality(Files(s, i))
      /\ FilesFrom(s, i) \in Nat
  BY <1>1, FilesAreCounted
<1>5. CASE frame.kind = "file"
  <2>1. Files(u, i) = Files(s, i) \cup {n}
    BY <1>1, <1>2, <1>5 DEF Files
  <2>2. Cardinality(Files(s, i) \cup {n}) = Cardinality(Files(s, i)) + 1
    BY <1>3, FS_AddElement
  <2> QED BY <1>4, <1>5, <2>1, <2>2 DEF u
<1>6. CASE frame.kind # "file"
  <2>1. Files(u, i) = Files(s, i)
    BY <1>1, <1>2, <1>6 DEF Files
  <2>2. FilesFrom(u, i) = FilesFrom(s, i) + 0
    BY <1>4, <2>1
  <2> QED BY <1>6, <2>2 DEF u
<1> QED BY <1>5, <1>6

LEMMA NoFilesBehind ==
  ASSUME NEW s \in Seq(Frame)
  PROVE  FilesFrom(s, Len(s) + 1) = 0
<1>1. Len(s) \in Nat /\ Len(s) + 1 \in Nat
  OBVIOUS
<1>2. Files(s, Len(s) + 1) = {}
  BY <1>1 DEF Files
<1> QED BY <1>1, <1>2, FilesAreCounted, FS_EmptySet

\* A stack is its front with its last activation.
LEMMA FrontAndLast ==
  ASSUME NEW s \in Seq(Frame), s # << >>
  PROVE  /\ Front(s) \in Seq(Frame) /\ Last(s) \in Frame
         /\ s = Append(Front(s), Last(s))
         /\ Len(Front(s)) = Len(s) - 1
         /\ \A i \in DOMAIN Front(s) : i \in DOMAIN s /\ Front(s)[i] = s[i]
<1> DEFINE n == Len(s)
           u == SubSeq(s, 1, n - 1)
<1>1. n \in Nat \ {0} /\ n - 1 \in Nat /\ DOMAIN s = 1..n
  OBVIOUS
<1>2. u \in Seq(Frame) /\ Len(u) = n - 1 /\ s[n] \in Frame
  BY <1>1
<1>3. \A i \in 1..(n - 1) : i \in DOMAIN s /\ u[i] = s[i]
  BY <1>1
<1> HIDE DEF u, n
<1>4. Append(u, s[n]) = s
  <2>1. /\ Len(Append(u, s[n])) = n /\ Append(u, s[n]) \in Seq(Frame)
        /\ \A i \in 1..(n - 1) : Append(u, s[n])[i] = u[i]
        /\ Append(u, s[n])[n] = s[n]
    BY <1>1, <1>2, AppendProperties
  <2>2. \A i \in 1..n : i \in 1..(n - 1) \/ i = n
    BY <1>1
  <2>3. ASSUME NEW i \in 1..n PROVE Append(u, s[n])[i] = s[i]
    <3>1. CASE i = n
      BY <2>1, <3>1
    <3>2. CASE i \in 1..(n - 1)
      BY <1>3, <2>1, <3>2
    <3> QED BY <2>2, <3>1, <3>2
  <2>4. n = Len(s)
    BY DEF n
  <2> QED BY <2>1, <2>3, <2>4, SeqEqual
<1>5. Front(s) = u /\ Last(s) = s[n]
  BY DEF Front, Last, u, n
<1>6. DOMAIN u = 1..(n - 1)
  BY <1>1, <1>2
<1> QED BY <1>2, <1>3, <1>4, <1>5, <1>6

----------------------------------------------------------------------------
(* What the predicates make of a change of the stack. *)

LEMMA AlikeFits ==
  ASSUME NEW s, NEW u, Alike(s, u), NEW scope, NEW names
  PROVE  /\ NestFits(s, scope) => NestFits(u, scope)
         /\ NamesFit(s, names) => NamesFit(u, names)
         /\ FilesDiffer(s) => FilesDiffer(u)
<1>1. /\ DOMAIN s = 1..Len(s) /\ DOMAIN u = DOMAIN s /\ Len(u) = Len(s) /\ Len(s) \in Nat
      /\ \A i \in DOMAIN s : s[i].kind = u[i].kind /\ s[i].file = u[i].file /\ s[i].at = u[i].at
  BY DEF Alike
<1>2. \A i \in DOMAIN s : i # Len(s) => i + 1 \in DOMAIN s
  BY <1>1
<1>3. \A i \in DOMAIN s : Inside(u, i, scope) = Inside(s, i, scope)
  BY <1>1, <1>2 DEF Inside
<1>4. \A i \in DOMAIN s : FilesFrom(u, i) = FilesFrom(s, i)
  BY <1>1, AlikeCounts
<1>5. FilesFrom(u, 1) = FilesFrom(s, 1)
  BY AlikeCounts
<1>6. NestFits(s, scope) => NestFits(u, scope)
  BY <1>1, <1>3 DEF NestFits
<1>7. NamesFit(s, names) => NamesFit(u, names)
  BY <1>1, <1>4, <1>5 DEF NamesFit
<1>8. FilesDiffer(s) => FilesDiffer(u)
  BY <1>1 DEF FilesDiffer
<1> QED BY <1>6, <1>7, <1>8

LEMMA PushNests ==
  ASSUME NEW s \in Seq(Frame), NEW scope, NEW frame \in Frame, NEW inner,
         NestFits(s, scope), frame.at = scope,
         IF frame.kind = "scope" THEN IsStrictPrefix(scope, inner) ELSE inner = scope
  PROVE  NestFits(Append(s, frame), inner)
<1> DEFINE u == Append(s, frame)
           n == Len(s) + 1
<1>1. /\ u \in Seq(Frame) /\ Len(u) = n /\ Len(s) \in Nat /\ DOMAIN u = 1..n
      /\ DOMAIN s = 1..Len(s)
      /\ \A j \in 1..Len(s) : u[j] = s[j]
      /\ u[n] = frame
  BY AppendProperties
<1>2. \A i \in 1..n : i \in DOMAIN s \/ i = n
  BY <1>1
<1>3. \A i \in DOMAIN s : i # n /\ (i # Len(s) => i + 1 \in 1..Len(s)) /\ (i = Len(s) => i + 1 = n)
  BY <1>1
<1> HIDE DEF u, n
<1>4. \A i \in DOMAIN s : Inside(u, i, inner) = Inside(s, i, scope)
  BY <1>1, <1>3 DEF Inside
<1>5. Inside(u, n, inner) = inner
  BY <1>1 DEF Inside
<1>6. \A i \in 1..n : IF u[i].kind = "scope" THEN IsStrictPrefix(u[i].at, Inside(u, i, inner))
                      ELSE Inside(u, i, inner) = u[i].at
  BY <1>1, <1>2, <1>4, <1>5 DEF NestFits
<1> QED BY <1>1, <1>6 DEF NestFits, u

LEMMA PopNests ==
  ASSUME NEW s \in Seq(Frame), s # << >>, NEW scope, NestFits(s, scope)
  PROVE  /\ NestFits(Front(s), Last(s).at)
         /\ Last(s).kind # "scope" => Last(s).at = scope
<1> DEFINE u == Front(s)
           n == Len(s)
<1>1. /\ u \in Seq(Frame) /\ Len(u) = n - 1 /\ n \in Nat /\ n # 0 /\ DOMAIN u = 1..(n - 1)
      /\ DOMAIN s = 1..n /\ \A i \in DOMAIN u : u[i] = s[i]
  BY FrontAndLast
<1>2. \A i \in DOMAIN u : i \in DOMAIN s /\ i # n /\ (i = n - 1 => i + 1 = n)
                          /\ (i # n - 1 => i + 1 \in DOMAIN u)
  BY <1>1
<1>3. n \in DOMAIN s /\ Last(s) = s[n] /\ Inside(s, n, scope) = scope
  BY <1>1 DEF Last, Inside
<1> HIDE DEF u, n
<1>4. n = Len(s)
  BY DEF n
<1>5. \A i \in DOMAIN u : Inside(u, i, Last(s).at) = Inside(s, i, scope)
  BY <1>1, <1>2, <1>3, <1>4 DEF Inside
<1>6. NestFits(u, Last(s).at)
  BY <1>1, <1>2, <1>5 DEF NestFits
<1>7. Last(s).kind # "scope" => Last(s).at = scope
  BY <1>3 DEF NestFits
<1> QED BY <1>6, <1>7 DEF u

\* What lies below the names of the files being parsed.
Stale(s, names) == SubSeq(names, 1, Len(names) - FilesFrom(s, 1))

LEMMA PushOther ==
  ASSUME NEW s \in Seq(Frame), NEW frame \in Frame, frame.kind # "file", NEW names
  PROVE  /\ NamesFit(s, names) => NamesFit(Append(s, frame), names)
         /\ Stale(Append(s, frame), names) = Stale(s, names)
         /\ FilesDiffer(s) => FilesDiffer(Append(s, frame))
<1> DEFINE u == Append(s, frame)
           n == Len(s) + 1
<1>1. /\ DOMAIN u = 1..n /\ Len(s) \in Nat /\ DOMAIN s = 1..Len(s) /\ n \in Nat
      /\ \A j \in DOMAIN s : u[j] = s[j]
      /\ u[n] = frame
  BY AppendProperties
<1>2. \A i \in 1..n : i \in DOMAIN s \/ i = n
  BY <1>1
<1>3. \A i \in 1..n : FilesFrom(u, i) = FilesFrom(s, i)
  <2>1. ASSUME NEW i \in 1..n PROVE FilesFrom(u, i) = FilesFrom(s, i)
    <3>1. i \in Nat /\ i \in 1..(Len(s) + 1)
      BY <1>1
    <3>2. FilesFrom(u, i) = FilesFrom(s, i) + 0
      BY <3>1, PushCounts
    <3>3. FilesFrom(s, i) \in Nat
      BY <3>1, FilesAreCounted
    <3> HIDE DEF u, n
    <3> QED BY <3>2, <3>3
  <2> QED BY <2>1
<1>4. 1 \in 1..n
  BY <1>1
<1> HIDE DEF u, n
<1>5. NamesFit(s, names) => NamesFit(u, names)
  BY <1>1, <1>2, <1>3, <1>4 DEF NamesFit
<1>6. FilesDiffer(s) => FilesDiffer(u)
  BY <1>1, <1>2 DEF FilesDiffer
<1>7. Stale(u, names) = Stale(s, names)
  BY <1>3, <1>4 DEF Stale
<1> QED BY <1>5, <1>6, <1>7 DEF u

LEMMA PushFile ==
  ASSUME NEW s \in Seq(Frame), NEW frame \in Frame, frame.kind = "file",
         NEW names \in Seq(File), frame.file \in File
  PROVE  /\ NamesFit(s, names) =>
              /\ NamesFit(Append(s, frame), Append(names, frame.file))
              /\ Stale(Append(s, frame), Append(names, frame.file)) = Stale(s, names)
         /\ FilesDiffer(s) /\ (\A i \in DOMAIN s : s[i].kind = "file" => s[i].file # frame.file)
              => FilesDiffer(Append(s, frame))
<1> DEFINE u == Append(s, frame)
           n == Len(s) + 1
           more == Append(names, frame.file)
           k == Len(names)
<1>1. /\ DOMAIN u = 1..n /\ Len(s) \in Nat /\ DOMAIN s = 1..Len(s) /\ n \in Nat
      /\ \A j \in DOMAIN s : u[j] = s[j]
      /\ u[n] = frame
  BY AppendProperties
<1>2. \A i \in 1..n : i \in DOMAIN s \/ i = n
  BY <1>1
<1>3. \A i \in 1..n : FilesFrom(u, i) = FilesFrom(s, i) + 1 /\ FilesFrom(s, i) \in Nat
  <2>1. ASSUME NEW i \in 1..n
        PROVE  FilesFrom(u, i) = FilesFrom(s, i) + 1 /\ FilesFrom(s, i) \in Nat
    <3>1. i \in Nat /\ i \in 1..(Len(s) + 1)
      BY <1>1
    <3>2. FilesFrom(u, i) = FilesFrom(s, i) + 1
      BY <3>1, PushCounts
    <3>3. FilesFrom(s, i) \in Nat
      BY <3>1, FilesAreCounted
    <3> QED BY <3>2, <3>3
  <2> QED BY <2>1
<1>4. FilesFrom(s, n) = 0 /\ 1 \in 1..n /\ n \in 1..n
  BY <1>1, NoFilesBehind
<1>5. /\ k \in Nat /\ Len(more) = k + 1 /\ more \in Seq(File)
      /\ \A i \in 1..k : more[i] = names[i]
      /\ more[k + 1] = frame.file
  BY AppendProperties
<1>6. \A i \in DOMAIN s : FilesFrom(s, i) <= FilesFrom(s, 1)
                          /\ (s[i].kind = "file" => FilesFrom(s, i) >= 1)
  BY FileIsCounted
<1>7. k = Len(names)
  OBVIOUS
<1> HIDE DEF u, n, more, k
<1>8. ASSUME NamesFit(s, names) PROVE NamesFit(u, more) /\ Stale(u, more) = Stale(s, names)
  <2>1. FilesFrom(s, 1) <= k /\ FilesFrom(u, 1) <= Len(more)
    BY <1>3, <1>4, <1>5, <1>7, <1>8 DEF NamesFit
  <2>2. ASSUME NEW i \in DOMAIN s, u[i].kind = "file"
        PROVE  more[Len(more) - FilesFrom(u, i) + 1] = u[i].file
    <3>1. i \in 1..n /\ FilesFrom(s, i) \in 1..k
      BY <1>1, <1>3, <1>5, <1>6, <2>1, <2>2 DEF n
    <3>2. k - FilesFrom(s, i) + 1 \in 1..k
      BY <1>5, <3>1
    <3>3. Len(more) - FilesFrom(u, i) + 1 = k - FilesFrom(s, i) + 1
      BY <1>3, <1>5, <3>1
    <3>4. names[k - FilesFrom(s, i) + 1] = s[i].file
      BY <1>1, <1>7, <1>8, <2>2 DEF NamesFit
    <3>5. u[i].file = s[i].file /\ more[k - FilesFrom(s, i) + 1] = names[k - FilesFrom(s, i) + 1]
      BY <1>1, <1>5, <3>2
    <3> QED BY <3>3, <3>4, <3>5
  <2>3. more[Len(more) - FilesFrom(u, n) + 1] = u[n].file
    <3>1. Len(more) - FilesFrom(u, n) + 1 = k + 1
      BY <1>3, <1>4, <1>5
    <3> QED BY <1>1, <1>5, <3>1
  <2>4. NamesFit(u, more)
    BY <1>1, <1>2, <2>1, <2>2, <2>3 DEF NamesFit
  <2>5. Len(more) - FilesFrom(u, 1) = k - FilesFrom(s, 1) /\ k - FilesFrom(s, 1) \in 0..k
    BY <1>3, <1>4, <1>5, <2>1
  <2>6. \A m \in 0..k : SubSeq(more, 1, m) = SubSeq(names, 1, m)
    BY <1>5, <1>7
  <2>7. Stale(u, more) = Stale(s, names)
    BY <1>7, <2>5, <2>6 DEF Stale
  <2> QED BY <2>4, <2>7
<1>9. FilesDiffer(s) /\ (\A i \in DOMAIN s : s[i].kind = "file" => s[i].file # frame.file)
        => FilesDiffer(u)
  BY <1>1, <1>2 DEF FilesDiffer
<1> QED BY <1>8, <1>9 DEF u, more

LEMMA PopOther ==
  ASSUME NEW s \in Seq(Frame), s # << >>, Last(s).kind # "file", NEW names
  PROVE  /\ NamesFit(s, names) => NamesFit(Front(s), names)
         /\ Stale(Front(s), names) = Stale(s, names)
         /\ FilesDiffer(s) => FilesDiffer(Front(s))
<1> DEFINE u == Front(s)
<1>1. /\ u \in Seq(Frame) /\ Last(s) \in Frame /\ s = Append(u, Last(s))
      /\ \A i \in DOMAIN u : i \in DOMAIN s /\ u[i] = s[i]
  BY FrontAndLast
<1>2. DOMAIN u = 1..Len(u) /\ Len(u) \in Nat
  BY <1>1
<1> HIDE DEF u
<1>3. ASSUME NEW i \in 1..(Len(u) + 1) PROVE FilesFrom(s, i) = FilesFrom(u, i)
  <2>1. FilesFrom(Append(u, Last(s)), i) = FilesFrom(u, i) + 0
    BY <1>1, PushCounts
  <2>2. FilesFrom(u, i) \in Nat
    BY <1>1, <1>2, FilesAreCounted
  <2>3. FilesFrom(Append(u, Last(s)), i) = FilesFrom(u, i)
    BY <2>1, <2>2
  <2> QED BY <1>1, <2>3, Zenon
<1>4. 1 \in 1..(Len(u) + 1) /\ \A i \in DOMAIN u : i \in 1..(Len(u) + 1)
  BY <1>2
<1>5. NamesFit(s, names) => NamesFit(u, names)
  BY <1>1, <1>3, <1>4 DEF NamesFit
<1>6. Stale(u, names) = Stale(s, names)
  BY <1>3, <1>4 DEF Stale
<1>7. FilesDiffer(s) => FilesDiffer(u)
  BY <1>1 DEF FilesDiffer
<1> QED BY <1>5, <1>6, <1>7 DEF u

LEMMA PopFile ==
  ASSUME NEW s \in Seq(Frame), s # << >>, Last(s).kind = "file",
         NEW names \in Seq(File), NamesFit(s, names)
  PROVE  /\ names # << >> /\ Last(names) = Last(s).file
         /\ NamesFit(Front(s), Front(names))
         /\ Stale(Front(s), Front(names)) = Stale(s, names)
         /\ FilesDiffer(s) => FilesDiffer(Front(s))
<1> DEFINE u == Front(s)
           n == Len(s)
           k == Len(names)
           fewer == SubSeq(names, 1, k - 1)
<1>1. /\ u \in Seq(Frame) /\ Last(s) \in Frame /\ s = Append(u, Last(s))
      /\ Len(u) = n - 1
      /\ \A i \in DOMAIN u : i \in DOMAIN s /\ u[i] = s[i]
  BY FrontAndLast
<1>2. /\ DOMAIN u = 1..Len(u) /\ Len(u) \in Nat /\ n \in Nat /\ k \in Nat
      /\ n \in DOMAIN s /\ Last(s) = s[n] /\ n = Len(u) + 1
  BY <1>1 DEF Last
<1>3. Front(names) = fewer
  BY DEF Front
<1>4. k = Len(names)
  OBVIOUS
<1> HIDE DEF u, n, k
<1>5. ASSUME NEW i \in 1..n
      PROVE  FilesFrom(s, i) = FilesFrom(u, i) + 1 /\ FilesFrom(u, i) \in Nat
  <2>0. i \in Nat /\ i \in 1..(Len(u) + 1)
    BY <1>2
  <2>1. FilesFrom(Append(u, Last(s)), i) = FilesFrom(u, i) + 1
    BY <1>1, <2>0, PushCounts
  <2>2. FilesFrom(u, i) \in Nat
    BY <1>1, <2>0, FilesAreCounted
  <2> QED BY <1>1, <2>1, <2>2, Zenon
<1>6. FilesFrom(u, n) = 0 /\ 1 \in 1..n /\ n \in 1..n
  BY <1>1, <1>2, NoFilesBehind
<1>7. FilesFrom(s, n) = 1 /\ FilesFrom(s, 1) <= k
  BY <1>4, <1>5, <1>6 DEF NamesFit
<1>8. k # 0 /\ FilesFrom(u, 1) <= k - 1
  BY <1>2, <1>5, <1>6, <1>7
<1>9. names[k] = s[n].file
  <2>1. names[k - FilesFrom(s, n) + 1] = s[n].file
    BY <1>2, <1>4 DEF NamesFit
  <2> QED BY <1>2, <1>7, <2>1
<1>10. /\ Len(fewer) = k - 1 /\ k - 1 \in Nat
       /\ \A i \in 1..(k - 1) : fewer[i] = names[i]
       /\ \A m \in 0..(k - 1) : SubSeq(fewer, 1, m) = SubSeq(names, 1, m)
  BY <1>2, <1>4, <1>8
<1> HIDE DEF fewer
<1>11. ASSUME NEW i \in DOMAIN u, u[i].kind = "file"
       PROVE  fewer[(k - 1) - FilesFrom(u, i) + 1] = u[i].file
  <2>1. i \in 1..n /\ FilesFrom(u, i) \in 1..(k - 1)
    <3>1. i \in 1..n
      BY <1>2, <1>11
    <3>2. FilesFrom(u, i) <= FilesFrom(u, 1) /\ FilesFrom(u, i) >= 1
      BY <1>1, <1>11, FileIsCounted
    <3>3. FilesFrom(u, i) \in Nat /\ FilesFrom(u, 1) \in Nat
      BY <1>5, <1>6, <3>1
    <3>4. k - 1 \in Int /\ FilesFrom(u, 1) <= k - 1
      BY <1>2, <1>8
    <3> QED BY <3>1, <3>2, <3>3, <3>4
  <2>2. /\ (k - 1) - FilesFrom(u, i) + 1 \in 1..(k - 1)
        /\ (k - 1) - FilesFrom(u, i) + 1 = k - FilesFrom(s, i) + 1
    BY <1>2, <1>5, <2>1
  <2>3. names[k - FilesFrom(s, i) + 1] = s[i].file /\ s[i] = u[i]
    BY <1>1, <1>4, <1>11 DEF NamesFit
  <2> QED BY <1>10, <2>2, <2>3
<1>12. NamesFit(u, fewer)
  BY <1>8, <1>10, <1>11 DEF NamesFit
<1>13. Stale(u, fewer) = Stale(s, names)
  <2>1. (k - 1) - FilesFrom(u, 1) = k - FilesFrom(s, 1) /\ k - FilesFrom(s, 1) \in 0..(k - 1)
    BY <1>2, <1>5, <1>6, <1>7
  <2> QED BY <1>4, <1>10, <2>1 DEF Stale
<1>14. FilesDiffer(s) => FilesDiffer(u)
  BY <1>1 DEF FilesDiffer
<1>15. names # << >> /\ Last(names) = names[k]
  BY <1>4, <1>8 DEF Last
<1> QED BY <1>2, <1>3, <1>9, <1>12, <1>13, <1>14, <1>15 DEF u

\* A file whose name is not among names is not being parsed.
LEMMA NewFileDiffers ==
  ASSUME NEW s \in Seq(Frame), NEW names \in Seq(File), NamesFit(s, names), NEW f,
         \A i \in 1..Len(names) : names[i] # f
  PROVE  \A i \in DOMAIN s : s[i].kind = "file" => s[i].file # f
<1> SUFFICES ASSUME NEW i \in DOMAIN s, s[i].kind = "file" PROVE s[i].file # f
  OBVIOUS
<1>1. FilesFrom(s, i) <= Len(names) /\ FilesFrom(s, i) >= 1 /\ FilesFrom(s, i) \in Nat
  <2>1. i \in Nat /\ 1 \in Nat
    OBVIOUS
  <2>2. FilesFrom(s, i) \in Nat /\ FilesFrom(s, 1) \in Nat
    BY <2>1, FilesAreCounted
  <2>3. FilesFrom(s, i) <= FilesFrom(s, 1) /\ FilesFrom(s, i) >= 1
    BY FileIsCounted
  <2>4. FilesFrom(s, 1) <= Len(names) /\ Len(names) \in Nat
    BY DEF NamesFit
  <2> QED BY <2>2, <2>3, <2>4
<1>2. Len(names) - FilesFrom(s, i) + 1 \in 1..Len(names)
  BY <1>1
<1> QED BY <1>2 DEF NamesFit

----------------------------------------------------------------------------
(* The inductive invariant, on top of IndInv. *)

\* While @copyFrom is at work its names are entries of the tree or of the
\* fallback, and nothing is removed before it ends.
CopyRuns ==
  copy # NoCopy =>
    /\ exc = "none" /\ stack # << >> /\ Top.kind \notin {"if", "search"}
    /\ copy.todo \subseteq DOMAIN tree \cup DOMAIN fallback

StackInv ==
  /\ exc = "none" => NestFits(stack, currScope)
  /\ exc # "foreign" => NamesFit(stack, fileNameStack)
  /\ IfsFit(stack)
  /\ CopyRuns
  /\ Rooted(fallback)
  /\ ~Opaque => exc # "foreign"
  /\ HashFile = {} => FilesDiffer(stack)

\* What a step does to the names below and to the scope a parse began in.
StackStep ==
  /\ exc # "foreign" => StaleNames' = StaleNames
  /\ stack # << >> /\ stack' = << >> /\ exc' = "none" => currScope' = stack[1].at

\* The part of it that holds of a stack while no exception is on its way.
Sound(s, scope, names) ==
  /\ s \in Seq(Frame)
  /\ NestFits(s, scope)
  /\ NamesFit(s, names)
  /\ IfsFit(s)
  /\ HashFile = {} => FilesDiffer(s)

LEMMA StackIsSound ==
  ASSUME IndInv, StackInv, exc = "none"
  PROVE  Sound(stack, currScope, fileNameStack)
BY DEF IndInv, StackFits, StackInv, Sound

LEMMA StaleNamesAre ==
  /\ StaleNames = Stale(stack, fileNameStack)
  /\ StaleNames' = Stale(stack', fileNameStack')
BY DEF StaleNames, Stale

LEMMA AlikeIsSound ==
  ASSUME NEW s, NEW u, Alike(s, u), IfsFit(u), NEW scope, NEW names, Sound(s, scope, names)
  PROVE  Sound(u, scope, names) /\ Stale(u, names) = Stale(s, names)
<1>1. u \in Seq(Frame)
  BY DEF Alike
<1>2. FilesFrom(u, 1) = FilesFrom(s, 1)
  BY AlikeCounts
<1> QED BY <1>1, <1>2, AlikeFits DEF Sound, Stale

LEMMA PushIfsFit ==
  ASSUME NEW s \in Seq(Frame), IfsFit(s), NEW frame \in Frame, IfFits(frame)
  PROVE  IfsFit(Append(s, frame))
<1> DEFINE u == Append(s, frame)
<1>1. DOMAIN u = 1..(Len(s) + 1) /\ u[Len(s) + 1] = frame /\ DOMAIN s = 1..Len(s)
      /\ \A j \in 1..Len(s) : u[j] = s[j]
  BY AppendProperties
<1>2. \A i \in DOMAIN u : i \in DOMAIN s \/ i = Len(s) + 1
  BY <1>1
<1> HIDE DEF u
<1> QED BY <1>1, <1>2 DEF IfsFit, u

LEMMA PushIsSound ==
  ASSUME NEW s, NEW scope, NEW names, Sound(s, scope, names),
         NEW frame \in Frame, frame.kind # "file", frame.at = scope, IfFits(frame), NEW inner,
         IF frame.kind = "scope" THEN IsStrictPrefix(scope, inner) ELSE inner = scope
  PROVE  /\ Sound(Append(s, frame), inner, names)
         /\ Stale(Append(s, frame), names) = Stale(s, names)
<1>1. s \in Seq(Frame) /\ Append(s, frame) \in Seq(Frame)
  BY DEF Sound
<1>2. NestFits(Append(s, frame), inner)
  BY <1>1, PushNests DEF Sound
<1>3. IfsFit(Append(s, frame))
  BY <1>1, PushIfsFit DEF Sound
<1> QED BY <1>1, <1>2, <1>3, PushOther DEF Sound

LEMMA PushFileIsSound ==
  ASSUME NEW s, NEW scope, NEW names \in Seq(File), Sound(s, scope, names),
         NEW frame \in Frame, frame.kind = "file", frame.at = scope, frame.file \in File,
         HashFile = {} => \A i \in DOMAIN s : s[i].kind = "file" => s[i].file # frame.file
  PROVE  /\ Sound(Append(s, frame), scope, Append(names, frame.file))
         /\ Stale(Append(s, frame), Append(names, frame.file)) = Stale(s, names)
<1>1. s \in Seq(Frame) /\ Append(s, frame) \in Seq(Frame)
  BY DEF Sound
<1>2. NestFits(Append(s, frame), scope)
  BY <1>1, PushNests DEF Sound
<1>3. IfsFit(Append(s, frame))
  BY <1>1, PushIfsFit DEF Sound, IfFits
<1> QED BY <1>1, <1>2, <1>3, PushFile DEF Sound

LEMMA PopIfsFit ==
  ASSUME NEW s \in Seq(Frame), s # << >>, IfsFit(s)
  PROVE  IfsFit(Front(s))
BY FrontAndLast DEF IfsFit

LEMMA PopIsSound ==
  ASSUME NEW s, s # << >>, Last(s).kind # "file", NEW scope, NEW names, Sound(s, scope, names)
  PROVE  /\ Sound(Front(s), Last(s).at, names)
         /\ Stale(Front(s), names) = Stale(s, names)
         /\ Last(s).kind # "scope" => Last(s).at = scope
<1>1. s \in Seq(Frame) /\ Front(s) \in Seq(Frame)
  BY FrontAndLast DEF Sound
<1> QED BY <1>1, PopNests, PopOther, PopIfsFit DEF Sound

LEMMA PopFileIsSound ==
  ASSUME NEW s, s # << >>, Last(s).kind = "file", NEW scope, NEW names \in Seq(File),
         Sound(s, scope, names)
  PROVE  /\ names # << >> /\ Last(names) = Last(s).file
         /\ Sound(Front(s), scope, Front(names))
         /\ Stale(Front(s), Front(names)) = Stale(s, names)
         /\ Last(s).at = scope
<1>1. s \in Seq(Frame) /\ Front(s) \in Seq(Frame)
  BY FrontAndLast DEF Sound
<1>2. Last(s).at = scope /\ NestFits(Front(s), scope)
  BY <1>1, PopNests DEF Sound
<1> QED BY <1>1, <1>2, PopFile, PopIfsFit DEF Sound

----------------------------------------------------------------------------
(* Steps that the actions share. *)

LEMMA RunningStep ==
  ASSUME StackInv, exc = "none", UNCHANGED fallback,
         Sound(stack', currScope', fileNameStack'),
         Stale(stack', fileNameStack') = Stale(stack, fileNameStack),
         exc' \in {"none"} \cup Error,
         stack # << >> /\ stack' = << >> => currScope' = stack[1].at,
         copy' = NoCopy \/ CopyRuns'
  PROVE  StackInv' /\ StackStep
<1>1. CopyRuns'
  BY DEF CopyRuns
<1>2. ~Opaque => exc' # "foreign"
  BY DEF Error
<1>3. Rooted(fallback')
  BY DEF StackInv
<1>4. StackStep
  BY StaleNamesAre DEF StackStep
<1> QED BY <1>1, <1>2, <1>3, <1>4 DEF StackInv, Sound

\* The activations stay: at most what they have counted changes.
LEMMA AlikeStep ==
  ASSUME IndInv, StackInv, exc = "none", UNCHANGED <<currScope, fallback, fileNameStack>>,
         Alike(stack, stack'), IfsFit(stack'), exc' \in {"none"} \cup Error,
         copy' = NoCopy \/ CopyRuns'
  PROVE  StackInv' /\ StackStep
<1>1. /\ Sound(stack', currScope', fileNameStack')
      /\ Stale(stack', fileNameStack') = Stale(stack, fileNameStack)
  BY StackIsSound, AlikeIsSound
<1>2. stack # << >> => stack' # << >>
  BY DEF Alike
<1> QED BY <1>1, <1>2, RunningStep

LEMMA AlikeItself ==
  ASSUME IndInv
  PROVE  Alike(stack, stack)
BY DEF IndInv, StackFits, Alike

LEMMA AdvancedIsAlike ==
  ASSUME IndInv, StackInv, AtStmt
  PROVE  /\ Alike(stack, Advanced) /\ IfsFit(Advanced)
         /\ Advanced # << >> /\ Last(Advanced).kind \notin {"if", "search"}
<1>1. stack # << >> /\ Top.left > 0 /\ Top.kind \notin {"if", "search"}
  BY DEF AtStmt, InStmtList
<1>2. /\ stack \in Seq(Frame) /\ Len(stack) \in DOMAIN stack /\ Top = stack[Len(stack)]
      /\ Top \in Frame
  BY <1>1, TopOfStack
<1>3. Advanced \in Seq(Frame) /\ Advanced # << >> /\ Len(Advanced) = Len(stack)
  BY <1>1, AdvancedFits DEF StackFits
<1>4. \A i \in DOMAIN stack :
        /\ Advanced[i].kind = stack[i].kind /\ Advanced[i].file = stack[i].file
        /\ Advanced[i].at = stack[i].at
        /\ i # Len(stack) => Advanced[i] = stack[i]
  <2>1. \A i \in DOMAIN stack : stack[i] \in Frame
    BY <1>2
  <2> QED BY <1>2, <2>1 DEF Advanced, Frame
<1>5. Alike(stack, Advanced)
  BY <1>2, <1>3, <1>4 DEF Alike
<1>6. DOMAIN Advanced = DOMAIN stack
  BY DEF Advanced
<1>7. IfsFit(Advanced)
  <2>1. \A i \in DOMAIN stack : i # Len(stack) => IfFits(Advanced[i])
    BY <1>4 DEF StackInv, IfsFit
  <2>2. IfFits(Advanced[Len(stack)])
    BY <1>1, <1>2, <1>4 DEF IfFits
  <2> QED BY <1>6, <2>1, <2>2 DEF IfsFit
<1>8. Last(Advanced).kind \notin {"if", "search"}
  BY <1>1, <1>2, <1>3, <1>4 DEF Last
<1> QED BY <1>3, <1>5, <1>7, <1>8

LEMMA AdvancingStep ==
  ASSUME IndInv, StackInv, AtStmt, stack' = Advanced,
         UNCHANGED <<currScope, fallback, fileNameStack>>,
         exc' \in {"none"} \cup Error, copy' = NoCopy \/ CopyRuns'
  PROVE  StackInv' /\ StackStep
<1>1. exc = "none"
  BY DEF AtStmt, InStmtList
<1> QED BY <1>1, AdvancedIsAlike, AlikeStep

\* An activation is entered from the activations u.
LEMMA EnteringStep ==
  ASSUME IndInv, StackInv, exc = "none", copy' = NoCopy, exc' = "none",
         UNCHANGED <<fallback, fileNameStack>>,
         NEW u, Sound(u, currScope, fileNameStack),
         Stale(u, fileNameStack) = Stale(stack, fileNameStack),
         NEW frame \in Frame, frame.kind # "file", frame.at = currScope, IfFits(frame),
         stack' = Append(u, frame),
         IF frame.kind = "scope" THEN IsStrictPrefix(currScope, currScope')
         ELSE currScope' = currScope
  PROVE  StackInv' /\ StackStep
<1>1. /\ Sound(stack', currScope', fileNameStack')
      /\ Stale(stack', fileNameStack') = Stale(stack, fileNameStack)
  BY PushIsSound
<1>2. stack' # << >>
  BY AppendProperties DEF Sound
<1> QED BY <1>1, <1>2, RunningStep

\* The innermost activation returns.
LEMMA ReturningStep ==
  ASSUME IndInv, StackInv, exc = "none", exc' = "none", copy' = NoCopy, stack # << >>,
         stack' = Below, UNCHANGED fallback, currScope' = Top.at,
         IF Top.kind = "file" THEN fileNameStack' = Front(fileNameStack)
         ELSE UNCHANGED fileNameStack
  PROVE  StackInv' /\ StackStep
<1>1. fileNameStack \in Seq(File) /\ stack \in Seq(Frame)
  BY DEF IndInv, StackFits
<1>2. /\ Sound(stack', currScope', fileNameStack')
      /\ Stale(stack', fileNameStack') = Stale(stack, fileNameStack)
  <2>1. CASE Top.kind = "file"
    BY <1>1, <2>1, StackIsSound, PopFileIsSound DEF Top, Below
  <2>2. CASE Top.kind # "file"
    BY <2>2, StackIsSound, PopIsSound DEF Top, Below
  <2> QED BY <2>1, <2>2
<1>3. stack' = << >> => currScope' = stack[1].at
  <2>1. SUFFICES ASSUME stack' = << >> PROVE Len(stack) = 1
    BY DEF Top, Last
  <2>2. Len(Front(stack)) = Len(stack) - 1 /\ Len(stack) \in Nat
    BY <1>1, FrontAndLast
  <2>3. Len(Front(stack)) = 0
    BY <2>1 DEF Below
  <2> QED BY <2>2, <2>3
<1> QED BY <1>2, <1>3, RunningStep

----------------------------------------------------------------------------
(* The actions. *)

LEMMA Outcomes ==
  /\ "none" \in {"none"} \cup Error /\ "config" \in {"none"} \cup Error
  /\ Terminated => exc' \in {"none"} \cup Error
BY DEF Terminated, Error

\* Statements that assign, remove or refuse.
LEMMA SimpleStmtStep ==
  ASSUME IndInv, StackInv,
         \/ \E vec \in Ident, item \in Variable, op \in {"=", "?="} : Assign(vec, item, op)
         \/ \E vec \in Ident, ref \in Ref(Ident), kind \in {"First", "String", "List"},
               op \in {"=", "?="} : AssignFrom(vec, ref, kind, op)
         \/ \E name \in Spelled : RemoveStmt(name)
  PROVE  StackInv' /\ StackStep
<1>1. ASSUME NEW vec, NEW item, NEW op, Assign(vec, item, op)
      PROVE  /\ AtStmt /\ stack' = Advanced
             /\ UNCHANGED <<currScope, fallback, fileNameStack, copy>>
             /\ exc' \in {"none"} \cup Error
  BY <1>1, Outcomes DEF Assign
<1>2. ASSUME NEW vec, NEW ref, NEW kind, NEW op, AssignFrom(vec, ref, kind, op)
      PROVE  /\ AtStmt /\ stack' = Advanced
             /\ UNCHANGED <<currScope, fallback, fileNameStack, copy>>
             /\ exc' \in {"none"} \cup Error
  <2> DEFINE item == Operand(ref, kind)
  <2>1. CASE item \in Variable /\ kind \in {"First", item.type}
    BY <1>1, <1>2, <2>1 DEF AssignFrom
  <2>2. CASE ~(item \in Variable /\ kind \in {"First", item.type})
    BY <1>2, <2>2, Outcomes DEF AssignFrom
  <2> QED BY <2>1, <2>2
<1>3. ASSUME NEW name, RemoveStmt(name)
      PROVE  /\ AtStmt /\ stack' = Advanced
             /\ UNCHANGED <<currScope, fallback, fileNameStack, copy>>
             /\ exc' \in {"none"} \cup Error
  BY <1>3, Outcomes DEF RemoveStmt
<1>4. /\ AtStmt /\ stack' = Advanced
      /\ UNCHANGED <<currScope, fallback, fileNameStack, copy>>
      /\ exc' \in {"none"} \cup Error
  BY <1>1, <1>2, <1>3
<1>5. copy' = NoCopy
  BY <1>4 DEF AtStmt, InStmtList
<1> QED BY <1>4, <1>5, AdvancingStep

LEMMA OpenScopeStep ==
  ASSUME IndInv, StackInv, NEW vec \in Ident, OpenScope(vec)
  PROVE  StackInv' /\ StackStep
<1> DEFINE result == EnsureScopeExists(tree, currScope, vec)
           frame == Activation("scope", Top.left - 1)
<1>1. AtStmt /\ exc = "none" /\ copy' = NoCopy /\ UNCHANGED <<fallback, fileNameStack>>
      /\ stack # << >> /\ Top.left > 0
  BY DEF OpenScope, AtStmt, InStmtList
<1>2. CASE result.ok
  <2>1. currScope' = currScope \o vec /\ stack' = Append(Advanced, frame) /\ exc' = "none"
    BY <1>2 DEF OpenScope
  <2>2. IsStrictPrefix(currScope, currScope')
    <3>1. vec \in Path /\ vec # Root
      BY ScopedNames
    <3> QED BY <2>1, <3>1, TreeFacts, BelowIsLonger
  <2>3. frame \in Frame /\ frame.at = currScope /\ frame.kind = "scope" /\ IfFits(frame)
    <3>1. frame \in Frame /\ frame.at = currScope
      BY <1>1, AdvancedFits, TreeFacts, NewActivation
    <3>2. frame.kind = "scope"
      BY DEF Activation
    <3> QED BY <3>1, <3>2 DEF IfFits
  <2>4. /\ Sound(Advanced, currScope, fileNameStack)
        /\ Stale(Advanced, fileNameStack) = Stale(stack, fileNameStack)
    BY <1>1, AdvancedIsAlike, StackIsSound, AlikeIsSound
  <2> HIDE DEF frame
  <2> QED BY <1>1, <2>1, <2>2, <2>3, <2>4, EnteringStep
<1>3. CASE ~result.ok
  <2>1. stack' = Advanced /\ UNCHANGED currScope /\ exc' \in {"none"} \cup Error
    BY <1>3, Outcomes DEF OpenScope
  <2> QED BY <1>1, <2>1, AdvancingStep
<1> QED BY <1>2, <1>3

\* The @if statement on top of st, once the clause it has met is run or skipped.
Entered(st, run) == IF run THEN [st EXCEPT ![Len(st)].ran = @ + 1] ELSE st

LEMMA ClauseStepFits ==
  ASSUME IndInv, StackInv, exc = "none", copy = NoCopy,
         NEW st \in Seq(Frame), st # << >>, NEW run \in BOOLEAN, stack' = Clause(st, run),
         Sound(Entered(st, run), currScope, fileNameStack),
         Stale(Entered(st, run), fileNameStack) = Stale(stack, fileNameStack),
         stack # << >> => Entered(st, run) # << >>,
         UNCHANGED <<tree, currScope, fallback, exc, fileNameStack, copy>>
  PROVE  StackInv' /\ StackStep
<1> DEFINE frame == Activation("clause", st[Len(st)].left)
<1>1. CASE run
  <2>1. stack' = Append(Entered(st, run), frame)
    BY <1>1 DEF Clause, Entered
  <2>2. frame \in Frame /\ frame.at = currScope /\ frame.kind = "clause"
    <3>1. Len(st) \in DOMAIN st
      OBVIOUS
    <3>2. st[Len(st)].left \in 0..MaxStmts
      BY <3>1, ActivationsInStack
    <3> QED BY <3>2, TreeFacts, NewActivation DEF Activation
  <2>3. IfFits(frame)
    BY <2>2 DEF IfFits
  <2> HIDE DEF frame
  <2> QED BY <2>1, <2>2, <2>3, EnteringStep
<1>2. CASE ~run
  <2>1. stack' = Entered(st, run)
    BY <1>2 DEF Clause, Entered
  <2> QED BY <2>1, Outcomes, RunningStep
<1> QED BY <1>1, <1>2

LEMMA ChangeLast ==
  ASSUME NEW s \in Seq(Frame), NEW old \in Frame, NEW new \in Frame
  PROVE  [Append(s, old) EXCEPT ![Len(s) + 1] = new] = Append(s, new)
<1> DEFINE n == Len(s) + 1
           st == Append(s, old)
           u == [st EXCEPT ![n] = new]
           v == Append(s, new)
<1>1. n \in Nat /\ n \in 1..n /\ \A i \in 1..n : i = n \/ i \in 1..Len(s)
  OBVIOUS
<1>2. /\ st \in Seq(Frame) /\ Len(st) = n /\ \A i \in 1..Len(s) : st[i] = s[i] /\ i # n
      /\ v \in Seq(Frame) /\ Len(v) = n /\ v[n] = new /\ \A i \in 1..Len(s) : v[i] = s[i]
  BY AppendProperties
<1> HIDE DEF n, st, v
<1>3. u \in Seq(Frame) /\ Len(u) = n
  BY <1>1, <1>2
<1>4. u[n] = new /\ \A i \in 1..Len(s) : u[i] = st[i]
  BY <1>1, <1>2
<1> HIDE DEF u
<1>5. \A i \in 1..n : u[i] = v[i]
  BY <1>1, <1>2, <1>4
<1>6. u = v
  BY <1>2, <1>3, <1>5, SeqEqual
<1> QED BY <1>6 DEF n, st, u, v

LEMMA OpenIfStep ==
  ASSUME IndInv, StackInv, NEW condition \in BOOLEAN, OpenIf(condition)
  PROVE  StackInv' /\ StackStep
<1> DEFINE frame == [Activation("if", Top.left - 1) EXCEPT !.taken = condition]
           st == Append(Advanced, frame)
           met == IF condition THEN [frame EXCEPT !.ran = 1] ELSE frame
<1>1. /\ AtStmt /\ exc = "none" /\ copy = NoCopy /\ stack # << >> /\ Top.left > 0
      /\ stack' = Clause(st, condition)
      /\ UNCHANGED <<tree, currScope, fallback, exc, fileNameStack, copy>>
  BY DEF OpenIf, AtStmt, InStmtList
<1>2. /\ frame \in Frame /\ frame.at = currScope /\ frame.kind = "if"
      /\ frame.ran = 0 /\ frame.taken = condition
  <2>1. frame \in Frame /\ frame.at = currScope
    BY <1>1, AdvancedFits, TreeFacts, NewActivation
  <2> QED BY <2>1 DEF Activation
<1> HIDE DEF frame
<1>3. /\ Sound(Advanced, currScope, fileNameStack)
      /\ Stale(Advanced, fileNameStack) = Stale(stack, fileNameStack)
      /\ Advanced \in Seq(Frame)
  BY <1>1, AdvancedIsAlike, StackIsSound, AlikeIsSound DEF Sound
<1>4. st \in Seq(Frame) /\ st # << >>
  BY <1>2, <1>3
<1>5. met \in Frame /\ met.at = currScope /\ met.kind = "if" /\ IfFits(met)
  <2>1. CASE condition
    BY <1>2, <2>1 DEF Frame, IfFits
  <2>2. CASE ~condition
    BY <1>2, <2>2 DEF Frame, IfFits
  <2> QED BY <2>1, <2>2
<1>6. Entered(st, condition) = Append(Advanced, met)
  <2>1. CASE condition
    <3>1. Len(st) = Len(Advanced) + 1 /\ st[Len(st)] = frame
      BY <1>2, <1>3
    <3>2. [frame EXCEPT !.ran = @ + 1] = [frame EXCEPT !.ran = 1]
      BY <1>2
    <3>3. [st EXCEPT ![Len(st)] = met] = Append(Advanced, met)
      <4> HIDE DEF met
      <4>1. [Append(Advanced, frame) EXCEPT ![Len(Advanced) + 1] = met] = Append(Advanced, met)
        BY <1>2, <1>3, <1>5, ChangeLast
      <4> QED BY <3>1, <4>1
    <3> QED BY <2>1, <3>1, <3>2, <3>3 DEF Entered
  <2>2. CASE ~condition
    BY <2>2 DEF Entered
  <2> QED BY <2>1, <2>2
<1>7. /\ Sound(Entered(st, condition), currScope, fileNameStack)
      /\ Stale(Entered(st, condition), fileNameStack) = Stale(stack, fileNameStack)
  BY <1>3, <1>5, <1>6, PushIsSound
<1>8. Entered(st, condition) # << >>
  BY <1>3, <1>5, <1>6
<1> QED BY <1>1, <1>4, <1>7, <1>8, ClauseStepFits

\* @elseif and @else: the activation on top changes to met, and counts the
\* clause if it is run.
LEMMA NextClauseStep ==
  ASSUME IndInv, StackInv, BetweenClauses, NEW frame \in Frame,
         frame.kind = "if", frame.file = Top.file, frame.at = Top.at, NEW run \in BOOLEAN,
         IfFits(IF run THEN [frame EXCEPT !.ran = @ + 1] ELSE frame),
         stack' = Clause([stack EXCEPT ![Len(stack)] = frame], run),
         UNCHANGED <<tree, currScope, fallback, exc, fileNameStack, copy>>
  PROVE  StackInv' /\ StackStep
<1> DEFINE k == Len(stack)
           st == [stack EXCEPT ![k] = frame]
           met == IF run THEN [frame EXCEPT !.ran = @ + 1] ELSE frame
           u == [stack EXCEPT ![k] = met]
<1>1. exc = "none" /\ stack # << >> /\ Top.kind = "if" /\ copy = NoCopy
  BY DEF BetweenClauses, StackInv, CopyRuns
<1>2. stack \in Seq(Frame) /\ k \in DOMAIN stack /\ Top = stack[k]
  BY <1>1, TopOfStack
<1>3. /\ met \in Frame /\ met.kind = "if" /\ met.file = Top.file /\ met.at = Top.at
      /\ IfFits(met)
  <2>1. CASE run
    BY <2>1 DEF Frame
  <2>2. CASE ~run
    BY <2>2
  <2> QED BY <2>1, <2>2
<1>4. st \in Seq(Frame) /\ st # << >> /\ Len(st) = k /\ st[k] = frame
  BY <1>2
<1>5. Entered(st, run) = u
  <2>1. CASE run
    <3>1. [st EXCEPT ![Len(st)].ran = @ + 1] = [st EXCEPT ![k] = met]
      BY <1>4, <2>1
    <3>2. [st EXCEPT ![k] = met] = u
      BY <1>2
    <3> QED BY <2>1, <3>1, <3>2 DEF Entered
  <2>2. CASE ~run
    BY <2>2 DEF Entered
  <2> QED BY <2>1, <2>2
<1> HIDE DEF met
<1>6. /\ u \in Seq(Frame) /\ DOMAIN u = DOMAIN stack /\ Len(u) = Len(stack) /\ u # << >>
      /\ u[k] = met /\ \A i \in DOMAIN stack : i # k => u[i] = stack[i]
  BY <1>2, <1>3
<1> HIDE DEF u
<1>7. Alike(stack, u)
  BY <1>1, <1>2, <1>3, <1>6 DEF Alike
<1>8. IfsFit(u)
  BY <1>3, <1>6 DEF IfsFit, StackInv
<1>9. Sound(u, currScope, fileNameStack) /\ Stale(u, fileNameStack) = Stale(stack, fileNameStack)
  BY <1>1, <1>7, <1>8, StackIsSound, AlikeIsSound
<1>10. stack' = Clause(st, run)
  OBVIOUS
<1> HIDE DEF st
<1> QED BY <1>1, <1>4, <1>5, <1>6, <1>9, <1>10, ClauseStepFits

LEMMA ElseIfStep ==
  ASSUME IndInv, StackInv, NEW condition \in BOOLEAN, ElseIf(condition)
  PROVE  StackInv' /\ StackStep
<1> DEFINE frame == [Top EXCEPT !.left = @ - 1, !.taken = @ \/ condition]
           run == ~Top.taken /\ condition
<1>1. /\ BetweenClauses /\ stack # << >> /\ Top.kind = "if" /\ Top.left > 0
      /\ stack' = Clause([Advanced EXCEPT ![Len(stack)].taken = @ \/ condition], run)
      /\ UNCHANGED <<tree, currScope, fallback, exc, fileNameStack, copy>>
  BY DEF ElseIf, BetweenClauses
<1>2. /\ stack \in Seq(Frame) /\ Len(stack) \in DOMAIN stack /\ Top = stack[Len(stack)]
      /\ Top \in Frame /\ Top.left - 1 \in 0..MaxStmts
  BY <1>1, TopOfStack, AdvancedFits
<1>3. [Advanced EXCEPT ![Len(stack)].taken = @ \/ condition] = [stack EXCEPT ![Len(stack)] = frame]
  BY <1>2 DEF Advanced, Frame
<1>4. frame \in Frame /\ frame.kind = "if" /\ frame.file = Top.file /\ frame.at = Top.at
  BY <1>1, <1>2 DEF Frame
<1>5. IfFits(Top) /\ Top.taken \in BOOLEAN /\ Top.ran \in Nat
  BY <1>2 DEF StackInv, IfsFit, Frame
<1>6. IfFits(IF run THEN [frame EXCEPT !.ran = @ + 1] ELSE frame)
  <2>1. /\ frame.ran = Top.ran /\ frame.taken = (Top.taken \/ condition)
        /\ ~Top.taken => Top.ran = 0
    BY <1>1, <1>2, <1>5 DEF IfFits, Frame
  <2>2. CASE run
    <3>1. frame.taken /\ frame.ran = 0
      BY <2>1, <2>2
    <3> HIDE DEF frame
    <3>2. [frame EXCEPT !.ran = @ + 1].ran = 1
      BY <1>4, <3>1 DEF Frame
    <3>3. [frame EXCEPT !.ran = @ + 1].taken
      BY <1>4, <3>1 DEF Frame
    <3> QED BY <2>2, <3>2, <3>3 DEF IfFits
  <2>3. CASE ~run
    <3>1. frame.taken <=> Top.taken
      BY <1>5, <2>1, <2>3
    <3> HIDE DEF frame
    <3>2. IfFits(frame)
      BY <1>1, <1>5, <2>1, <3>1 DEF IfFits
    <3> QED BY <2>3, <3>2
  <2> QED BY <2>2, <2>3
<1>7. run \in BOOLEAN
  OBVIOUS
<1> HIDE DEF frame, run
<1> QED BY <1>1, <1>3, <1>4, <1>6, <1>7, NextClauseStep

LEMMA ElseStep ==
  ASSUME IndInv, StackInv, Else
  PROVE  StackInv' /\ StackStep
<1> DEFINE frame == [Top EXCEPT !.left = 0]
           run == ~Top.taken
<1>1. /\ BetweenClauses /\ stack # << >> /\ Top.kind = "if" /\ Top.left > 0
      /\ stack' = Clause([stack EXCEPT ![Len(stack)].left = 0], run)
      /\ UNCHANGED <<tree, currScope, fallback, exc, fileNameStack, copy>>
  BY DEF Else, BetweenClauses
<1>2. /\ stack \in Seq(Frame) /\ Len(stack) \in DOMAIN stack /\ Top = stack[Len(stack)]
      /\ Top \in Frame
  BY <1>1, TopOfStack
<1>3. [stack EXCEPT ![Len(stack)].left = 0] = [stack EXCEPT ![Len(stack)] = frame]
  BY <1>2
<1>4. /\ frame \in Frame /\ frame.kind = "if" /\ frame.file = Top.file /\ frame.at = Top.at
      /\ frame.left = 0 /\ frame.ran = Top.ran /\ frame.taken = Top.taken
  <2>1. 0 \in 0..MaxStmts
    BY ParserBounds
  <2>2. frame \in Frame
    BY <1>2, <2>1 DEF Frame
  <2>3. frame.kind = Top.kind /\ frame.file = Top.file /\ frame.at = Top.at
        /\ frame.left = 0 /\ frame.ran = Top.ran
    BY <1>2 DEF Frame
  <2>4. frame.taken = Top.taken
    BY <1>2 DEF Frame
  <2> QED BY <1>1, <2>2, <2>3, <2>4
<1>5. IfFits(Top) /\ Top.taken \in BOOLEAN /\ Top.ran \in Nat
  BY <1>2 DEF StackInv, IfsFit, Frame
<1>6. ~Top.taken => Top.ran = 0
  BY <1>1, <1>5 DEF IfFits
<1>7. IfFits(IF run THEN [frame EXCEPT !.ran = @ + 1] ELSE frame)
  <2> HIDE DEF frame
  <2>1. CASE run
    <3>1. LET met == [frame EXCEPT !.ran = @ + 1]
          IN  met.ran = 1 /\ met.left = 0 /\ met.taken = Top.taken
      BY <1>4, <1>6, <2>1 DEF Frame
    <3> QED BY <2>1, <3>1 DEF IfFits
  <2>2. CASE ~run
    <3>1. IfFits(frame)
      BY <1>1, <1>4, <1>5, <2>2 DEF IfFits
    <3> QED BY <2>2, <3>1
  <2> QED BY <2>1, <2>2
<1>8. run \in BOOLEAN
  OBVIOUS
<1> HIDE DEF frame, run
<1> QED BY <1>1, <1>3, <1>4, <1>7, <1>8, NextClauseStep

LEMMA LeavingBlockStep ==
  ASSUME IndInv, StackInv, CloseScope \/ CloseClause \/ EndIf
  PROVE  StackInv' /\ StackStep
<1>1. /\ stack # << >> /\ exc = "none" /\ exc' = "none" /\ stack' = Below /\ Top.kind # "file"
      /\ UNCHANGED <<fallback, fileNameStack, copy>>
  BY DEF CloseScope, CloseClause, EndIf, InStmtList, BetweenClauses
<1>2. copy' = NoCopy
  BY <1>1 DEF CloseScope, CloseClause, EndIf, InStmtList, BetweenClauses, StackInv, CopyRuns
<1>3. currScope' = Top.at
  <2>1. Top.kind # "scope" => Top.at = currScope
    BY <1>1, StackIsSound, PopIsSound DEF Top
  <2> QED BY <2>1 DEF CloseScope, CloseClause, EndIf, InStmtList, BetweenClauses
<1> QED BY <1>1, <1>2, <1>3, ReturningStep

LEMMA StmtErrorStep ==
  ASSUME IndInv, StackInv, StmtError
  PROVE  StackInv' /\ StackStep
<1>1. /\ exc = "none" /\ exc' \in {"none"} \cup Error /\ IfsFit(stack')
      /\ UNCHANGED <<currScope, fallback, fileNameStack, stack>>
  BY DEF StmtError, InStmtList, BetweenClauses, StackInv
<1>2. copy' = NoCopy
  BY DEF StmtError, InStmtList, BetweenClauses, StackInv, CopyRuns
<1> QED BY <1>1, <1>2, AlikeItself, AlikeStep

LEMMA SearchStep ==
  ASSUME IndInv, StackInv, SearchForever \/ SearchOn
  PROVE  StackInv' /\ StackStep
<1> DEFINE frame == Activation("search", 0)
<1>1. /\ exc = "none" /\ stack # << >> /\ copy = NoCopy
      /\ UNCHANGED <<tree, currScope, fallback, exc, fileNameStack, copy>>
  BY DEF SearchForever, SearchOn, Endless, AtStmt, InStmtList, BetweenClauses, vars,
         StackInv, CopyRuns
<1>2. CASE SearchForever
  <2>1. frame \in Frame /\ frame.at = currScope
    BY TreeFacts, NewActivation, ParserBounds
  <2>2. frame.kind = "search"
    BY DEF Activation
  <2>3. IfFits(frame)
    BY <2>2 DEF IfFits
  <2>4. stack' = Append(stack, frame)
    BY <1>2 DEF SearchForever
  <2>5. Sound(stack, currScope, fileNameStack)
    BY <1>1, StackIsSound
  <2> HIDE DEF frame
  <2> QED BY <1>1, <2>1, <2>2, <2>3, <2>4, <2>5, EnteringStep
<1>3. CASE SearchOn
  <2>1. UNCHANGED stack /\ IfsFit(stack')
    BY <1>3 DEF SearchOn, vars, StackInv
  <2> QED BY <1>1, <2>1, AlikeItself, AlikeStep
<1> QED BY <1>2, <1>3

----------------------------------------------------------------------------
(* @copyFrom. *)

LEMMA StartCopyStep ==
  ASSUME IndInv, StackInv, NEW from, NEW ifExists, StartCopy(from, ifExists)
  PROVE  StackInv' /\ StackStep
<1> DEFINE item == Lookup(tree, fallback, currScope, from, TRUE)
           started == [from |-> from, names |-> Listing(from),
                       todo |-> DOMAIN Listing(from), last |-> from.vec]
<1>1. /\ AtStmt /\ stack' = Advanced /\ copy = NoCopy
      /\ UNCHANGED <<tree, currScope, fallback, fileNameStack>>
  BY DEF StartCopy, AtStmt, InStmtList
<1>2. \/ exc' \in {"none"} \cup Error /\ copy' = copy
      \/ exc' = "none" /\ copy' = started
  <2>1. CASE CopiesFromOwnOrParent(from)
    BY <2>1, Outcomes DEF StartCopy
  <2>2. CASE ~CopiesFromOwnOrParent(from) /\ item = NoItem
    <3>1. (IF ifExists THEN Terminated ELSE exc' = "config") /\ UNCHANGED copy
      BY <2>2 DEF StartCopy
    <3> QED BY <3>1, Outcomes
  <2>3. CASE ~CopiesFromOwnOrParent(from) /\ item # NoItem /\ item.type # "Scope"
    BY <2>3, Outcomes DEF StartCopy
  <2>4. CASE /\ ~CopiesFromOwnOrParent(from) /\ item # NoItem
             /\ ~(item # NoItem /\ item.type # "Scope")
    BY <2>4 DEF StartCopy
  <2> QED BY <2>1, <2>2, <2>3, <2>4
<1>3. CASE exc' \in {"none"} \cup Error /\ copy' = copy
  BY <1>1, <1>3, AdvancingStep
<1>4. CASE exc' = "none" /\ copy' = started
  <2>1. copy'.todo \subseteq DOMAIN tree \cup DOMAIN fallback
    BY <1>4 DEF Listing, CopySource
  <2>2. stack' # << >> /\ Last(stack').kind \notin {"if", "search"}
    BY <1>1, AdvancedIsAlike
  <2>3. CopyRuns'
    BY <1>1, <1>4, <2>1, <2>2 DEF CopyRuns, Top
  <2> QED BY <1>1, <1>4, <2>3, Outcomes, AdvancingStep
<1> QED BY <1>2, <1>3, <1>4

\* The assertion of the loop holds: whatever was copied before, each name that
\* was listed is still found.
LEMMA CopyItemStep ==
  ASSUME IndInv, StackInv, NEW p \in copy.todo, CopyItem(p)
  PROVE  StackInv' /\ StackStep
<1> DEFINE item == Lookup(tree, fallback, currScope, [rooted |-> FALSE, vec |-> p], TRUE)
<1>1. /\ copy # NoCopy /\ exc = "none"
      /\ UNCHANGED <<currScope, fallback, fileNameStack, stack>>
  BY DEF CopyItem
<1>2. p \in DOMAIN tree \cup DOMAIN fallback
  BY <1>1 DEF StackInv, CopyRuns
<1>3. item # NoItem
  BY <1>2, TreeFacts, ListedNameIsFound DEF StackInv
<1>4. \/ exc' = "none" /\ copy' = [copy EXCEPT !.todo = @ \ {p}, !.last = p]
      \/ exc' = "config" /\ copy' = NoCopy
  BY <1>3 DEF CopyItem
<1>5. IfsFit(stack')
  BY <1>1 DEF StackInv
<1>6. CASE exc' = "none" /\ copy' = [copy EXCEPT !.todo = @ \ {p}, !.last = p]
  <2>1. copy'.todo \subseteq copy.todo
    BY <1>6
  <2>2. DOMAIN tree \subseteq DOMAIN tree'
    BY CopyItemKeeps
  <2>3. CopyRuns'
    BY <1>1, <1>6, <2>1, <2>2 DEF StackInv, CopyRuns, Top
  <2> QED BY <1>1, <1>5, <1>6, <2>3, Outcomes, AlikeItself, AlikeStep
<1>7. CASE exc' = "config" /\ copy' = NoCopy
  BY <1>1, <1>5, <1>7, Outcomes, AlikeItself, AlikeStep
<1> QED BY <1>4, <1>6, <1>7

LEMMA EndCopyStep ==
  ASSUME IndInv, StackInv, EndCopy
  PROVE  StackInv' /\ StackStep
<1>1. /\ exc = "none" /\ copy' = NoCopy /\ exc' \in {"none"} \cup Error
      /\ UNCHANGED <<currScope, fallback, fileNameStack, stack>>
  BY Outcomes DEF EndCopy
<1>2. IfsFit(stack')
  BY <1>1 DEF StackInv
<1> QED BY <1>1, <1>2, AlikeItself, AlikeStep

----------------------------------------------------------------------------
(* Files, and the way of an exception. *)

LEMMA OpenFileStep ==
  ASSUME IndInv, StackInv, exc = "none", NEW f \in File, NEW ifExists, NEW under,
         Sound(under, currScope, fileNameStack),
         Stale(under, fileNameStack) = Stale(stack, fileNameStack),
         stack # << >> => under # << >>,
         HashFile = {} => \A i \in DOMAIN under : under[i].kind = "file" => under[i].file # f,
         OpenFile(f, ifExists, under), copy' = NoCopy, UNCHANGED <<currScope, fallback>>
  PROVE  StackInv' /\ StackStep
<1> DEFINE frame == [Activation("file", MaxStmts) EXCEPT !.file = f]
<1>1. exc' \in {"none"} \cup Error
  BY Outcomes DEF OpenFile
<1>2. CASE stack' = under /\ UNCHANGED fileNameStack
  BY <1>1, <1>2, RunningStep
<1>3. CASE fileNameStack' = Append(fileNameStack, f) /\ stack' = Append(under, frame)
  <2>1. frame \in Frame /\ frame.at = currScope /\ frame.kind = "file" /\ frame.file = f
    <3>1. frame \in Frame /\ frame.at = currScope
      BY TreeFacts, ParserBounds, NewActivation
    <3> QED BY <3>1 DEF Activation
  <2> HIDE DEF frame
  <2>2. /\ Sound(stack', currScope', fileNameStack')
        /\ Stale(stack', fileNameStack') = Stale(stack, fileNameStack)
    BY <1>3, <2>1, TreeFacts, PushFileIsSound
  <2>3. stack' # << >>
    BY <1>3, <2>1, AppendProperties DEF Sound
  <2> QED BY <1>1, <2>2, <2>3, RunningStep
<1> QED BY <1>2, <1>3 DEF OpenFile

LEMMA ParseStep ==
  ASSUME IndInv, StackInv, NEW f \in File, Parse(f)
  PROVE  StackInv' /\ StackStep
<1>1. /\ stack = << >> /\ exc = "none" /\ OpenFile(f, FALSE, stack)
      /\ UNCHANGED <<currScope, fallback, copy>>
  BY DEF Parse, Idle
<1>2. copy' = NoCopy
  BY <1>1 DEF StackInv, CopyRuns
<1>3. \A i \in DOMAIN stack : FALSE
  BY <1>1
<1> QED BY <1>1, <1>2, <1>3, StackIsSound, OpenFileStep

LEMMA IncludeStep ==
  ASSUME IndInv, StackInv, NEW f \in File, NEW hashed \in BOOLEAN, NEW ifExists,
         Include(f, hashed, ifExists)
  PROVE  StackInv' /\ StackStep
<1>1. /\ AtStmt /\ exc = "none" /\ copy' = NoCopy /\ UNCHANGED <<currScope, fallback>>
      /\ hashed => f \in HashFile
  BY DEF Include, AtStmt, InStmtList
<1>2. CASE currScope # Root \/ IsCircular(f, hashed)
  <2>1. exc' = "config" /\ stack' = Advanced /\ UNCHANGED fileNameStack
    BY <1>2 DEF Include
  <2> QED BY <1>1, <2>1, Outcomes, AdvancingStep
<1>3. CASE ~(currScope # Root \/ IsCircular(f, hashed))
  <2>1. OpenFile(f, ifExists, Advanced)
    BY <1>3 DEF Include
  <2>2. /\ Sound(Advanced, currScope, fileNameStack) /\ Advanced # << >>
        /\ Stale(Advanced, fileNameStack) = Stale(stack, fileNameStack)
    BY <1>1, AdvancedIsAlike, StackIsSound, AlikeIsSound
  <2>3. HashFile = {} =>
          \A i \in DOMAIN Advanced : Advanced[i].kind = "file" => Advanced[i].file # f
    <3>1. ASSUME HashFile = {} PROVE \A i \in 1..Len(fileNameStack) : fileNameStack[i] # f
      BY <1>1, <1>3, <3>1 DEF IsCircular
    <3>2. fileNameStack \in Seq(File) /\ Advanced \in Seq(Frame) /\ NamesFit(Advanced, fileNameStack)
      BY <2>2, TreeFacts DEF Sound
    <3> QED BY <3>1, <3>2, NewFileDiffers
  <2> QED BY <1>1, <2>1, <2>2, <2>3, OpenFileStep
<1> QED BY <1>2, <1>3

\* The assertion of popIncludedFilename holds when a constructor returns.
LEMMA EndFileStep ==
  ASSUME IndInv, StackInv, EndFile
  PROVE  StackInv' /\ StackStep
<1>1. /\ stack # << >> /\ exc = "none" /\ stack' = Below /\ Top.kind = "file"
      /\ UNCHANGED <<currScope, fallback>> /\ copy' = NoCopy
  BY DEF EndFile, InStmtList
<1>2. fileNameStack # << >> /\ Last(fileNameStack) = Top.file /\ Top.at = currScope
  BY <1>1, TreeFacts, StackIsSound, PopFileIsSound DEF Top
<1>3. fileNameStack' = Front(fileNameStack) /\ exc' = "none"
  BY <1>2 DEF EndFile
<1> QED BY <1>1, <1>2, <1>3, ReturningStep

\* ... and when an exception leaves it.
LEMMA UnwindStep ==
  ASSUME IndInv, StackInv, Unwind
  PROVE  StackInv' /\ StackStep
<1>1. /\ exc # "none" /\ stack # << >> /\ stack' = Below /\ stack \in Seq(Frame)
      /\ UNCHANGED <<tree, currScope, fallback, copy>> /\ fileNameStack \in Seq(File)
  BY TreeFacts DEF Unwind, StackFits
<1>2. copy' = NoCopy
  BY <1>1 DEF StackInv, CopyRuns
<1>3. IfsFit(stack')
  BY <1>1, PopIfsFit DEF StackInv, Below
<1>4. CASE Top.kind = "file" /\ exc = "config"
  <2>1. NamesFit(stack, fileNameStack) /\ Last(stack).kind = "file"
    BY <1>4 DEF StackInv, Top
  <2>2. /\ fileNameStack # << >> /\ Last(fileNameStack) = Top.file
        /\ NamesFit(Front(stack), Front(fileNameStack))
        /\ Stale(Front(stack), Front(fileNameStack)) = Stale(stack, fileNameStack)
        /\ FilesDiffer(stack) => FilesDiffer(Front(stack))
    BY <1>1, <2>1, PopFile DEF Top
  <2>3. fileNameStack' = Front(fileNameStack) /\ UNCHANGED exc
    BY <1>4, <2>2 DEF Unwind
  <2>4. StackStep
    BY <1>1, <2>2, <2>3, StaleNamesAre DEF StackStep, Below
  <2> QED BY <1>1, <1>2, <1>3, <1>4, <2>2, <2>3, <2>4 DEF StackInv, CopyRuns, Below
<1>5. CASE ~(Top.kind = "file" /\ exc = "config")
  <2>1. UNCHANGED <<exc, fileNameStack>>
    BY <1>5 DEF Unwind
  <2>2. /\ exc # "foreign" =>
             /\ NamesFit(stack', fileNameStack')
             /\ Stale(stack', fileNameStack') = Stale(stack, fileNameStack)
    <3>1. exc \in Exception
      BY TreeFacts
    <3>2. ASSUME exc # "foreign"
          PROVE  Last(stack).kind # "file" /\ NamesFit(stack, fileNameStack)
      BY <1>1, <1>5, <3>1, <3>2 DEF Exception, Top, StackInv
    <3> QED BY <1>1, <2>1, <3>2, PopOther DEF Below
  <2>3. FilesDiffer(stack) => FilesDiffer(stack')
    BY <1>1, FrontAndLast DEF Below, FilesDiffer
  <2>4. StackStep
    BY <1>1, <2>1, <2>2, StaleNamesAre DEF StackStep
  <2> QED BY <1>1, <1>2, <1>3, <2>1, <2>2, <2>3, <2>4 DEF StackInv, CopyRuns
<1> QED BY <1>4, <1>5

----------------------------------------------------------------------------
(* Calls between two parses, and all steps. *)

LEMMA EmptyStack ==
  /\ \A scope : NestFits(<< >>, scope)
  /\ IfsFit(<< >>) /\ FilesDiffer(<< >>)
  /\ \A names \in Seq(File) : NamesFit(<< >>, names)
<1>1. << >> \in Seq(Frame) /\ Len(<< >>) + 1 = 1
  OBVIOUS
<1>2. FilesFrom(<< >>, 1) = 0
  <2>1. FilesFrom(<< >>, Len(<< >>) + 1) = 0
    BY <1>1, NoFilesBehind, Zenon
  <2> QED BY <1>1, <2>1, Zenon
<1> QED BY <1>2 DEF NestFits, IfsFit, FilesDiffer, NamesFit

LEMMA ApiCallStep ==
  ASSUME IndInv, StackInv, ApiCall
  PROVE  StackInv' /\ StackStep
<1>1. /\ stack = << >> /\ stack' = << >> /\ UNCHANGED <<fileNameStack, copy>>
      /\ fileNameStack \in Seq(File)
  BY TreeFacts DEF ApiCall, parserVars
<1>2. copy' = NoCopy
  BY <1>1 DEF StackInv, CopyRuns
<1>3. Rooted(fallback') /\ exc' \in {"none", "config"}
  <2>1. Rooted(EmptyTree) /\ Rooted(fallback)
    BY EmptyTreeIsTree DEF StackInv
  <2>2. CASE \E vec \in Vec(MaxDepth) :
               \/ \E item \in Variable : InsertItem(vec, item)
               \/ EnsureScope(vec) \/ RemoveEntry(vec)
    BY <2>1, <2>2 DEF InsertItem, EnsureScope, RemoveEntry, Take
  <2>3. CASE EmptyConfig \/ Catch
    BY <2>1, <2>3 DEF EmptyConfig, Catch
  <2>4. CASE \E t \in Fallbacks : SetFallback(t)
    BY <2>4, FallbacksAreTrees DEF SetFallback
  <2> QED BY <2>2, <2>3, <2>4 DEF ApiCall, Call
<1>4. StackInv'
  BY <1>1, <1>2, <1>3, EmptyStack DEF StackInv, CopyRuns
<1>5. StackStep
  BY <1>1, StaleNamesAre DEF StackStep
<1> QED BY <1>4, <1>5

LEMMA InitStackInv == Init => StackInv
<1> SUFFICES ASSUME Init PROVE StackInv
  OBVIOUS
<1>1. /\ fallback = EmptyTree /\ exc = "none"
      /\ fileNameStack = << >> /\ stack = << >> /\ copy = NoCopy
  BY DEF Init, ConfigInit
<1>2. << >> \in Seq(File)
  OBVIOUS
<1>3. /\ NestFits(stack, currScope) /\ NamesFit(stack, fileNameStack) /\ IfsFit(stack)
      /\ FilesDiffer(stack)
  BY <1>1, <1>2, EmptyStack, Zenon
<1> QED BY <1>1, <1>3, EmptyTreeIsTree DEF StackInv, CopyRuns

LEMMA StatementStep ==
  ASSUME IndInv, StackInv, Statement
  PROVE  StackInv' /\ StackStep
<1>1. CASE \E vec \in Ident : OpenScope(vec)
  BY <1>1, OpenScopeStep
<1>2. CASE \E condition \in BOOLEAN : OpenIf(condition) \/ ElseIf(condition)
  BY <1>2, OpenIfStep, ElseIfStep
<1>3. CASE \E from \in Ref(Vec(MaxDepth)), ifExists \in BOOLEAN : StartCopy(from, ifExists)
  BY <1>3, StartCopyStep
<1>4. CASE \E f \in File, hashed, ifExists \in BOOLEAN : Include(f, hashed, ifExists)
  BY <1>4, IncludeStep
<1>5. CASE EndCopy \/ \E p \in copy.todo : CopyItem(p)
  BY <1>5, EndCopyStep, CopyItemStep
<1>6. CASE Else \/ StmtError \/ EndFile \/ Unwind
  BY <1>6, ElseStep, StmtErrorStep, EndFileStep, UnwindStep
<1>7. CASE SearchForever \/ SearchOn
  BY <1>7, SearchStep
<1> QED BY <1>1, <1>2, <1>3, <1>4, <1>5, <1>6, <1>7, SimpleStmtStep, LeavingBlockStep DEF Statement

LEMMA NextStackInv == IndInv /\ StackInv /\ [Next]_vars => StackInv' /\ [StackStep]_vars
<1> SUFFICES ASSUME IndInv, StackInv, [Next]_vars PROVE StackInv' /\ [StackStep]_vars
  OBVIOUS
<1>1. CASE Next
  BY <1>1, StatementStep, ParseStep, ApiCallStep DEF Next
<1>2. CASE UNCHANGED vars
  BY <1>2 DEF vars, StackInv, CopyRuns, Top
<1> QED BY <1>1, <1>2

\* The scopes the activations were entered in nest, the stack of file names has the
\* names of the files being parsed, and a copy's names are entries until it ends.
THEOREM StackInvHolds == Spec => []StackInv
<1>1. IndInv /\ StackInv /\ [Next]_vars => StackInv'
  BY NextStackInv
<1> QED BY <1>1, InitStackInv, IndInvHolds, PTL DEF Spec

----------------------------------------------------------------------------
(* A copy that does not meet its source: the names that are listed, and what *)
(* they stand for while the loop of parseCopyStmt runs.                      *)

\* The first names of a copy's name are the copy's name of the scope around it.
LEMMA NewNameOfScope ==
  ASSUME NEW from \in Reference, NEW p \in Path, IsStrictPrefix(from.vec, p),
         NEW i \in 1..Len(NewName(from, p))
  PROVE  LET n == Len(from.vec) + i
         IN  /\ n \in 1..Len(p)
             /\ SubSeq(NewName(from, p), 1, i) = NewName(from, SubSeq(p, 1, n))
<1> DEFINE v == from.vec
           m == Len(v)
           n == m + i
           q == SubSeq(p, 1, n)
           rest == SubSeq(p, m + 1, Len(p))
           front == SubSeq(q, m + 1, Len(q))
<1>1. /\ v \in Path /\ m \in Nat /\ Len(p) \in Nat /\ m < Len(p)
      /\ rest \in Path /\ Len(rest) = Len(p) - m
  BY PathFromParts DEF Reference, Path
<1>2. Chop \in [Name -> Name]
  BY ChopGivesNames
<1>3. Len(NewName(from, p)) = Len(rest)
  <2> HIDE DEF rest, m
  <2>0. rest \in Seq(Name) /\ Len(rest) \in Nat /\ Len(rest) > 0
    BY <1>1 DEF Path
  <2>1. Head(rest) \in Name /\ Tail(rest) \in Seq(Name) /\ Len(Tail(rest)) = Len(rest) - 1
    BY <2>0
  <2>2. Len(<<Chop[Head(rest)]>> \o Tail(rest)) = Len(rest)
    BY <1>1, <1>2, <2>1
  <2> QED BY <2>2 DEF NewName, rest, m
<1>4. n \in 1..Len(p) /\ i \in 1..Len(rest) /\ n \in 0..Len(p)
  BY <1>1, <1>3
<1>5. q \in Path /\ Len(q) = n
  BY <1>4, FirstNames
<1>6. front = SubSeq(rest, 1, i)
  <2>1. i \in 1..(Len(p) - m)
    BY <1>1, <1>4
  <2>2. SubSeq(SubSeq(p, 1, m + i), m + 1, m + i) = SubSeq(rest, 1, i)
    BY <1>1, <2>1, FirstNamesOfRest
  <2> QED BY <1>5, <2>2, Zenon
<1>7. SubSeq(NewName(from, p), 1, i) = NewName(from, q)
  <2>1. CASE ~from.rooted
    BY <1>6, <2>1 DEF NewName
  <2>2. CASE from.rooted
    <3>1. NewName(from, p) = <<Chop[Head(rest)]>> \o Tail(rest)
      BY <2>2 DEF NewName
    <3>2. NewName(from, q) = <<Chop[Head(front)]>> \o Tail(front)
      BY <2>2 DEF NewName
    <3> HIDE DEF rest, front
    <3>3. Head(front) = Head(rest) /\ Tail(front) = SubSeq(Tail(rest), 1, i - 1)
      BY <1>1, <1>4, <1>6 DEF Path
    <3>4. SubSeq(<<Chop[Head(rest)]>> \o Tail(rest), 1, i) = <<Chop[Head(rest)]>> \o SubSeq(Tail(rest), 1, i - 1)
      BY <1>1, <1>2, <1>4 DEF Path
    <3> QED BY <3>1, <3>2, <3>3, <3>4
  <2> QED BY <2>1, <2>2
<1> QED BY <1>4, <1>7

\* Apart from a dot in front, no two entries of a source get the same name.
LEMMA NewNamesDiffer ==
  ASSUME NEW from \in Reference, ~from.rooted, NEW scope \in Path,
         NEW p \in Path, IsStrictPrefix(from.vec, p),
         NEW q \in Path, IsStrictPrefix(from.vec, q),
         scope \o NewName(from, p) = scope \o NewName(from, q)
  PROVE  p = q
<1> DEFINE rest(r) == SubSeq(r, Len(from.vec) + 1, Len(r))
<1>1. from.vec \in Path
  BY DEF Reference
<1>2. NewName(from, p) = rest(p) /\ NewName(from, q) = rest(q)
  BY DEF NewName
<1>3. rest(p) \in Path /\ p = from.vec \o rest(p) /\ rest(q) \in Path /\ q = from.vec \o rest(q)
  BY <1>1, PathFromParts
<1>4. \A a, b \in Path : scope \o a = scope \o b => a = b
  <2> SUFFICES ASSUME NEW a \in Path, NEW b \in Path, scope \o a = scope \o b
               PROVE  a = b
    OBVIOUS
  <2>1. Len(a) = Len(b)
    <3>1. Len(scope \o a) = Len(scope) + Len(a) /\ Len(scope \o b) = Len(scope) + Len(b)
      BY DEF Path
    <3> QED BY <3>1 DEF Path
  <2>2. ASSUME NEW i \in 1..Len(a) PROVE a[i] = b[i]
    <3>1. /\ a[i] = (scope \o a)[Len(scope) + i]
          /\ b[i] = (scope \o b)[Len(scope) + i]
      BY <2>1 DEF Path
    <3> QED BY <3>1
  <2> QED BY <2>1, <2>2, SeqEqual DEF Path
<1> HIDE DEF rest
<1> QED BY <1>2, <1>3, <1>4

\* Each scope between the source and one of its entries is an entry, too.
Closed(from, names) ==
  \A p \in DOMAIN names : \A n \in (Len(from.vec) + 1)..Len(p) : SubSeq(p, 1, n) \in DOMAIN names

\* What the names of a copy stood for is what they stand for, and what their
\* copies are.
Exact(t, fb) ==
  /\ \A p \in DOMAIN copy.names : Seen(t, fb, p) = copy.names[p]
  /\ ~copy.from.rooted =>
       \A p \in DOMAIN copy.names \ copy.todo :
         FindItem(t, currScope \o NewName(copy.from, p)) = copy.names[p]

\* The inductive invariant of a copy, on top of IndInv and StackInv.
CopyFits ==
  copy # NoCopy =>
    /\ Closed(copy.from, copy.names)
    /\ ~Overlapping => Exact(tree, fallback)

\* What is listed below a scope of a rooted tree is closed.
LEMMA ListingIsClosed ==
  ASSUME NEW t, IsTree(t), Rooted(t), NEW from \in Reference
  PROVE  Closed(from, [p \in {q \in DOMAIN t : IsStrictPrefix(from.vec, q)} |-> t[p]])
<1> DEFINE S == {q \in DOMAIN t : IsStrictPrefix(from.vec, q)}
<1>1. \A p \in DOMAIN t : p \in Path
  BY DEF IsTree
<1>2. from.vec \in Path /\ Len(from.vec) \in Nat
  BY DEF Reference, Path
<1>3. ASSUME NEW p \in S, NEW n \in (Len(from.vec) + 1)..Len(p) PROVE SubSeq(p, 1, n) \in S
  <2>1. p \in Path /\ n \in 0..Len(p) /\ n # 0 /\ Len(p) \in Nat
    BY <1>1, <1>2 DEF Path
  <2>2. SubSeq(p, 1, n) # Root /\ (n = Len(p) => SubSeq(p, 1, n) = p)
    BY <2>1, FirstNames
  <2>3. n # Len(p) => n \in 1..(Len(p) - 1)
    BY <2>1
  <2>4. n # Len(p) => IsScope(t, SubSeq(p, 1, n))
    BY <2>3 DEF Rooted
  <2>5. SubSeq(p, 1, n) \in DOMAIN t
    BY <2>2, <2>4 DEF IsScope
  <2>6. IsStrictPrefix(from.vec, SubSeq(p, 1, n))
    BY <1>2, <2>1, BetweenPaths
  <2> QED BY <2>5, <2>6
<1> QED BY <1>3 DEF Closed

\* An entry of the fallback is listed only if the tree has nothing there.
LEMMA StartCopyFits ==
  ASSUME IndInv, StackInv, CopyFits, NEW from \in Ref(Vec(MaxDepth)), NEW ifExists,
         StartCopy(from, ifExists)
  PROVE  CopyFits'
<1> DEFINE item == Lookup(tree, fallback, currScope, from, TRUE)
           source == CopySource(from)
           started == [from |-> from, names |-> Listing(from),
                       todo |-> DOMAIN Listing(from), last |-> from.vec]
<1>1. copy = NoCopy /\ UNCHANGED <<tree, currScope, fallback>>
  BY DEF StartCopy, AtStmt, InStmtList
<1>2. from \in Reference /\ from.vec \in Path
  BY ScopedNames DEF Ref, Reference
<1>3. IsTree(tree) /\ Rooted(tree) /\ IsTree(fallback) /\ Rooted(fallback)
  BY TreeFacts DEF StackInv
<1>4. CASE UNCHANGED copy
  BY <1>1, <1>4 DEF CopyFits
<1>5. CASE item # NoItem /\ copy' = started
  <2>1. from.vec # Root
    BY <1>3, <1>5, RootIsNoEntry DEF Lookup, OwnLookup
  <2>2. IsTree(source) /\ Rooted(source)
    BY <1>3 DEF CopySource
  <2>3. Closed(from, Listing(from))
    BY <1>2, <2>2, ListingIsClosed DEF Listing
  <2>4. \A p \in DOMAIN Listing(from) : Seen(tree, fallback, p) = Listing(from)[p]
    <3> SUFFICES ASSUME NEW p \in DOMAIN Listing(from)
                 PROVE  Seen(tree, fallback, p) = Listing(from)[p]
      OBVIOUS
    <3>1. p \in DOMAIN source /\ IsStrictPrefix(from.vec, p) /\ Listing(from)[p] = source[p]
      BY DEF Listing
    <3>2. CASE OwnLookup(tree, currScope, from, TRUE) # NoItem
      BY <3>1, <3>2 DEF CopySource, Seen
    <3>3. CASE OwnLookup(tree, currScope, from, TRUE) = NoItem
      <4>1. FindItem(tree, from.vec) = NoItem
        BY <1>2, <1>3, <2>1, <3>3, LookupFromRoot DEF OwnLookup
      <4>2. from.vec \notin DOMAIN tree
        BY <1>3, <4>1 DEF FindItem, IsTree, Item, Variable, ScopeItem, NoItem
      <4>3. p \in Path /\ source = fallback
        BY <1>3, <3>1, <3>3 DEF CopySource, IsTree
      <4>4. p \notin DOMAIN tree
        <5> DEFINE n == Len(from.vec)
        <5>1. n \in 1..(Len(p) - 1)
          BY <1>2, <2>1, <3>1, <4>3, PathFromParts DEF Path, Root
        <5>2. from.vec = SubSeq(p, 1, n)
          BY <1>2, <3>1, <4>3 DEF IsStrictPrefix, IsPrefix, Path
        <5>3. p \in DOMAIN tree => IsScope(tree, from.vec)
          BY <1>3, <5>1, <5>2 DEF Rooted
        <5> QED BY <2>1, <4>2, <5>3 DEF IsScope
      <4> QED BY <3>1, <4>3, <4>4 DEF Seen, FindItem
    <3> QED BY <3>2, <3>3
  <2>5. /\ copy'.from = from /\ copy'.names = Listing(from)
        /\ copy'.names \in {copy'.names} /\ DOMAIN copy'.names \ copy'.todo = {}
    BY <1>5
  <2> QED BY <1>1, <2>3, <2>4, <2>5 DEF CopyFits, Exact
<1>6. UNCHANGED copy \/ (item # NoItem /\ copy' = started)
  BY DEF StartCopy
<1> QED BY <1>4, <1>5, <1>6

\* A copied entry gets a name no listed entry has, and so do the scopes made for it.
LEMMA CopyKeepsExact ==
  ASSUME IndInv, Rooted(fallback), copy # NoCopy, Closed(copy.from, copy.names), ~Overlapping,
         Exact(tree, fallback), NEW p \in copy.todo, NEW t,
         Copied(tree, t, currScope, NewName(copy.from, p), copy.names[p])
  PROVE  /\ \A q \in DOMAIN copy.names : Seen(t, fallback, q) = copy.names[q]
         /\ ~copy.from.rooted =>
              \A q \in (DOMAIN copy.names \ copy.todo) \cup {p} :
                FindItem(t, currScope \o NewName(copy.from, q)) = copy.names[q]
<1> DEFINE from == copy.from
           names == copy.names
           newName == NewName(from, p)
           target == currScope \o newName
<1>1. /\ from \in Reference /\ IsTree(names) /\ p \in DOMAIN names /\ currScope \in Path
      /\ \A q \in DOMAIN names : IsStrictPrefix(from.vec, q)
  BY TreeFacts DEF IndInv, CopyTypeOK
<1>2. \A q \in DOMAIN names : q \in Path /\ names[q] # NoItem
  BY <1>1 DEF IsTree, Item, Variable, ScopeItem, NoItem
<1>3. \A q \in DOMAIN names : q # target
  BY <1>1 DEF Overlapping
<1>4. \A q \in DOMAIN t \ DOMAIN tree : q \notin DOMAIN names
  <2> SUFFICES ASSUME NEW q \in DOMAIN t \ DOMAIN tree PROVE q \notin DOMAIN names
    OBVIOUS
  <2>1. PICK i \in 1..Len(newName) : q = currScope \o SubSeq(newName, 1, i)
    BY DEF Copied
  <2> DEFINE n == Len(from.vec) + i
  <2>2. n \in 1..Len(p) /\ SubSeq(newName, 1, i) = NewName(from, SubSeq(p, 1, n))
    BY <1>1, <1>2, NewNameOfScope
  <2>3. n \in (Len(from.vec) + 1)..Len(p)
    BY <1>1, <2>2 DEF Reference, Path
  <2>4. SubSeq(p, 1, n) \in DOMAIN names
    BY <1>1, <2>3 DEF Closed
  <2> HIDE DEF n
  <2> QED BY <2>1, <2>2, <2>4 DEF Overlapping
<1>5. \A q \in DOMAIN names : Seen(t, fallback, q) = Seen(tree, fallback, q)
  BY <1>3, <1>4 DEF Seen, Copied
<1>6. ASSUME ~from.rooted, NEW q \in DOMAIN names \ copy.todo
      PROVE  FindItem(t, currScope \o NewName(from, q)) = names[q]
  <2>1. p # q /\ q \in DOMAIN names
    OBVIOUS
  <2>2. currScope \o NewName(from, q) # target
    BY <1>1, <1>2, <1>6, <2>1, NewNamesDiffer
  <2>3. FindItem(tree, currScope \o NewName(from, q)) = names[q] /\ names[q] # NoItem
    BY <1>2, <1>6 DEF Exact
  <2> QED BY <2>2, <2>3 DEF FindItem, Copied
<1>7. FindItem(t, currScope \o NewName(from, p)) = names[p]
  BY DEF Copied
<1> QED BY <1>5, <1>6, <1>7 DEF Exact

\* One iteration of the loop finds what was listed and puts it where nothing is
\* listed.
LEMMA CopyItemFits ==
  ASSUME IndInv, StackInv, CopyFits, NEW p \in copy.todo, CopyItem(p)
  PROVE  CopyFits'
<1> DEFINE item == Lookup(tree, fallback, currScope, [rooted |-> FALSE, vec |-> p], TRUE)
           newName == NewName(copy.from, p)
           result == IF item.type = "Scope"
                     THEN EnsureScopeExists(tree, currScope, newName)
                     ELSE Insert(tree, currScope, newName, item)
           left == [copy EXCEPT !.todo = @ \ {p}, !.last = p]
<1>1. copy # NoCopy /\ UNCHANGED <<currScope, fallback>>
  BY DEF CopyItem
<1>2. \/ copy' = NoCopy
      \/ tree' = result.tree /\ result.ok /\ copy' = left /\ item # NoItem
  BY DEF CopyItem
<1>3. CASE copy' = NoCopy
  BY <1>3 DEF CopyFits
<1>4. CASE tree' = result.tree /\ result.ok /\ copy' = left /\ item # NoItem
  <2>1. /\ IsTree(tree) /\ Rooted(tree) /\ IsTree(fallback) /\ Rooted(fallback)
        /\ currScope \in Path /\ IsScope(tree, currScope)
    BY TreeFacts DEF StackInv
  <2>2. /\ copy.from \in Reference /\ p \in DOMAIN copy.names /\ p \in Path /\ p # Root
        /\ IsStrictPrefix(copy.from.vec, p)
    BY <1>1 DEF IndInv, CopyTypeOK, IsTree
  <2>3. newName \in Path /\ newName # Root
    BY <2>2, NewNameIsPath
  <2>4. item = Seen(tree, fallback, p)
    BY <2>1, <2>2, RootLookupIs
  <2>5. item \in Item
    BY <1>4, <2>1, LookupReturnsItem
  <2> HIDE DEF item, newName
  <2>6. Copied(tree, tree', currScope, newName, item)
    <3>1. CASE item.type = "Scope"
      <4>1. \A x \in Item : x.type = "Scope" => x = ScopeItem
        BY DEF Item, Variable
      <4>2. item = ScopeItem
        BY <2>5, <3>1, <4>1
      <4> QED BY <1>4, <2>1, <2>3, <3>1, <4>2, EnsureCopies
    <3>2. CASE item.type # "Scope"
      <4>1. \A x \in Item : x.type # "Scope" => x \in Variable
        BY DEF Item, ScopeItem
      <4>2. item \in Variable
        BY <2>5, <3>2, <4>1
      <4> QED BY <1>4, <2>1, <2>3, <3>2, <4>2, InsertCopies
    <3> QED BY <3>1, <3>2
  <2>7. copy'.from = copy.from /\ copy'.names = copy.names /\ copy'.todo = copy.todo \ {p}
    <3>1. copy'.from = copy.from
      BY <1>4
    <3>2. copy'.names = copy.names
      BY <1>4
    <3>3. copy'.todo = copy.todo \ {p}
      BY <1>4
    <3> QED BY <3>1, <3>2, <3>3
  <2>8. Overlapping' <=> copy' # NoCopy /\ Overlapping
    BY <1>1, <2>7 DEF Overlapping
  <2>9. ASSUME ~Overlapping PROVE Exact(tree, fallback)'
    <3>1. Closed(copy.from, copy.names) /\ Exact(tree, fallback)
      BY <1>1, <2>9 DEF CopyFits
    <3>2. item = copy.names[p]
      BY <2>2, <2>4, <3>1 DEF Exact
    <3>3. /\ \A q \in DOMAIN copy.names : Seen(tree', fallback, q) = copy.names[q]
          /\ ~copy.from.rooted =>
               \A q \in (DOMAIN copy.names \ copy.todo) \cup {p} :
                 FindItem(tree', currScope \o NewName(copy.from, q)) = copy.names[q]
      BY <1>1, <2>1, <2>6, <2>9, <3>1, <3>2, CopyKeepsExact DEF newName
    <3> QED BY <1>1, <2>7, <3>3 DEF Exact
  <2>10. Closed(copy.from, copy.names)
    BY <1>1 DEF CopyFits
  <2> QED BY <2>7, <2>8, <2>9, <2>10 DEF CopyFits
<1> QED BY <1>2, <1>3, <1>4

\* No other step sees a copy at work.
LEMMA OtherCopyFits ==
  ASSUME CopyRuns, CopyFits, Statement,
         ~\E from \in Ref(Vec(MaxDepth)), ifExists \in BOOLEAN : StartCopy(from, ifExists),
         ~\E p \in copy.todo : CopyItem(p)
  PROVE  CopyFits'
<1>0. ~(SearchForever \/ SearchOn) => copy' = NoCopy
  BY DEF Statement, AtStmt, InStmtList, Assign, AssignFrom, OpenScope, OpenIf, ElseIf, Else,
         BetweenClauses, RemoveStmt, Include, CloseScope, CloseClause, EndIf, EndFile, EndCopy,
         StmtError, Unwind, CopyRuns
<1>1. copy' = NoCopy
  <2>1. SearchForever \/ SearchOn => copy' = NoCopy
    BY DEF SearchForever, SearchOn, Endless, AtStmt, InStmtList, BetweenClauses, vars, CopyRuns
  <2> QED BY <1>0, <2>1
<1> QED BY <1>1 DEF CopyFits

\* Every step keeps it.
LEMMA NextCopyFits == IndInv /\ StackInv /\ CopyFits /\ [Next]_vars => CopyFits'
<1> SUFFICES ASSUME IndInv, StackInv, CopyFits, [Next]_vars PROVE CopyFits'
  OBVIOUS
<1>1. CopyRuns
  BY DEF StackInv
<1>2. CASE Statement
  BY <1>1, <1>2, StartCopyFits, CopyItemFits, OtherCopyFits
<1>3. CASE (\E f \in File : Parse(f)) \/ ApiCall
  <2>1. copy' = NoCopy
    BY <1>1, <1>3 DEF Parse, Idle, ApiCall, parserVars, CopyRuns
  <2> QED BY <2>1 DEF CopyFits
<1>4. CASE UNCHANGED vars
  BY <1>4 DEF vars, CopyFits, Exact, Overlapping
<1> QED BY <1>2, <1>3, <1>4 DEF Next

----------------------------------------------------------------------------
(* Results. *)

\* While no exception is on its way, the activations of parseScope alone
\* account for the current scope, however deep files, @if statements and
\* scopes are nested.
THEOREM ScopesAlwaysNest == Spec => []ScopesNest
<1>1. StackInv => ScopesNest
  BY DEF StackInv, NestFits, Inside, ScopesNest, ScopeIn
<1> QED BY <1>1, StackInvHolds, PTL

\* A parse that returns normally leaves the current scope as it found it.
THEOREM ParsesRestoreScope == Spec => ParseRestoresScope
<1>1. IndInv /\ StackInv /\ [Next]_vars =>
        [stack # << >> /\ stack' = << >> /\ exc' = "none" => currScope' = stack[1].at]_vars
  BY NextStackInv DEF StackStep
<1> QED BY <1>1, IndInvHolds, StackInvHolds, PTL DEF Spec, ParseRestoresScope

\* At most one clause of an @if statement is run, and exactly one once a
\* condition was true, for every number of clauses.
THEOREM OneClauseAlwaysRuns == Spec => []OneClauseRuns
<1>1. IndInv /\ StackInv => OneClauseRuns
  BY DEF StackInv, IfsFit, IfFits, OneClauseRuns
<1> QED BY <1>1, IndInvHolds, StackInvHolds, PTL

\* The names of the files being parsed are always the last ones pushed, in the
\* order of the activations, and no statement, return or ConfigurationException
\* leaves a name behind or takes one that is not its own.
THEOREM FileStackAlwaysMatches == Spec => FileStackMatches
<1>1. StackInv => (exc # "foreign" => NamesFit(stack, fileNameStack))
  BY DEF StackInv
<1>2. IndInv /\ StackInv /\ [Next]_vars => [exc # "foreign" => StaleNames' = StaleNames]_vars
  BY NextStackInv DEF StackStep
<1> QED BY <1>1, <1>2, IndInvHolds, StackInvHolds, PTL DEF Spec, FileStackMatches

\* The assertions of popIncludedFilename and parseCopyStmt never fail.
THEOREM AssertionsAlwaysHold == Spec => []AssertionsHold
<1>1. StackInv => AssertionsHold
  BY DEF StackInv, AssertionsHold
<1> QED BY <1>1, StackInvHolds, PTL

\* If no file is also written with the prefix file#, no file is parsed while
\* it is already being parsed, however long the chain of inclusions is.
THEOREM NoFileIncludesItself == Spec => [](HashFile = {} => NoRecursiveInclude)
<1>1. StackInv => (HashFile = {} => NoRecursiveInclude)
  BY DEF StackInv, FilesDiffer, NoRecursiveInclude
<1> QED BY <1>1, StackInvHolds, PTL

\* A copy whose destination has no entry in common with its source is exact, at
\* every iteration of the loop: what is still to be copied stands for what it
\* was listed with, whether it came from the tree or from the fallback, and
\* what has been copied is what it stood for.
THEOREM SeparateCopiesAreExact == Spec => []SeparateCopyIsExact
<1>1. Init => CopyFits
  BY DEF Init, CopyFits
<1>2. IndInv /\ StackInv /\ CopyFits => SeparateCopyIsExact
  <2> SUFFICES ASSUME IndInv, StackInv, CopyFits, ~Overlapping, copy # NoCopy
               PROVE  CopyReadsSource /\ (~copy.from.rooted => CopyArrives)
    BY DEF SeparateCopyIsExact, CopyReadsSource, CopyArrives
  <2>1. Exact(tree, fallback)
    BY DEF CopyFits
  <2>2. ASSUME NEW p \in copy.todo
        PROVE  Lookup(tree, fallback, currScope, [rooted |-> FALSE, vec |-> p], TRUE) = copy.names[p]
    <3>1. p \in DOMAIN copy.names /\ p \in Path /\ p # Root
      BY DEF IndInv, CopyTypeOK, IsTree
    <3>2. Seen(tree, fallback, p) = copy.names[p]
      BY <2>1, <3>1 DEF Exact
    <3> QED BY <3>1, <3>2, TreeFacts, RootLookupIs DEF StackInv
  <2>3. ~copy.from.rooted => CopyArrives
    BY <2>1 DEF Exact, CopyArrives, NewName
  <2> QED BY <2>2, <2>3 DEF CopyReadsSource
<1>3. IndInv /\ StackInv /\ CopyFits /\ [Next]_vars => CopyFits'
  BY NextCopyFits
<1> QED BY <1>1, <1>2, <1>3, IndInvHolds, StackInvHolds, PTL DEF Spec

=============================================================================
