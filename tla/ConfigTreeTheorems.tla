------------------------- MODULE ConfigTreeTheorems -------------------------
(***************************************************************************)
(* What the operations of ConfigTree return and preserve, for every tree.  *)
(***************************************************************************)
EXTENDS ConfigTree, TLAPS

----------------------------------------------------------------------------
(* Paths. *)

LEMMA PrefixIsTransitive ==
  ASSUME NEW p \in Path, NEW q \in Path, NEW r \in Path, IsPrefix(p, q), IsPrefix(q, r)
  PROVE  IsPrefix(p, r)
BY DEF IsPrefix, Path

\* What is below a scope never leads back to it or to a scope around it.
LEMMA BelowIsLonger ==
  ASSUME NEW p \in Path, NEW vec \in Path, vec # Root
  PROVE  /\ p \o vec \in Path
         /\ p \o vec # Root
         /\ IsStrictPrefix(p, p \o vec)
         /\ Len(p \o vec) = Len(p) + Len(vec)
         /\ \A q \in Path : IsPrefix(q, p) => ~IsPrefix(p \o vec, q)
BY DEF IsPrefix, IsStrictPrefix, Path, Root

\* The first names of a path.
LEMMA FirstNames ==
  ASSUME NEW p \in Path, NEW n \in 0..Len(p)
  PROVE  /\ SubSeq(p, 1, n) \in Path
         /\ Len(SubSeq(p, 1, n)) = n
         /\ IsPrefix(SubSeq(p, 1, n), p)
         /\ n # 0 => SubSeq(p, 1, n) # Root
         /\ n = 0 => SubSeq(p, 1, n) = Root
         /\ n = Len(p) => SubSeq(p, 1, n) = p
BY DEF IsPrefix, Path, Root

\* The first names of p \o vec are first names of p, or p with first names of vec.
LEMMA FirstNamesOfConcat ==
  ASSUME NEW p \in Path, NEW vec \in Path, NEW n \in 0..(Len(p) + Len(vec))
  PROVE  /\ n <= Len(p) => SubSeq(p \o vec, 1, n) = SubSeq(p, 1, n)
         /\ n > Len(p) => SubSeq(p \o vec, 1, n) = p \o SubSeq(vec, 1, n - Len(p))
BY DEF Path

\* The first names of a name of the chain are a shorter name of the chain.
LEMMA FirstNamesOfChain ==
  ASSUME NEW scope \in Path, NEW vec \in Path,
         NEW i \in 1..Len(vec), NEW j \in 1..i
  PROVE  SubSeq(scope \o SubSeq(vec, 1, i), 1, Len(scope) + j) = scope \o SubSeq(vec, 1, j)
<1> DEFINE front == SubSeq(vec, 1, i)
<1>1. Len(scope) \in Nat /\ Len(vec) \in Nat
  BY DEF Path
<1>2. front \in Path /\ Len(front) = i
  BY FirstNames, <1>1
<1>3. SubSeq(front, 1, j) = SubSeq(vec, 1, j)
  BY DEF Path
<1> HIDE DEF front
<1>4. Len(scope) + j \in 0..(Len(scope) + Len(front)) /\ Len(scope) + j > Len(scope)
  BY <1>1, <1>2
<1>5. (Len(scope) + j) - Len(scope) = j
  BY <1>1
<1>6. SubSeq(scope \o front, 1, Len(scope) + j) = scope \o SubSeq(front, 1, j)
  BY <1>2, <1>4, <1>5, FirstNamesOfConcat
<1> QED BY <1>3, <1>6 DEF front

LEMMA FrontOfPath ==
  ASSUME NEW p \in Path, p # Root
  PROVE  /\ Front(p) \in Path
         /\ Len(Front(p)) = Len(p) - 1
         /\ IsStrictPrefix(Front(p), p)
<1>1. Len(p) \in Nat /\ Len(p) # 0
  BY DEF Path, Root
<1>2. Len(p) - 1 \in 0..Len(p)
  BY <1>1
<1>3. SubSeq(p, 1, Len(p) - 1) \in Path /\ IsPrefix(SubSeq(p, 1, Len(p) - 1), p)
  BY <1>2, FirstNames
<1>4. Len(SubSeq(p, 1, Len(p) - 1)) = Len(p) - 1
  BY <1>2, FirstNames
<1>5. SubSeq(p, 1, Len(p) - 1) # p
  BY <1>1, <1>4
<1> QED BY <1>3, <1>4, <1>5 DEF Front, IsStrictPrefix

LEMMA FrontOfConcat ==
  ASSUME NEW p \in Path, NEW vec \in Path, vec # Root
  PROVE  Front(p \o vec) = p \o Front(vec)
<1>1. Len(p) \in Nat /\ Len(vec) \in Nat /\ Len(vec) # 0 /\ Len(p \o vec) = Len(p) + Len(vec)
  BY DEF Path, Root
<1>2. CASE Len(vec) = 1
  <2>1. Front(vec) = << >> /\ Front(p \o vec) = SubSeq(p, 1, Len(p))
    BY <1>1, <1>2, FirstNamesOfConcat DEF Front, Path
  <2> QED BY <2>1 DEF Path
<1>3. CASE Len(vec) # 1
  <2> DEFINE k == Len(p)
             l == Len(vec)
             n == Len(p \o vec)
  <2>1. k \in Nat /\ l \in Nat /\ l # 0 /\ l # 1 /\ n = k + l
    BY <1>1, <1>3
  <2>2. n - 1 \in 0..(k + l) /\ n - 1 > k /\ n - 1 - k = l - 1
    <3> HIDE DEF k, l, n
    <3> QED BY <2>1
  <2> QED BY <2>2, FirstNamesOfConcat DEF Front
<1> QED BY <1>2, <1>3

\* The first names of a path, but not all, are first names of its scope's path.
LEMMA FirstNamesOfChild ==
  ASSUME NEW p \in Path, p # Root, NEW n \in 1..(Len(p) - 1)
  PROVE  n \in 0..Len(Front(p)) /\ SubSeq(p, 1, n) = SubSeq(Front(p), 1, n)
<1>1. n \in 0..Len(Front(p))
  BY FrontOfPath DEF Path
<1>2. SubSeq(p, 1, n) = SubSeq(Front(p), 1, n)
  BY DEF Front, Path
<1> QED BY <1>1, <1>2

\* A path below another is that one and what follows.
LEMMA PathFromParts ==
  ASSUME NEW v \in Path, NEW p \in Path, IsStrictPrefix(v, p)
  PROVE  /\ Len(v) < Len(p)
         /\ SubSeq(p, Len(v) + 1, Len(p)) \in Path
         /\ Len(SubSeq(p, Len(v) + 1, Len(p))) = Len(p) - Len(v)
         /\ p = v \o SubSeq(p, Len(v) + 1, Len(p))
<1> DEFINE m == Len(v)
           n == Len(p)
           rest == SubSeq(p, m + 1, n)
<1>1. m \in Nat /\ n \in Nat /\ m <= n
  BY DEF IsStrictPrefix, IsPrefix, Path
<1>2. m < n
  <2>1. m = n => v = p
    BY FirstNames DEF IsStrictPrefix, IsPrefix, Path
  <2> QED BY <1>1, <2>1 DEF IsStrictPrefix
<1>3. rest \in Path /\ Len(rest) = n - m /\ \A i \in 1..(n - m) : rest[i] = p[m + i]
  BY <1>1, <1>2 DEF Path
<1>4. \A i \in 1..m : p[i] = v[i]
  BY <1>1 DEF IsStrictPrefix, IsPrefix, Path
<1>5. p = v \o rest
  <2>1. v \o rest \in Path /\ Len(v \o rest) = n
    BY <1>1, <1>3 DEF Path
  <2>2. \A i \in 1..n : (v \o rest)[i] = p[i]
    <3> SUFFICES ASSUME NEW i \in 1..n PROVE (v \o rest)[i] = p[i]
      OBVIOUS
    <3>1. CASE i <= m
      BY <1>1, <1>3, <1>4, <3>1 DEF Path
    <3>2. CASE i > m
      <4>1. i - m \in 1..(n - m) /\ m + (i - m) = i
        BY <1>1, <3>2
      <4>2. (v \o rest)[i] = rest[i - m]
        BY <1>1, <1>3, <3>2, <4>1 DEF Path
      <4> QED BY <1>3, <4>1, <4>2
    <3> QED BY <1>1, <3>1, <3>2
  <2> QED BY <2>1, <2>2 DEF Path
<1> QED BY <1>2, <1>3, <1>5

\* The first names of what follows follow in the first names.
LEMMA FirstNamesOfRest ==
  ASSUME NEW p \in Path, NEW m \in Nat, NEW i \in 1..(Len(p) - m)
  PROVE  SubSeq(SubSeq(p, 1, m + i), m + 1, m + i) = SubSeq(SubSeq(p, m + 1, Len(p)), 1, i)
<1> DEFINE q == SubSeq(p, 1, m + i)
           rest == SubSeq(p, m + 1, Len(p))
<1>1. Len(p) \in Nat /\ m + i <= Len(p) /\ m < Len(p)
  BY DEF Path
<1>2. q \in Path /\ Len(q) = m + i /\ \A j \in 1..(m + i) : q[j] = p[j]
  BY <1>1 DEF Path
<1>3. rest \in Path /\ Len(rest) = Len(p) - m /\ \A j \in 1..(Len(p) - m) : rest[j] = p[m + j]
  BY <1>1 DEF Path
<1> HIDE DEF q, rest
<1>4. SubSeq(q, m + 1, m + i) = [j \in 1..i |-> p[m + j]]
  <2>1. SubSeq(q, m + 1, m + i) = [j \in 1..i |-> q[m + j]]
    BY <1>1, <1>2 DEF Path
  <2> QED BY <1>2, <2>1
<1>5. SubSeq(rest, 1, i) = [j \in 1..i |-> p[m + j]]
  <2>1. SubSeq(rest, 1, i) = [j \in 1..i |-> rest[j]]
    BY <1>1, <1>3 DEF Path
  <2> QED BY <1>1, <1>3, <2>1
<1> QED BY <1>4, <1>5 DEF q, rest

\* The first names of a path, as far as a path above it and further.
LEMMA BetweenPaths ==
  ASSUME NEW v \in Path, NEW p \in Path, IsStrictPrefix(v, p), NEW n \in (Len(v) + 1)..Len(p)
  PROVE  IsStrictPrefix(v, SubSeq(p, 1, n))
<1> DEFINE q == SubSeq(p, 1, n)
<1>1. Len(v) \in Nat /\ n \in Nat /\ n \in 0..Len(p) /\ Len(v) < n
  BY DEF Path
<1>2. q \in Path /\ Len(q) = n /\ \A i \in 1..n : q[i] = p[i]
  BY <1>1, FirstNames DEF Path
<1>3. \A i \in 1..Len(v) : v[i] = p[i]
  BY <1>1 DEF IsStrictPrefix, IsPrefix, Path
<1> HIDE DEF q
<1>4. SubSeq(v, 1, Len(v)) = SubSeq(q, 1, Len(v))
  BY <1>1, <1>2, <1>3 DEF Path
<1>5. IsPrefix(v, q) /\ v # q
  BY <1>1, <1>2, <1>4 DEF IsPrefix, Path
<1> QED BY <1>5 DEF IsStrictPrefix, q

\* Names on the way from one scope to a name below it.
LEMMA OnTheWay ==
  ASSUME NEW scope \in Path, NEW vec \in Path, NEW q \in Path,
         IsStrictPrefix(scope, q), IsPrefix(q, scope \o vec)
  PROVE  \E i \in 1..Len(vec) : q = scope \o SubSeq(vec, 1, i)
<1> DEFINE n == Len(q)
           m == Len(scope)
<1>1. m \in Nat /\ n \in Nat /\ m < n
  BY PathFromParts DEF Path
<1>2. scope \o vec \in Path /\ Len(scope \o vec) = m + Len(vec) /\ Len(vec) \in Nat
  BY DEF Path
<1>3. n <= m + Len(vec) /\ q = SubSeq(scope \o vec, 1, n)
  BY <1>2 DEF IsPrefix, Path
<1>4. n \in 0..(m + Len(vec)) /\ n - m \in 1..Len(vec)
  BY <1>1, <1>2, <1>3
<1>5. SubSeq(scope \o vec, 1, n) = scope \o SubSeq(vec, 1, n - m)
  BY <1>1, <1>4, FirstNamesOfConcat
<1> QED BY <1>3, <1>4, <1>5

\* The first names of a scope's path are scopes.
LEMMA ScopesEncloseScopes ==
  ASSUME NEW t, IsTree(t), Rooted(t), NEW p \in Path, IsScope(t, p), NEW n \in 0..Len(p)
  PROVE  IsScope(t, SubSeq(p, 1, n))
<1>1. CASE n = 0
  BY <1>1, FirstNames DEF IsScope
<1>2. CASE n = Len(p)
  BY <1>2, FirstNames
<1>3. CASE n # 0 /\ n # Len(p)
  <2>1. p # Root /\ p \in DOMAIN t
    BY <1>3 DEF IsScope, Path, Root
  <2>2. n \in 1..(Len(p) - 1)
    BY <1>3 DEF Path
  <2> QED BY <2>1, <2>2 DEF Rooted
<1> QED BY <1>1, <1>2, <1>3

----------------------------------------------------------------------------
(* AddOrReplace and RemoveItem. *)

\* Putting an entry into the table of a scope keeps the tree a rooted tree;
\* no other entry changes, and one that was there keeps its kind.
LEMMA AddOrReplaceKeepsTree ==
  ASSUME NEW t, IsTree(t), Rooted(t),
         NEW p \in Path, p # Root, IsScope(t, Front(p)),
         NEW item \in Variable
  PROVE  LET r == AddOrReplace(t, p, item)
         IN  /\ IsTree(r.tree) /\ Rooted(r.tree)
             /\ DOMAIN t \subseteq DOMAIN r.tree
             /\ \A q \in Path : IsScope(t, q) <=> IsScope(r.tree, q)
             /\ \A q \in DOMAIN t \cup DOMAIN r.tree :
                  FindItem(t, q) # FindItem(r.tree, q) => q = p
             /\ ~r.ok => r.tree = t
<1> DEFINE r == AddOrReplace(t, p, item)
<1>1. CASE p \in DOMAIN t /\ t[p].type = "Scope"
  BY <1>1 DEF AddOrReplace, FindItem
<1>2. CASE ~(p \in DOMAIN t /\ t[p].type = "Scope")
  <2>1. /\ r.ok
        /\ r.tree = [q \in DOMAIN t \cup {p} |-> IF q = p THEN item ELSE t[q]]
    BY <1>2 DEF AddOrReplace
  <2> HIDE DEF r
  <2>2. DOMAIN r.tree = DOMAIN t \cup {p} /\ r.tree[p] = item
    BY <2>1
  <2>3. \A q \in DOMAIN t : q # p => r.tree[q] = t[q]
    BY <2>1
  <2>4. item.type # "Scope" /\ item \in Item
    BY DEF Variable, Item
  <2>5. IsTree(r.tree)
    BY <2>1, <2>2, <2>3, <2>4 DEF IsTree
  <2>6. \A q \in Path : IsScope(t, q) <=> IsScope(r.tree, q)
    BY <1>2, <2>2, <2>3, <2>4 DEF IsScope
  <2>7. Rooted(r.tree)
    <3> SUFFICES ASSUME NEW q \in DOMAIN r.tree, NEW n \in 1..(Len(q) - 1)
                 PROVE  IsScope(r.tree, SubSeq(q, 1, n))
      BY DEF Rooted
    <3>1. q \in Path /\ q # Root
      BY <2>5 DEF IsTree
    <3>2. n \in 0..Len(q) /\ SubSeq(q, 1, n) \in Path
      BY <3>1, FirstNames DEF Path
    <3>3. CASE q \in DOMAIN t
      BY <3>2, <3>3, <2>6 DEF Rooted
    <3>4. CASE q = p
      <4>1. Front(p) \in Path /\ n \in 0..Len(Front(p))
        BY <3>4, FrontOfPath, FirstNamesOfChild
      <4>2. IsScope(t, SubSeq(Front(p), 1, n))
        BY <4>1, ScopesEncloseScopes
      <4> QED BY <3>2, <3>4, <4>2, <2>6, FirstNamesOfChild
    <3> QED BY <3>3, <3>4, <2>2
  <2>8. \A q \in DOMAIN t \cup DOMAIN r.tree :
           FindItem(t, q) # FindItem(r.tree, q) => q = p
    BY <2>2, <2>3 DEF FindItem
  <2> QED BY <2>1, <2>2, <2>5, <2>6, <2>7, <2>8 DEF r
<1> QED BY <1>1, <1>2

\* Removing an entry removes what is below it and nothing else: the tree stays
\* a rooted tree, and every scope that is not at or below it stays a scope.
LEMMA RemoveItemKeepsTree ==
  ASSUME NEW t, IsTree(t), Rooted(t), NEW p \in Path
  PROVE  /\ IsTree(RemoveItem(t, p)) /\ Rooted(RemoveItem(t, p))
         /\ DOMAIN RemoveItem(t, p) \subseteq DOMAIN t
         /\ \A q \in DOMAIN RemoveItem(t, p) : RemoveItem(t, p)[q] = t[q]
         /\ \A q \in DOMAIN t : q \notin DOMAIN RemoveItem(t, p) => IsPrefix(p, q)
         /\ \A q \in Path : IsScope(t, q) /\ ~IsPrefix(p, q) => IsScope(RemoveItem(t, p), q)
<1> DEFINE r == RemoveItem(t, p)
<1>1. DOMAIN r = {q \in DOMAIN t : ~IsPrefix(p, q)} /\ \A q \in DOMAIN r : r[q] = t[q]
  BY DEF RemoveItem
<1>2. r = [q \in DOMAIN r |-> r[q]]
  BY DEF RemoveItem
<1> HIDE DEF r
<1>3. IsTree(r)
  BY <1>1, <1>2 DEF IsTree
<1>4. \A q \in Path : IsScope(t, q) /\ ~IsPrefix(p, q) => IsScope(r, q)
  BY <1>1 DEF IsScope
<1>5. Rooted(r)
  <2> SUFFICES ASSUME NEW q \in DOMAIN r, NEW n \in 1..(Len(q) - 1)
               PROVE  IsScope(r, SubSeq(q, 1, n))
    BY DEF Rooted
  <2>1. q \in Path /\ ~IsPrefix(p, q) /\ IsScope(t, SubSeq(q, 1, n))
    BY <1>1 DEF IsTree, Rooted
  <2>2. SubSeq(q, 1, n) \in Path /\ IsPrefix(SubSeq(q, 1, n), q)
    BY <2>1, FirstNames DEF Path
  <2>3. ~IsPrefix(p, SubSeq(q, 1, n))
    BY <2>1, <2>2, PrefixIsTransitive
  <2> QED BY <1>4, <2>1, <2>2, <2>3
<1> QED BY <1>1, <1>3, <1>4, <1>5 DEF r

----------------------------------------------------------------------------
(* EnsureScopeExists and Insert. *)

\* ensureScopeExists keeps the tree a rooted tree and adds scopes only, all of
\* them below the scope it starts from.  When it succeeds the named scope is
\* there; when it is refused nothing has been added.
LEMMA EnsureScopeExistsKeepsTree ==
  ASSUME NEW t, IsTree(t), Rooted(t),
         NEW scope \in Path, IsScope(t, scope), NEW vec \in Path
  PROVE  LET r == EnsureScopeExists(t, scope, vec)
         IN  /\ IsTree(r.tree) /\ Rooted(r.tree)
             /\ DOMAIN t \subseteq DOMAIN r.tree
             /\ \A q \in DOMAIN t : r.tree[q] = t[q]
             /\ \A q \in DOMAIN r.tree \ DOMAIN t :
                  /\ r.tree[q] = ScopeItem
                  /\ IsStrictPrefix(scope, q) /\ IsPrefix(q, scope \o vec)
             /\ r.ok \in BOOLEAN
             /\ r.ok => IsScope(r.tree, scope \o vec)
             /\ ~r.ok => r.tree = t
<1> DEFINE chain == {scope \o SubSeq(vec, 1, i) : i \in 1..Len(vec)}
           blocked == {p \in chain : IsVariable(t, p)}
           made == {p \in chain \ DOMAIN t : \A q \in blocked : Len(p) < Len(q)}
           r == EnsureScopeExists(t, scope, vec)
<1>1. /\ r.ok = (blocked = {})
      /\ r.tree = [p \in DOMAIN t \cup made |-> IF p \in DOMAIN t THEN t[p] ELSE ScopeItem]
  BY DEF EnsureScopeExists
<1> HIDE DEF r
<1>2. /\ DOMAIN r.tree = DOMAIN t \cup made
      /\ \A q \in DOMAIN t : r.tree[q] = t[q]
      /\ \A q \in DOMAIN r.tree \ DOMAIN t : q \in made /\ r.tree[q] = ScopeItem
  BY <1>1
<1>3. \A i \in 1..Len(vec) :
        LET p == scope \o SubSeq(vec, 1, i)
        IN  p \in chain /\ p \in Path /\ p # Root /\ Len(p) = Len(scope) + i
            /\ IsStrictPrefix(scope, p)
  <2> SUFFICES ASSUME NEW i \in 1..Len(vec)
               PROVE  LET p == scope \o SubSeq(vec, 1, i)
                      IN  p \in Path /\ p # Root /\ Len(p) = Len(scope) + i
                          /\ IsStrictPrefix(scope, p)
    OBVIOUS
  <2>1. SubSeq(vec, 1, i) \in Path /\ SubSeq(vec, 1, i) # Root /\ Len(SubSeq(vec, 1, i)) = i
    BY FirstNames DEF Path
  <2> QED BY <2>1, BelowIsLonger
<1>a. Len(scope) \in Nat /\ Len(vec) \in Nat
  BY DEF Path
<1>4. IsTree(r.tree)
  <2>1. ScopeItem \in Item
    BY DEF Item
  <2>2. \A p \in made : p \in Path /\ p # Root
    BY <1>3
  <2>3. r.tree = [p \in DOMAIN r.tree |-> r.tree[p]]
    BY <1>1
  <2>4. \A p \in DOMAIN t : p \in Path /\ p # Root /\ t[p] \in Item
    BY DEF IsTree
  <2>5. \A p \in DOMAIN r.tree : p \in Path /\ p # Root /\ r.tree[p] \in Item
    <3> HIDE DEF made
    <3> QED BY <1>2, <2>1, <2>2, <2>4
  <2> QED BY <2>3, <2>5 DEF IsTree
<1>5. \A p \in Path : IsScope(t, p) => IsScope(r.tree, p)
  BY <1>2 DEF IsScope
\* A shorter name of the chain than one that was made is a scope of the result.
<1>6. ASSUME NEW i \in 1..Len(vec), NEW j \in 1..i, scope \o SubSeq(vec, 1, i) \in made
      PROVE  IsScope(r.tree, scope \o SubSeq(vec, 1, j))
  <2> DEFINE p == scope \o SubSeq(vec, 1, i)
             q == scope \o SubSeq(vec, 1, j)
  <2>1. j \in 1..Len(vec) /\ j <= i
    BY <1>a
  <2>2. /\ q \in chain /\ q \in Path /\ Len(q) = Len(scope) + j
        /\ p \in Path /\ Len(p) = Len(scope) + i
    BY <1>3, <2>1
  <2>3. \A b \in blocked : Len(p) < Len(b) /\ Len(b) \in Nat
    <3> SUFFICES ASSUME NEW b \in blocked PROVE Len(p) < Len(b) /\ Len(b) \in Nat
      OBVIOUS
    <3>1. b \in Path
      BY <1>3
    <3> QED BY <3>1, <1>6 DEF Path
  <2>4. \A b \in blocked : Len(q) < Len(b)
    <3> HIDE DEF p, q, blocked
    <3> QED BY <2>1, <2>2, <2>3, <1>a
  <2>5. q \notin blocked
    <3>1. Len(q) \in Nat
      BY <2>1, <2>2, <1>a
    <3>2. ~(Len(q) < Len(q))
      <4> HIDE DEF q
      <4> QED BY <3>1
    <3> HIDE DEF blocked, q
    <3> QED BY <2>4, <3>2
  <2>6. CASE q \in DOMAIN t
    <3>1. IsScope(t, q)
      BY <2>2, <2>5, <2>6 DEF IsVariable, IsScope
    <3> QED BY <2>2, <3>1, <1>5
  <2>7. CASE q \notin DOMAIN t
    <3>1. q \in made
      BY <2>2, <2>4, <2>7
    <3>2. q \in DOMAIN r.tree /\ r.tree[q] = ScopeItem
      BY <1>2, <2>7, <3>1
    <3> QED BY <3>2 DEF IsScope, ScopeItem
  <2> QED BY <2>6, <2>7
<1>7. Rooted(r.tree)
  <2> SUFFICES ASSUME NEW q \in DOMAIN r.tree, NEW n \in 1..(Len(q) - 1)
               PROVE  IsScope(r.tree, SubSeq(q, 1, n))
    BY DEF Rooted
  <2>1. q \in Path /\ SubSeq(q, 1, n) \in Path
    BY <1>4, FirstNames DEF IsTree, Path
  <2>2. CASE q \in DOMAIN t
    BY <2>1, <2>2, <1>5 DEF Rooted
  <2>3. CASE q \notin DOMAIN t
    <3>1. PICK i \in 1..Len(vec) : q = scope \o SubSeq(vec, 1, i) /\ q \in made
      BY <2>3, <1>2
    <3>2. SubSeq(vec, 1, i) \in Path /\ Len(SubSeq(vec, 1, i)) = i
      BY FirstNames DEF Path
    <3>3. n \in 0..(Len(scope) + Len(SubSeq(vec, 1, i)))
      BY <3>1, <3>2, <1>3 DEF Path
    <3>4. CASE n <= Len(scope)
      <4>1. SubSeq(q, 1, n) = SubSeq(scope, 1, n) /\ n \in 0..Len(scope)
        BY <3>1, <3>2, <3>3, <3>4, FirstNamesOfConcat DEF Path
      <4>2. IsScope(t, SubSeq(q, 1, n))
        BY <4>1, ScopesEncloseScopes
      <4> QED BY <2>1, <4>2, <1>5
    <3>5. CASE n > Len(scope)
      <4>1. n - Len(scope) \in 1..i
        <5>1. Len(q) = Len(scope) + i
          BY <3>1, <1>3
        <5> QED BY <5>1, <3>5, <1>a
      <4>2. n = Len(scope) + (n - Len(scope))
        BY <1>a
      <4>3. SubSeq(q, 1, n) = scope \o SubSeq(vec, 1, n - Len(scope))
        <5> DEFINE j == n - Len(scope)
        <5>1. j \in 1..i /\ n = Len(scope) + j
          BY <4>1, <4>2
        <5> HIDE DEF j
        <5>2. SubSeq(scope \o SubSeq(vec, 1, i), 1, Len(scope) + j) = scope \o SubSeq(vec, 1, j)
          BY <5>1, FirstNamesOfChain
        <5>3. SubSeq(q, 1, n) = scope \o SubSeq(vec, 1, j)
          BY <3>1, <5>1, <5>2
        <5> QED BY <5>3 DEF j
      <4> QED BY <3>1, <4>1, <4>3, <1>6
    <3> QED BY <3>3, <3>4, <3>5 DEF Path
  <2> QED BY <2>2, <2>3
<1>8. r.ok => IsScope(r.tree, scope \o vec)
  <2> SUFFICES ASSUME blocked = {} PROVE IsScope(r.tree, scope \o vec)
    BY <1>1
  <2>1. CASE vec = Root
    <3>1. scope \o vec = scope
      BY <2>1 DEF Path, Root
    <3> QED BY <3>1, <1>5
  <2>2. CASE vec # Root
    <3>1. Len(vec) \in 1..Len(vec) /\ SubSeq(vec, 1, Len(vec)) = vec
      BY <2>2 DEF Path, Root
    <3>2. scope \o vec \in chain /\ scope \o vec \in Path
      BY <3>1, <1>3
    <3>3. CASE scope \o vec \in DOMAIN t
      <4>1. IsScope(t, scope \o vec)
        BY <3>2, <3>3 DEF IsVariable, IsScope
      <4> QED BY <3>2, <4>1, <1>5
    <3>4. CASE scope \o vec \notin DOMAIN t
      <4>1. scope \o vec \in made
        BY <3>2, <3>4
      <4>2. scope \o vec \in DOMAIN r.tree /\ r.tree[scope \o vec] = ScopeItem
        BY <4>1, <3>4, <1>2
      <4> QED BY <4>2 DEF IsScope, ScopeItem
    <3> QED BY <3>3, <3>4
  <2> QED BY <2>1, <2>2
\* A variable in the way was reached through scopes that were there.
<1>9. ~r.ok => r.tree = t
  <2> SUFFICES ASSUME blocked # {} PROVE made = {}
    <3>1. made = {} => r.tree = [p \in DOMAIN t |-> t[p]]
      BY <1>1
    <3> QED BY <1>1, <3>1 DEF IsTree
  <2> SUFFICES ASSUME NEW p \in made PROVE FALSE
    OBVIOUS
  <2>1. PICK b \in blocked : TRUE
    OBVIOUS
  <2>2. PICK i \in 1..Len(vec) : b = scope \o SubSeq(vec, 1, i)
    OBVIOUS
  <2>3. PICK j \in 1..Len(vec) : p = scope \o SubSeq(vec, 1, j)
    OBVIOUS
  <2>4. b \in DOMAIN t /\ p \notin DOMAIN t /\ Len(p) < Len(b)
    BY <2>1 DEF IsVariable
  <2>5. j < i
    <3>1. Len(b) = Len(scope) + i /\ Len(p) = Len(scope) + j
      BY <2>2, <2>3, <1>3
    <3> QED BY <3>1, <2>4, <1>a
  <2>6. p = SubSeq(b, 1, Len(p))
    <3>1. Len(p) = Len(scope) + j
      BY <2>3, <1>3
    <3>2. j \in 1..i
      BY <2>5
    <3>3. SubSeq(scope \o SubSeq(vec, 1, i), 1, Len(scope) + j) = scope \o SubSeq(vec, 1, j)
      BY <3>2, FirstNamesOfChain
    <3> QED BY <2>2, <2>3, <3>1, <3>3
  <2>7. Len(p) \in 1..(Len(b) - 1) /\ p # Root
    <3>1. Len(b) = Len(scope) + i /\ Len(p) = Len(scope) + j /\ p # Root
      BY <2>2, <2>3, <1>3
    <3> QED BY <3>1, <2>5, <1>a
  <2>8. IsScope(t, p)
    BY <2>4, <2>6, <2>7 DEF Rooted
  <2> QED BY <2>4, <2>7, <2>8 DEF IsScope
<1>10. ASSUME NEW q \in DOMAIN r.tree \ DOMAIN t
       PROVE  /\ r.tree[q] = ScopeItem
              /\ IsStrictPrefix(scope, q) /\ IsPrefix(q, scope \o vec)
  <2>1. PICK i \in 1..Len(vec) : q = scope \o SubSeq(vec, 1, i)
    BY <1>2
  <2>2. IsPrefix(q, scope \o vec)
    BY <2>1 DEF IsPrefix, Path
  <2> QED BY <1>2, <1>3, <2>1, <2>2
<1> QED BY <1>1, <1>2, <1>4, <1>7, <1>8, <1>9, <1>10 DEF r

\* What every operation that puts something into a tree has in common: the
\* result u is a rooted tree, everything in t is still there and of its kind,
\* and what is new or different is strictly below the scope it started from.
Grown(t, u, scope) ==
  /\ IsTree(u) /\ Rooted(u)
  /\ DOMAIN t \subseteq DOMAIN u
  /\ \A q \in DOMAIN t : IsScope(t, q) <=> IsScope(u, q)
  /\ \A q \in DOMAIN t \cup DOMAIN u :
       FindItem(t, q) # FindItem(u, q) => IsStrictPrefix(scope, q)

LEMMA EnsureScopeExistsGrows ==
  ASSUME NEW t, IsTree(t), Rooted(t),
         NEW scope \in Path, IsScope(t, scope), NEW vec \in Path
  PROVE  Grown(t, EnsureScopeExists(t, scope, vec).tree, scope)
<1> DEFINE u == EnsureScopeExists(t, scope, vec).tree
<1>1. /\ IsTree(u) /\ Rooted(u)
      /\ DOMAIN t \subseteq DOMAIN u
      /\ \A q \in DOMAIN t : u[q] = t[q]
      /\ \A q \in DOMAIN u \ DOMAIN t : IsStrictPrefix(scope, q)
  BY EnsureScopeExistsKeepsTree
<1> HIDE DEF u
<1>2. \A q \in DOMAIN t : IsScope(t, q) <=> IsScope(u, q)
  BY <1>1 DEF IsScope
<1>3. \A q \in DOMAIN t \cup DOMAIN u :
         FindItem(t, q) # FindItem(u, q) => IsStrictPrefix(scope, q)
  BY <1>1 DEF FindItem
<1> QED BY <1>1, <1>2, <1>3 DEF Grown, u

\* insertString and insertList: the tree grows by the entry and the scopes on
\* the way to it; when the call is refused nothing has been added.
LEMMA InsertGrows ==
  ASSUME NEW t, IsTree(t), Rooted(t),
         NEW scope \in Path, IsScope(t, scope),
         NEW vec \in Path, vec # Root, NEW item \in Variable
  PROVE  LET r == Insert(t, scope, vec, item)
         IN  /\ Grown(t, r.tree, scope)
             /\ r.ok \in BOOLEAN
             /\ ~r.ok => r.tree = t
<1> DEFINE outer == EnsureScopeExists(t, scope, Front(vec))
           target == scope \o vec
           added == AddOrReplace(outer.tree, target, item)
           r == Insert(t, scope, vec, item)
<1>1. Front(vec) \in Path
  BY FrontOfPath
<1>2. /\ IsTree(outer.tree) /\ Rooted(outer.tree)
      /\ DOMAIN t \subseteq DOMAIN outer.tree
      /\ \A q \in DOMAIN t : outer.tree[q] = t[q]
      /\ \A q \in DOMAIN outer.tree \ DOMAIN t :
           IsStrictPrefix(scope, q) /\ IsPrefix(q, scope \o Front(vec))
      /\ outer.ok \in BOOLEAN
      /\ outer.ok => IsScope(outer.tree, scope \o Front(vec))
      /\ ~outer.ok => outer.tree = t
  BY <1>1, EnsureScopeExistsKeepsTree
<1>3. Grown(t, outer.tree, scope)
  BY <1>1, EnsureScopeExistsGrows
<1>4. r = IF outer.ok THEN added ELSE outer
  BY DEF Insert
<1>5. target \in Path /\ target # Root /\ IsStrictPrefix(scope, target)
  BY BelowIsLonger
<1>6. Front(target) = scope \o Front(vec)
  BY FrontOfConcat
<1>7. CASE ~outer.ok
  BY <1>2, <1>3, <1>4, <1>7
<1>8. CASE outer.ok
  <2>1. /\ IsTree(added.tree) /\ Rooted(added.tree)
        /\ DOMAIN outer.tree \subseteq DOMAIN added.tree
        /\ \A q \in Path : IsScope(outer.tree, q) <=> IsScope(added.tree, q)
        /\ \A q \in DOMAIN outer.tree \cup DOMAIN added.tree :
             FindItem(outer.tree, q) # FindItem(added.tree, q) => q = target
        /\ ~added.ok => added.tree = outer.tree
    <3>1. IsScope(outer.tree, Front(target))
      BY <1>2, <1>6, <1>8
    <3> HIDE DEF outer, target
    <3> QED BY <1>2, <1>5, <3>1, AddOrReplaceKeepsTree
  <2>2. added.ok \in BOOLEAN
    BY DEF AddOrReplace
  <2>3. ~added.ok => target \in DOMAIN outer.tree /\ outer.tree[target].type = "Scope"
    BY DEF AddOrReplace
  <2> HIDE DEF added, outer
  <2>4. Grown(t, added.tree, scope)
    <3>1. DOMAIN t \subseteq DOMAIN added.tree
      BY <1>2, <2>1
    <3>2. \A q \in DOMAIN t : IsScope(t, q) <=> IsScope(added.tree, q)
      BY <1>3, <2>1 DEF Grown, IsTree
    <3>3. ASSUME NEW q \in DOMAIN t \cup DOMAIN added.tree,
                 FindItem(t, q) # FindItem(added.tree, q)
          PROVE  IsStrictPrefix(scope, q)
      <4>1. CASE FindItem(t, q) # FindItem(outer.tree, q)
        <5>1. q \in DOMAIN t \cup DOMAIN outer.tree
          BY <4>1 DEF FindItem
        <5> QED BY <4>1, <5>1, <1>3 DEF Grown
      <4>2. CASE FindItem(outer.tree, q) # FindItem(added.tree, q)
        <5>1. q = target
          BY <4>2, <2>1, <1>2
        <5> QED BY <5>1, <1>5
      <4> QED BY <3>3, <4>1, <4>2
    <3> QED BY <2>1, <3>1, <3>2, <3>3 DEF Grown
  <2>5. ASSUME ~added.ok PROVE added.tree = t
    <3>1. ASSUME NEW q \in DOMAIN outer.tree, q \notin DOMAIN t PROVE FALSE
      <4>1. q \in Path /\ q # Root /\ IsPrefix(q, scope \o Front(vec))
        BY <3>1, <1>2 DEF IsTree
      <4>2. /\ IsStrictPrefix(Front(target), target) /\ Len(Front(target)) = Len(target) - 1
            /\ Front(target) \in Path
        BY <1>5, FrontOfPath
      <4>3. IsPrefix(q, target) /\ Len(q) <= Len(target) - 1
        <5>1. IsPrefix(q, Front(target)) /\ IsPrefix(Front(target), target)
          BY <4>1, <4>2, <1>6 DEF IsStrictPrefix
        <5>2. IsPrefix(q, target)
          BY <5>1, <4>1, <4>2, <1>5, PrefixIsTransitive
        <5> QED BY <5>1, <5>2, <4>2 DEF IsPrefix
      <4>4. Len(q) \in 1..(Len(target) - 1) /\ q = SubSeq(target, 1, Len(q))
        <5>1. Len(q) \in Nat /\ Len(q) # 0 /\ Len(target) \in Nat
          BY <4>1, <1>5 DEF Path, Root
        <5>2. q = SubSeq(q, 1, Len(q))
          BY <4>1 DEF Path
        <5> QED BY <4>3, <5>1, <5>2 DEF IsPrefix
      <4>5. target \in DOMAIN t
        <5>1. target \in DOMAIN outer.tree
          BY <2>3, <2>5
        <5>2. ~IsPrefix(target, Front(target))
          BY <4>2, <1>5 DEF IsPrefix, Path
        <5> QED BY <5>1, <5>2, <1>2, <1>6
      <4>6. IsScope(t, q)
        BY <4>4, <4>5 DEF Rooted
      <4> QED BY <3>1, <4>1, <4>6 DEF IsScope
    <3>2. DOMAIN outer.tree = DOMAIN t
      BY <3>1, <1>2
    <3>3. outer.tree = t
      <4>1. outer.tree = [q \in DOMAIN t |-> outer.tree[q]] /\ t = [q \in DOMAIN t |-> t[q]]
        BY <3>2, <1>2 DEF IsTree
      <4> QED BY <4>1, <1>2
    <3> QED BY <2>1, <2>5, <3>3
  <2> QED BY <1>4, <1>8, <2>2, <2>4, <2>5
<1> QED BY <1>7, <1>8, <1>2

\* A lookup returns an item of the tree it searched, or NoItem.
LEMMA LookupReturnsItem ==
  ASSUME NEW t, IsTree(t), NEW fb, IsTree(fb), NEW scope, NEW ref, NEW startInRoot
  PROVE  /\ OwnLookup(t, scope, ref, startInRoot) \in Item \cup {NoItem}
         /\ Lookup(t, fb, scope, ref, startInRoot) \in Item \cup {NoItem}
<1>1. ASSUME NEW u, IsTree(u), NEW p PROVE FindItem(u, p) \in Item \cup {NoItem}
  BY <1>1 DEF FindItem, IsTree
<1>2. ASSUME NEW u, IsTree(u), NEW s, NEW vec
      PROVE  LookupHelper(u, s, vec) \in Item \cup {NoItem}
  BY <1>1, <1>2 DEF LookupHelper
<1>3. ASSUME NEW u, IsTree(u), NEW s, NEW vec
      PROVE  LookupUpwards(u, s, vec) \in Item \cup {NoItem}
  BY <1>2, <1>3 DEF LookupUpwards
<1> QED BY <1>3 DEF OwnLookup, Lookup

\* In a rooted tree the walk of lookupHelper finds just the entry at the end.
LEMMA LookupHelperFinds ==
  ASSUME NEW t, IsTree(t), Rooted(t), NEW scope \in Path, NEW vec \in Path, vec # Root
  PROVE  LookupHelper(t, scope, vec) = FindItem(t, scope \o vec)
<1> DEFINE p == scope \o vec
<1>1. p \in Path /\ Len(p) = Len(scope) + Len(vec) /\ Len(scope) \in Nat /\ Len(vec) \in Nat
  BY BelowIsLonger DEF Path
<1>2. CASE p \in DOMAIN t
  <2>1. ASSUME NEW i \in 1..(Len(vec) - 1)
        PROVE  FindItem(t, scope \o SubSeq(vec, 1, i)).type = "Scope"
    <3> DEFINE n == Len(scope) + i
               q == scope \o SubSeq(vec, 1, i)
    <3>1. n \in 1..(Len(p) - 1) /\ n \in 0..(Len(scope) + Len(vec)) /\ n > Len(scope)
          /\ n - Len(scope) = i
      BY <1>1, <2>1
    <3>2. SubSeq(p, 1, n) = q
      BY <3>1, FirstNamesOfConcat
    <3>3. IsScope(t, q)
      BY <1>2, <3>1, <3>2 DEF Rooted
    <3>4. q # Root
      <4>1. SubSeq(p, 1, n) # Root
        <5>1. n \in 0..Len(p) /\ n # 0
          BY <1>1, <3>1
        <5> HIDE DEF n
        <5> QED BY <1>1, <5>1, FirstNames
      <4> QED BY <3>2, <4>1
    <3> HIDE DEF q
    <3> QED BY <3>3, <3>4 DEF IsScope, FindItem, q
  <2> QED BY <2>1 DEF LookupHelper
<1>3. CASE p \notin DOMAIN t
  BY <1>3 DEF LookupHelper, FindItem
<1> QED BY <1>2, <1>3

\* A name without a dot in front finds an entry of the root scope, as it is.
LEMMA LookupFromRoot ==
  ASSUME NEW t, IsTree(t), Rooted(t), NEW p \in Path, p # Root
  PROVE  LookupUpwards(t, Root, p) = FindItem(t, p)
<1>1. Root \o p = p /\ Len(Root) = 0 /\ SubSeq(Root, 1, 0) = Root /\ Root \in Path
  BY DEF Root, Path
<1>2. LookupHelper(t, Root, p) = FindItem(t, p)
  <2>1. LookupHelper(t, Root, p) = FindItem(t, Root \o p)
    BY <1>1, LookupHelperFinds, Zenon
  <2> QED BY <1>1, <2>1
<1> DEFINE hits == {n \in 0..Len(Root) : LookupHelper(t, SubSeq(Root, 1, n), p) # NoItem}
<1>3. 0..Len(Root) = {0}
  BY <1>1
<1>4. CASE FindItem(t, p) = NoItem
  <2>1. hits = {}
    BY <1>1, <1>2, <1>3, <1>4
  <2> QED BY <1>4, <2>1 DEF LookupUpwards
<1>5. CASE FindItem(t, p) # NoItem
  <2>1. hits = {0}
    BY <1>1, <1>2, <1>3, <1>5
  <2>2. Max({0}) = 0
    BY DEF Max
  <2> HIDE DEF hits
  <2>3. LookupUpwards(t, Root, p) = IF hits = {} THEN NoItem ELSE LookupHelper(t, SubSeq(Root, 1, Max(hits)), p)
    BY DEF LookupUpwards, hits
  <2> QED BY <1>1, <1>2, <2>1, <2>2, <2>3
<1> QED BY <1>4, <1>5

\* The root scope is no entry of any scope.
LEMMA RootIsNoEntry ==
  ASSUME NEW t, IsTree(t)
  PROVE  LookupUpwards(t, Root, Root) = NoItem
<1>1. Root \o Root = Root /\ Len(Root) = 0 /\ SubSeq(Root, 1, 0) = Root
  BY DEF Root
<1>2. Root \notin DOMAIN t
  BY DEF IsTree
<1>3. LookupHelper(t, Root, Root) = NoItem
  BY <1>1, <1>2 DEF LookupHelper, FindItem
<1>4. {n \in 0..Len(Root) : LookupHelper(t, SubSeq(Root, 1, n), Root) # NoItem} = {}
  <2>1. 0..Len(Root) = {0}
    BY <1>1
  <2> QED BY <1>1, <1>3, <2>1, Zenon
<1> QED BY <1>4 DEF LookupUpwards

\* What t answers for a name, or the fallback fb if t has no such entry.
Seen(t, fb, p) == IF p \in DOMAIN t THEN t[p] ELSE FindItem(fb, p)

\* ... and an entry of the fallback, if there is none in the tree.
LEMMA RootLookupIs ==
  ASSUME NEW t, IsTree(t), Rooted(t), NEW fb, IsTree(fb), Rooted(fb), NEW scope,
         NEW p \in Path, p # Root
  PROVE  Lookup(t, fb, scope, [rooted |-> FALSE, vec |-> p], TRUE) = Seen(t, fb, p)
<1> DEFINE ref == [rooted |-> FALSE, vec |-> p]
<1>1. ref.vec = p
  OBVIOUS
<1>2. OwnLookup(t, scope, ref, TRUE) = FindItem(t, p)
  BY <1>1, LookupFromRoot DEF OwnLookup
<1>3. LookupUpwards(fb, Root, ref.vec) = FindItem(fb, p)
  BY <1>1, LookupFromRoot
<1>4. p \in DOMAIN t => t[p] # NoItem
  BY DEF IsTree, Item, Variable, ScopeItem, NoItem
<1> HIDE DEF ref
<1>5. Lookup(t, fb, scope, ref, TRUE) = IF FindItem(t, p) # NoItem THEN FindItem(t, p) ELSE FindItem(fb, p)
  BY <1>2, <1>3 DEF Lookup
<1>6. Lookup(t, fb, scope, ref, TRUE) = Seen(t, fb, p)
  BY <1>4, <1>5 DEF FindItem, Seen
<1> QED BY <1>6 DEF ref

\* What @copyFrom relies on: a name listed in the tree or in the fallback is found.
LEMMA ListedNameIsFound ==
  ASSUME NEW t, IsTree(t), Rooted(t), NEW fb, IsTree(fb), Rooted(fb), NEW scope,
         NEW p \in DOMAIN t \cup DOMAIN fb
  PROVE  Lookup(t, fb, scope, [rooted |-> FALSE, vec |-> p], TRUE) # NoItem
<1>1. p \in Path /\ p # Root
  BY DEF IsTree
<1>2. Seen(t, fb, p) # NoItem
  BY DEF Seen, FindItem, IsTree, Item, Variable, ScopeItem, NoItem
<1> QED BY <1>1, <1>2, RootLookupIs

----------------------------------------------------------------------------
(* What a copied entry does to a tree. *)

\* u is t with item at scope \o vec: nothing else in it is another, and what is
\* new are that entry and scopes on the way to it.
Copied(t, u, scope, vec, item) ==
  /\ \A q \in DOMAIN t : q # scope \o vec => q \in DOMAIN u /\ u[q] = t[q]
  /\ \A q \in DOMAIN u \ DOMAIN t : \E i \in 1..Len(vec) : q = scope \o SubSeq(vec, 1, i)
  /\ FindItem(u, scope \o vec) = item

\* ensureScopeExists copies a scope ...
LEMMA EnsureCopies ==
  ASSUME NEW t, IsTree(t), Rooted(t), NEW scope \in Path, IsScope(t, scope),
         NEW vec \in Path, vec # Root, EnsureScopeExists(t, scope, vec).ok
  PROVE  Copied(t, EnsureScopeExists(t, scope, vec).tree, scope, vec, ScopeItem)
<1> DEFINE r == EnsureScopeExists(t, scope, vec)
           u == r.tree
           target == scope \o vec
<1>1. /\ IsTree(u) /\ DOMAIN t \subseteq DOMAIN u /\ \A q \in DOMAIN t : u[q] = t[q]
      /\ \A q \in DOMAIN u \ DOMAIN t : IsStrictPrefix(scope, q) /\ IsPrefix(q, target)
      /\ IsScope(u, target)
  BY EnsureScopeExistsKeepsTree
<1>2. target # Root
  BY BelowIsLonger
<1>3. \A q \in DOMAIN u : q \in Path /\ u[q] \in Item
  BY <1>1 DEF IsTree
<1> HIDE DEF u
<1>4. \A q \in DOMAIN u \ DOMAIN t : \E i \in 1..Len(vec) : q = scope \o SubSeq(vec, 1, i)
  BY <1>1, <1>3, OnTheWay
<1>5. FindItem(u, target) = ScopeItem
  <2>1. \A x \in Item : x.type = "Scope" => x = ScopeItem
    BY DEF Item, Variable
  <2>2. target \in DOMAIN u /\ u[target].type = "Scope"
    BY <1>1, <1>2 DEF IsScope
  <2> QED BY <1>3, <2>1, <2>2 DEF FindItem
<1> QED BY <1>1, <1>4, <1>5 DEF Copied, u

\* ... and insertString and insertList copy a variable.
LEMMA InsertCopies ==
  ASSUME NEW t, IsTree(t), Rooted(t), NEW scope \in Path, IsScope(t, scope),
         NEW vec \in Path, vec # Root, NEW item \in Variable, Insert(t, scope, vec, item).ok
  PROVE  Copied(t, Insert(t, scope, vec, item).tree, scope, vec, item)
<1> DEFINE outer == EnsureScopeExists(t, scope, Front(vec))
           o == outer.tree
           target == scope \o vec
           added == AddOrReplace(o, target, item)
           u == Insert(t, scope, vec, item).tree
<1>1. Front(vec) \in Path /\ target \in Path /\ scope \o Front(vec) \in Path
  BY FrontOfPath, BelowIsLonger DEF Path
<1>2. /\ IsTree(o) /\ DOMAIN t \subseteq DOMAIN o /\ \A q \in DOMAIN t : o[q] = t[q]
      /\ \A q \in DOMAIN o \ DOMAIN t : IsStrictPrefix(scope, q) /\ IsPrefix(q, scope \o Front(vec))
  BY <1>1, EnsureScopeExistsKeepsTree
<1>3. IsPrefix(scope \o Front(vec), target)
  <2>1. Front(target) = scope \o Front(vec)
    BY FrontOfConcat
  <2>2. target # Root
    BY BelowIsLonger
  <2>3. IsStrictPrefix(Front(target), target)
    BY <1>1, <2>2, FrontOfPath
  <2> QED BY <2>1, <2>3 DEF IsStrictPrefix
<1>4. \A q \in DOMAIN o : q \in Path
  BY <1>2 DEF IsTree
<1>5. \A q \in DOMAIN o \ DOMAIN t : IsStrictPrefix(scope, q) /\ IsPrefix(q, target)
  BY <1>1, <1>2, <1>3, <1>4, PrefixIsTransitive
<1>6. outer.ok /\ u = added.tree /\ added.ok
  BY DEF Insert
<1>7. u = [q \in DOMAIN o \cup {target} |-> IF q = target THEN item ELSE o[q]]
  BY <1>6 DEF AddOrReplace
<1>8. Len(vec) \in 1..Len(vec) /\ SubSeq(vec, 1, Len(vec)) = vec
  BY DEF Path, Root
<1> HIDE DEF u, o
<1>9. \A q \in DOMAIN u \ DOMAIN t : \E i \in 1..Len(vec) : q = scope \o SubSeq(vec, 1, i)
  <2> SUFFICES ASSUME NEW q \in DOMAIN u \ DOMAIN t
               PROVE  \E i \in 1..Len(vec) : q = scope \o SubSeq(vec, 1, i)
    OBVIOUS
  <2>1. CASE q = target
    BY <1>8, <2>1
  <2>2. CASE q # target
    <3>1. q \in DOMAIN o \ DOMAIN t
      BY <1>7, <2>2
    <3>2. q \in Path /\ IsStrictPrefix(scope, q) /\ IsPrefix(q, target)
      BY <1>4, <1>5, <3>1
    <3> QED BY <3>2, OnTheWay
  <2> QED BY <2>1, <2>2
<1>10. FindItem(u, target) = item
  BY <1>7 DEF FindItem
<1>11. \A q \in DOMAIN t : q # target => q \in DOMAIN u /\ u[q] = t[q]
  BY <1>2, <1>7
<1> QED BY <1>9, <1>10, <1>11 DEF Copied, u

=============================================================================
