---------------------- MODULE ConfigurationOwnersProofs ----------------------
(***************************************************************************)
(* Proofs about ConfigurationOwners, for any number of objects.            *)
(***************************************************************************)
EXTENDS ConfigurationOwners, TLAPS

\* An object that is owned is known to its owner only, and to it as what it owns.
OwnedIsPrivate ==
  \A o, p \in Live, x \in Object :
    Owns(o, x) /\ p # x =>
      /\ obj[p].fallback = x => p = o /\ OwnsAsFallback(o, x)
      /\ obj[p].security = x => p = o /\ OwnsAsSecurity(o, x)

\* An object that was forgotten is destroyed by nobody.
ForgottenIsFree ==
  \A x \in forgotten : x \notin held /\ \A o \in Live : ~Owns(o, x)

IInv ==
  /\ OwnersOK /\ DestroyedOnce /\ NoDanglingPointer /\ NothingElseIsForgotten
  /\ OwnedIsPrivate /\ ForgottenIsFree

USE NoObjects

----------------------------------------------------------------------------
(* Trees. *)

\* A tree contains its root, is closed under ownership, and whatever else is in it
\* is owned by an object in it.
LEMMA TreeFacts ==
  ASSUME NEW x \in Object, Live \subseteq Object
  PROVE  /\ x \in Tree(x) /\ Tree(x) \subseteq Object
         /\ \A p \in Tree(x) \cap Live, y \in Object : Owns(p, y) => y \in Tree(x)
         /\ \A y \in Tree(x) \ {x} : \E p \in Tree(x) \cap Live : Owns(p, y)
<1> DEFINE D == Tree(x)
           S == {x} \cup {y \in D : \E p \in D \cap Live : Owns(p, y)}
<1>1. x \in D /\ D \subseteq Object
  BY DEF Tree
<1>2. \A p \in D \cap Live, y \in Object : Owns(p, y) => y \in D
  BY DEF Tree, ClosedUnderOwns
<1>3. ClosedUnderOwns(S)
  <2> SUFFICES ASSUME NEW p \in S \cap Live, NEW y \in Object, Owns(p, y)
               PROVE  y \in S
    BY DEF ClosedUnderOwns
  <2>1. p \in D \cap Live
    BY <1>1
  <2> QED BY <2>1, <1>2
<1>4. S \in SUBSET Object /\ x \in S
  BY <1>1
<1>5. D \subseteq S
  BY <1>3, <1>4 DEF Tree
<1> QED BY <1>1, <1>2, <1>5

\* What can be destroyed without leaving a pointer behind, but for the root's.
Severed(D, root) ==
  /\ D \subseteq Live /\ root \in D
  /\ (D \ {root}) \cap held = {} /\ (D \ {root}) \cap forgotten = {}
  /\ \A p \in D, y \in Object : Owns(p, y) => y \in D
  /\ \A p \in Live \ D : /\ obj[p].fallback \in D => obj[p].fallback = root
                         /\ obj[p].security \in D => obj[p].security = root

LEMMA TreeIsSevered ==
  ASSUME IInv, NEW x \in Live
  PROVE  Severed(Tree(x), x)
<1> DEFINE D == Tree(x)
<1>0. Live \subseteq Object /\ x \in Object
  BY DEF IInv, OwnersOK
<1>1. /\ x \in D /\ D \subseteq Object
      /\ \A p \in D \cap Live, y \in Object : Owns(p, y) => y \in D
      /\ \A y \in D \ {x} : \E p \in D \cap Live : Owns(p, y)
  BY <1>0, TreeFacts
<1>2. \A y \in D \ {x} : y \in Live \ held /\ y \notin forgotten
  BY <1>1 DEF IInv, DestroyedOnce, OneToDestroy, ForgottenIsFree
<1>3. ASSUME NEW p \in Live \ D, NEW y \in D, obj[p].fallback = y \/ obj[p].security = y, y # x
      PROVE  FALSE
  <2>1. PICK q \in D \cap Live : Owns(q, y)
    BY <1>1, <1>3
  <2>2. p = q
    BY <2>1, <1>1, <1>3 DEF IInv, OwnedIsPrivate
  <2> QED BY <2>2, <2>1
<1> QED BY <1>1, <1>2, <1>3 DEF Severed

\* The old fallback, if it is owned, and the old security configuration.
Replaced(D, o) ==
  /\ D \subseteq Live /\ D \cap held = {} /\ D \cap forgotten = {}
  /\ \A p \in D, y \in Object : Owns(p, y) => y \in D
  /\ \A p \in Live \ D : p # o => obj[p].fallback \notin D /\ obj[p].security \notin D

LEMMA OldFallbackFacts ==
  ASSUME IInv, NEW o \in held
  PROVE  Replaced(OldFallback(o), o) /\ obj[o].security \notin OldFallback(o)
<1> DEFINE x == obj[o].fallback
<1>1. o \in Live /\ obj[o] \in Fields /\ Live \subseteq Object
  BY DEF IInv, OwnersOK
<1>2. CASE ~obj[o].ownsFallback
  BY <1>2 DEF OldFallback, Replaced
<1>3. CASE obj[o].ownsFallback
  <2>1. x \in Object /\ x \in Live \ held /\ OwnsAsFallback(o, x)
    <3>0. \A p \in Live : obj[p].ownsFallback => obj[p].fallback \in Object
      BY DEF IInv, DestroyedOnce, SomethingToDestroy
    <3>1. x \in Object
      BY <3>0, <1>1, <1>3
    <3>2. OwnsAsFallback(o, x)
      BY <1>3 DEF OwnsAsFallback
    <3>3. Owns(o, x)
      BY <3>2 DEF Owns
    <3> QED BY <3>1, <3>2, <3>3, <1>1 DEF IInv, DestroyedOnce, OneToDestroy
  <2>2. Severed(Tree(x), x) /\ OldFallback(o) = Tree(x)
    BY <2>1, <1>3, TreeIsSevered DEF OldFallback
  <2>3. x \notin forgotten
    BY <2>1, <1>1 DEF IInv, ForgottenIsFree, Owns
  <2>4. \A p \in Live : p # x /\ p # o => obj[p].fallback # x /\ obj[p].security # x
    BY <2>1, <1>1 DEF IInv, OwnedIsPrivate, Owns
  <2>5. o \notin Tree(x) /\ obj[o].security # x
    BY <2>1, <2>2, <1>1 DEF IInv, OwnedIsPrivate, DestroyedOnce, OneToDestroy, Owns, Severed, OwnsAsSecurity
  <2> QED BY <2>1, <2>2, <2>3, <2>4, <2>5, <1>1 DEF Severed, Replaced
<1> QED BY <1>1, <1>2, <1>3 DEF Fields

LEMMA OldSecurityFacts ==
  ASSUME IInv, NEW o \in held
  PROVE  Replaced(OldSecurity(o), o) /\ obj[o].fallback \notin OldSecurity(o)
<1> DEFINE x == obj[o].security
<1>1. o \in Live /\ obj[o] \in Fields /\ Live \subseteq Object
  BY DEF IInv, OwnersOK
<1>2. CASE ~obj[o].ownsSecurity
  BY <1>2 DEF OldSecurity, Replaced
<1>3. CASE obj[o].ownsSecurity
  <2>1. x \in Object /\ x \in Live \ held /\ OwnsAsSecurity(o, x)
    <3>0. \A p \in Live : obj[p].ownsSecurity => obj[p].security \in Object
      BY DEF IInv, DestroyedOnce, SomethingToDestroy
    <3>1. x \in Object
      BY <3>0, <1>1, <1>3
    <3>2. OwnsAsSecurity(o, x)
      BY <1>3 DEF OwnsAsSecurity
    <3>3. Owns(o, x)
      BY <3>2 DEF Owns
    <3> QED BY <3>1, <3>2, <3>3, <1>1 DEF IInv, DestroyedOnce, OneToDestroy
  <2>2. Severed(Tree(x), x) /\ OldSecurity(o) = Tree(x)
    BY <2>1, <1>3, TreeIsSevered DEF OldSecurity
  <2>3. x \notin forgotten
    BY <2>1, <1>1 DEF IInv, ForgottenIsFree, Owns
  <2>4. \A p \in Live : p # x /\ p # o => obj[p].fallback # x /\ obj[p].security # x
    BY <2>1, <1>1 DEF IInv, OwnedIsPrivate, Owns
  <2>5. o \notin Tree(x) /\ obj[o].fallback # x
    BY <2>1, <2>2, <1>1 DEF IInv, OwnedIsPrivate, DestroyedOnce, OneToDestroy, Owns, Severed, OwnsAsFallback
  <2> QED BY <2>1, <2>2, <2>3, <2>4, <2>5, <1>1 DEF Severed, Replaced
<1> QED BY <1>1, <1>2, <1>3 DEF Fields

----------------------------------------------------------------------------
(* What the replacing operations have in common: the objects of D are gone, o   *)
(* has new fields, and possibly there is a new object n.                        *)

LEMMA InitIInv == Init => IInv
<1> SUFFICES ASSUME Init PROVE IInv
  OBVIOUS
<1>1. Live = {} /\ obj \in [Live -> Fields] /\ held = {} /\ forgotten = {} /\ exc = "none"
  BY DEF Init, Live
<1> QED
  BY <1>1 DEF IInv, OwnersOK, DestroyedOnce, SomethingToDestroy, OneToDestroy, NoDanglingPointer,
    NothingElseIsForgotten, OwnedIsPrivate, ForgottenIsFree

LEMMA NewFacts ==
  ASSUME NEW entries \in SUBSET Entry
  PROVE  /\ New(entries) \in Fields
         /\ New(entries).holds = entries /\ New(entries).fallback = None
         /\ New(entries).security = Default
         /\ New(entries).ownsFallback = FALSE /\ New(entries).ownsSecurity = FALSE
  BY DEF New, Fields, Entry

\* A new object that the program holds, or that is forgotten.
LEMMA NewObject ==
  ASSUME IInv, NEW n \in Fresh,
         obj' = After({}, Only(n, New({}))),
         \/ held' = held \cup {n} /\ forgotten' = forgotten
         \/ held' = held /\ forgotten' = forgotten \cup {n},
         exc' \in {"none", "config", "foreign"}
  PROVE  IInv'
<1>1. /\ Live' = Live \cup {n} /\ n \in Object \ Live /\ Live \subseteq Object
      /\ \A x \in Live : obj'[x] = obj[x] /\ obj[x] \in Fields
      /\ obj'[n] = New({})
      /\ obj' = [x \in Live' |-> obj'[x]]
      /\ held \subseteq Live /\ forgotten \subseteq Live
  BY DEF IInv, OwnersOK, Live, Fresh, After, Only
<1>2. /\ New({}) \in Fields /\ New({}).fallback = None /\ New({}).security = Default
      /\ New({}).ownsFallback = FALSE /\ New({}).ownsSecurity = FALSE
  BY NewFacts
<1>3. \A p \in Live, x \in Object :
        /\ Owns(p, x)' <=> Owns(p, x)
        /\ OwnsAsFallback(p, x)' <=> OwnsAsFallback(p, x)
        /\ OwnsAsSecurity(p, x)' <=> OwnsAsSecurity(p, x)
  BY <1>1 DEF Owns, OwnsAsFallback, OwnsAsSecurity
<1>4. \A x \in Object : ~Owns(n, x)'
  BY <1>1, <1>2 DEF Owns, OwnsAsFallback, OwnsAsSecurity
<1>5. \A p \in Live, x \in Object : Owns(p, x) => x # n
  BY <1>1 DEF IInv, DestroyedOnce, OneToDestroy
<1>6. OwnersOK'
  BY <1>1, <1>2 DEF OwnersOK
<1>7. SomethingToDestroy'
  BY <1>1, <1>2 DEF IInv, DestroyedOnce, SomethingToDestroy
<1>8. OneToDestroy'
  BY <1>1, <1>3, <1>4, <1>5 DEF IInv, DestroyedOnce, OneToDestroy
<1>9. NoDanglingPointer'
  BY <1>1, <1>2 DEF IInv, NoDanglingPointer
<1>10. NothingElseIsForgotten'
  BY <1>1, <1>3 DEF IInv, NothingElseIsForgotten
<1>11. OwnedIsPrivate'
  BY <1>1, <1>2, <1>3, <1>4, <1>5 DEF IInv, OwnedIsPrivate
<1>12. ForgottenIsFree'
  BY <1>1, <1>3, <1>4, <1>5 DEF IInv, ForgottenIsFree
<1> QED BY <1>6, <1>7, <1>8, <1>9, <1>10, <1>11, <1>12 DEF IInv, DestroyedOnce

\* Only the lists of o change.
LEMMA OtherLists ==
  ASSUME IInv, NEW o \in held, NEW entries \in SUBSET Entry,
         obj' = [obj EXCEPT ![o].holds = entries],
         UNCHANGED <<held, forgotten>>, exc' \in {"none", "config", "foreign"}
  PROVE  IInv'
<1>1. /\ Live' = Live /\ o \in Live /\ Live \subseteq Object /\ obj \in [Live -> Fields]
      /\ obj' \in [Live -> Fields]
      /\ held' = held /\ forgotten' = forgotten
  BY DEF IInv, OwnersOK, Live, Fields
<1>2. \A x \in Live : /\ obj'[x].fallback = obj[x].fallback
                      /\ obj'[x].ownsFallback = obj[x].ownsFallback
                      /\ obj'[x].security = obj[x].security
                      /\ obj'[x].ownsSecurity = obj[x].ownsSecurity
  BY <1>1 DEF Fields
<1>3. \A p \in Live, x \in Object :
        /\ Owns(p, x)' <=> Owns(p, x)
        /\ OwnsAsFallback(p, x)' <=> OwnsAsFallback(p, x)
        /\ OwnsAsSecurity(p, x)' <=> OwnsAsSecurity(p, x)
  BY <1>1, <1>2 DEF Owns, OwnsAsFallback, OwnsAsSecurity
<1>4. OwnersOK'
  BY <1>1 DEF IInv, OwnersOK
<1>5. DestroyedOnce'
  BY <1>1, <1>2, <1>3 DEF IInv, DestroyedOnce, SomethingToDestroy, OneToDestroy
<1>6. NoDanglingPointer' /\ NothingElseIsForgotten'
  BY <1>1, <1>2, <1>3 DEF IInv, NoDanglingPointer, NothingElseIsForgotten
<1>7. OwnedIsPrivate'
  BY <1>1, <1>2, <1>3 DEF IInv, OwnedIsPrivate
<1>8. ForgottenIsFree'
  <2> SUFFICES ASSUME NEW x \in forgotten, NEW p \in Live
               PROVE  x \notin held /\ ~Owns(p, x)'
    BY <1>1 DEF ForgottenIsFree
  <2>1. x \in Object /\ x \notin held /\ ~Owns(p, x)
    BY <1>1 DEF IInv, OwnersOK, ForgottenIsFree
  <2> QED BY <2>1, <1>3
<1> QED BY <1>4, <1>5, <1>6, <1>7, <1>8 DEF IInv

\* An object the program held is destroyed with its tree.
LEMMA DestroyStep ==
  ASSUME IInv, NEW o \in Object, Destroy(o)
  PROVE  IInv'
<1> DEFINE D == Tree(o)
<1>1. /\ o \in held /\ o \in Live /\ Live \subseteq Object /\ obj \in [Live -> Fields]
      /\ held \subseteq Live /\ forgotten \subseteq Live
  BY DEF IInv, OwnersOK, Destroy
<1>2. Severed(D, o)
  BY <1>1, TreeIsSevered
<1>3. /\ Live' = Live \ D /\ obj' = [x \in Live \ D |-> obj[x]]
      /\ held' = held \ {o} /\ forgotten' = forgotten /\ exc' = "none"
      /\ \A x \in Live \ D : obj'[x] = obj[x]
  BY DEF Destroy, Live, Returns
<1>4. \A p \in Live \ D : obj[p].fallback \notin D /\ obj[p].security \notin D
  BY <1>1, <1>2 DEF Severed, Destroy
<1>5. \A p \in Live \ D, x \in Object :
        /\ Owns(p, x)' <=> Owns(p, x)
        /\ OwnsAsFallback(p, x)' <=> OwnsAsFallback(p, x)
        /\ OwnsAsSecurity(p, x)' <=> OwnsAsSecurity(p, x)
  BY <1>3 DEF Owns, OwnsAsFallback, OwnsAsSecurity
<1>6. held' \subseteq Live' /\ forgotten' \subseteq Live'
  BY <1>1, <1>2, <1>3 DEF Severed, IInv, ForgottenIsFree
<1>7. OwnersOK'
  BY <1>1, <1>3, <1>6 DEF OwnersOK
<1>8. SomethingToDestroy'
  BY <1>3 DEF IInv, DestroyedOnce, SomethingToDestroy
<1>9. OneToDestroy'
  BY <1>3, <1>4, <1>5 DEF IInv, DestroyedOnce, OneToDestroy, Owns, OwnsAsFallback, OwnsAsSecurity
<1>10. NoDanglingPointer'
  BY <1>3, <1>4 DEF IInv, NoDanglingPointer
<1>11. NothingElseIsForgotten'
  <2> SUFFICES ASSUME NEW x \in Live \ D, x \notin held \cup forgotten
               PROVE  \E p \in Live' : Owns(p, x)'
    BY <1>2, <1>3 DEF NothingElseIsForgotten, Severed
  <2>1. PICK p \in Live : Owns(p, x)
    BY DEF IInv, NothingElseIsForgotten
  <2>2. p \notin D
    BY <2>1, <1>1, <1>2 DEF Severed
  <2> QED BY <2>1, <2>2, <1>1, <1>3, <1>5
<1>12. OwnedIsPrivate'
  BY <1>3, <1>5 DEF IInv, OwnedIsPrivate
<1>13. ForgottenIsFree'
  BY <1>1, <1>3, <1>5, <1>6 DEF IInv, ForgottenIsFree
<1> QED BY <1>7, <1>8, <1>9, <1>10, <1>11, <1>12, <1>13 DEF IInv, DestroyedOnce

\* The fallback is replaced by an object the program keeps, or by none.
LEMMA SetFallbackStep ==
  ASSUME IInv, NEW o \in Object, NEW f \in Object \cup {None}, SetFallback(o, f)
  PROVE  IInv'
<1> DEFINE D == OldFallback(o)
           r == [obj[o] EXCEPT !.fallback = f, !.ownsFallback = FALSE]
<1>1. /\ o \in held /\ o \in Live /\ Live \subseteq Object /\ obj \in [Live -> Fields]
      /\ held \subseteq Live /\ forgotten \subseteq Live /\ f \in held \cup {None}
  BY DEF IInv, OwnersOK, SetFallback
<1>2. Replaced(D, o) /\ obj[o].security \notin D
  BY <1>1, OldFallbackFacts
<1>3. o \notin D /\ f \notin D
  BY <1>1, <1>2 DEF Replaced
<1>4. /\ Live' = Live \ D /\ obj' = [x \in Live \ D |-> IF x = o THEN r ELSE obj[x]]
      /\ held' = held /\ forgotten' = forgotten /\ exc' = "none"
  BY <1>1, <1>3 DEF SetFallback, Live, Returns, After, Only
<1>5. /\ r \in Fields /\ r.fallback = f /\ r.ownsFallback = FALSE
      /\ r.security = obj[o].security /\ r.ownsSecurity = obj[o].ownsSecurity
  BY <1>1 DEF Fields
<1>6. /\ obj'[o] = r
      /\ \A x \in Live \ D : x # o => obj'[x] = obj[x]
  BY <1>1, <1>3, <1>4
<1>7. /\ \A p \in Live \ D, x \in Object :
           p # o => /\ Owns(p, x)' <=> Owns(p, x)
                    /\ OwnsAsFallback(p, x)' <=> OwnsAsFallback(p, x)
                    /\ OwnsAsSecurity(p, x)' <=> OwnsAsSecurity(p, x)
      /\ \A x \in Object : /\ ~OwnsAsFallback(o, x)'
                           /\ OwnsAsSecurity(o, x)' <=> OwnsAsSecurity(o, x)
                           /\ Owns(o, x)' <=> OwnsAsSecurity(o, x)
  BY <1>5, <1>6 DEF Owns, OwnsAsFallback, OwnsAsSecurity
<1>8. held' \subseteq Live' /\ forgotten' \subseteq Live'
  BY <1>1, <1>2, <1>4 DEF Replaced
<1>9. OwnersOK'
  BY <1>1, <1>4, <1>5, <1>8 DEF OwnersOK
<1>10. SomethingToDestroy'
  BY <1>4, <1>5, <1>6 DEF IInv, DestroyedOnce, SomethingToDestroy
<1>11. NoDanglingPointer'
  BY <1>1, <1>2, <1>3, <1>4, <1>5, <1>6 DEF IInv, NoDanglingPointer, Replaced
<1>12. \A p \in Live \ D, x \in Object : Owns(p, x)' => Owns(p, x) /\ x \notin D
  BY <1>2, <1>7 DEF Replaced, Owns, OwnsAsFallback, OwnsAsSecurity
<1>13. OneToDestroy'
  BY <1>4, <1>7, <1>12 DEF IInv, DestroyedOnce, OneToDestroy
<1>14. NothingElseIsForgotten'
  <2> SUFFICES ASSUME NEW x \in Live \ D, x \notin held \cup forgotten
               PROVE  \E p \in Live' : Owns(p, x)'
    BY <1>4 DEF NothingElseIsForgotten
  <2>1. PICK p \in Live : Owns(p, x)
    BY DEF IInv, NothingElseIsForgotten
  <2>2. p \notin D
    BY <2>1, <1>1, <1>2 DEF Replaced
  <2>3. CASE p # o
    BY <2>1, <2>2, <2>3, <1>1, <1>4, <1>7
  <2>4. CASE p = o
    <3>1. ~OwnsAsFallback(o, x)
      <4> SUFFICES ASSUME OwnsAsFallback(o, x) PROVE FALSE
        OBVIOUS
      <4>1. D = Tree(x)
        BY DEF OldFallback, OwnsAsFallback
      <4> QED BY <4>1, <1>1, TreeFacts
    <3> QED BY <3>1, <2>1, <2>4, <1>1, <1>3, <1>4, <1>7 DEF Owns
  <2> QED BY <2>3, <2>4
<1>15. OwnedIsPrivate'
  <2> SUFFICES ASSUME NEW q \in Live \ D, NEW p \in Live \ D, NEW x \in Object, Owns(q, x)', p # x
               PROVE  /\ obj'[p].fallback = x => p = q /\ OwnsAsFallback(q, x)'
                      /\ obj'[p].security = x => p = q /\ OwnsAsSecurity(q, x)'
    BY <1>4 DEF OwnedIsPrivate
  <2>1. Owns(q, x) /\ x \notin held
    BY <1>1, <1>12 DEF IInv, DestroyedOnce, OneToDestroy
  <2>2. CASE p # o
    BY <2>1, <2>2, <1>6, <1>7 DEF IInv, OwnedIsPrivate
  <2>3. CASE p = o
    BY <2>1, <2>3, <1>1, <1>5, <1>6, <1>7 DEF IInv, OwnedIsPrivate
  <2> QED BY <2>2, <2>3
<1>16. ForgottenIsFree'
  BY <1>1, <1>4, <1>12 DEF IInv, ForgottenIsFree
<1> QED BY <1>9, <1>10, <1>11, <1>13, <1>14, <1>15, <1>16 DEF IInv, DestroyedOnce

\* The fallback is replaced by one that is made from a source.
LEMMA ParseFallbackStep ==
  ASSUME IInv, NEW o \in Object, NEW n \in Object, NEW entries \in SUBSET Entry,
         ParseFallback(o, n, entries)
  PROVE  IInv'
<1> DEFINE D == OldFallback(o)
           r == [obj[o] EXCEPT !.fallback = n, !.ownsFallback = TRUE]
<1>1. /\ o \in held /\ o \in Live /\ Live \subseteq Object /\ obj \in [Live -> Fields]
      /\ held \subseteq Live /\ forgotten \subseteq Live /\ n \in Object \ Live /\ n # o
  BY DEF IInv, OwnersOK, ParseFallback, Fresh
<1>2. Replaced(D, o) /\ obj[o].security \notin D
  BY <1>1, OldFallbackFacts
<1>3. o \notin D /\ n \notin D
  BY <1>1, <1>2 DEF Replaced
<1>4. /\ Live' = (Live \ D) \cup {n}
      /\ obj' = [x \in (Live \ D) \cup {n} |->
                   IF x = n THEN New(entries) ELSE IF x = o THEN r ELSE obj[x]]
      /\ held' = held /\ forgotten' = forgotten /\ exc' = "none"
  BY <1>1, <1>3 DEF ParseFallback, Live, Returns, After, Both
<1>5. /\ r \in Fields /\ r.fallback = n /\ r.ownsFallback = TRUE
      /\ r.security = obj[o].security /\ r.ownsSecurity = obj[o].ownsSecurity
  BY <1>1 DEF Fields
<1>6. /\ obj'[o] = r /\ obj'[n] = New(entries)
      /\ \A x \in Live \ D : x # o => obj'[x] = obj[x]
  BY <1>1, <1>3, <1>4
<1>new. /\ New(entries) \in Fields
        /\ New(entries).fallback = None /\ New(entries).security = Default
        /\ New(entries).ownsFallback = FALSE /\ New(entries).ownsSecurity = FALSE
  BY NewFacts
<1>7. /\ \A p \in Live \ D, x \in Object :
           p # o => /\ Owns(p, x)' <=> Owns(p, x)
                    /\ OwnsAsFallback(p, x)' <=> OwnsAsFallback(p, x)
                    /\ OwnsAsSecurity(p, x)' <=> OwnsAsSecurity(p, x)
      /\ \A x \in Object : /\ OwnsAsFallback(o, x)' <=> x = n
                           /\ OwnsAsSecurity(o, x)' <=> OwnsAsSecurity(o, x)
                           /\ Owns(o, x)' <=> x = n \/ OwnsAsSecurity(o, x)
      /\ \A x \in Object : ~Owns(n, x)'
  BY <1>5, <1>6, <1>new DEF Owns, OwnsAsFallback, OwnsAsSecurity
<1>8. held' \subseteq Live' /\ forgotten' \subseteq Live'
  BY <1>1, <1>2, <1>4 DEF Replaced
<1>9. OwnersOK'
  BY <1>1, <1>4, <1>5, <1>new, <1>8 DEF OwnersOK
<1>10. SomethingToDestroy'
  BY <1>4, <1>5, <1>6, <1>new DEF IInv, DestroyedOnce, SomethingToDestroy
<1>11. NoDanglingPointer'
  BY <1>1, <1>2, <1>3, <1>4, <1>5, <1>6, <1>new DEF IInv, NoDanglingPointer, Replaced
<1>12. \A p \in Live \ D, x \in Object :
         Owns(p, x)' /\ ~(p = o /\ x = n) => Owns(p, x) /\ x \notin D /\ x \in Live \ held
  BY <1>1, <1>2, <1>7 DEF IInv, DestroyedOnce, OneToDestroy, Replaced, Owns, OwnsAsFallback,
    OwnsAsSecurity
<1>13. OneToDestroy'
  <2> SUFFICES ASSUME NEW q \in Live \ D, NEW x \in Object, Owns(q, x)'
               PROVE  /\ x \in Live' \ held
                      /\ ~(OwnsAsFallback(q, x)' /\ OwnsAsSecurity(q, x)')
                      /\ \A p \in Live \ D : Owns(p, x)' => p = q
    BY <1>4, <1>7 DEF OneToDestroy
  <2>1. CASE q = o /\ x = n
    <3>1. \A p \in Live : ~Owns(p, n)
      BY <1>1 DEF IInv, DestroyedOnce, OneToDestroy
    <3> QED BY <2>1, <3>1, <1>1, <1>4, <1>7, <1>12 DEF Owns
  <2>2. CASE ~(q = o /\ x = n)
    <3>1. Owns(q, x) /\ x \notin D /\ x \in Live \ held /\ x # n
      BY <2>2, <1>1, <1>12
    <3> QED BY <2>2, <3>1, <1>1, <1>4, <1>7, <1>12 DEF IInv, DestroyedOnce, OneToDestroy
  <2> QED BY <2>1, <2>2
<1>14. NothingElseIsForgotten'
  <2> SUFFICES ASSUME NEW x \in (Live \ D) \cup {n}, x \notin held \cup forgotten
               PROVE  \E p \in Live' : Owns(p, x)'
    BY <1>4 DEF NothingElseIsForgotten
  <2>1. CASE x = n
    BY <2>1, <1>1, <1>3, <1>4, <1>7
  <2>2. CASE x # n
    <3>1. PICK p \in Live : Owns(p, x)
      BY <2>2 DEF IInv, NothingElseIsForgotten
    <3>2. p \notin D
      BY <3>1, <2>2, <1>1, <1>2 DEF Replaced
    <3>3. CASE p # o
      BY <2>2, <3>1, <3>2, <3>3, <1>1, <1>4, <1>7
    <3>4. CASE p = o
      <4>1. ~OwnsAsFallback(o, x)
        <5> SUFFICES ASSUME OwnsAsFallback(o, x) PROVE FALSE
          OBVIOUS
        <5>1. D = Tree(x)
          BY DEF OldFallback, OwnsAsFallback
        <5> QED BY <5>1, <2>2, <1>1, TreeFacts
      <4> QED BY <4>1, <3>1, <3>4, <2>2, <1>1, <1>3, <1>4, <1>7 DEF Owns
    <3> QED BY <3>3, <3>4
  <2> QED BY <2>1, <2>2
<1>15. OwnedIsPrivate'
  <2>0. \A q \in Live', x \in Object : Owns(q, x)' => q \in Live \ D
    BY <1>4, <1>7
  <2> SUFFICES ASSUME NEW q \in Live \ D, NEW p \in (Live \ D) \cup {n}, NEW x \in Object,
                      Owns(q, x)', p # x
               PROVE  /\ obj'[p].fallback = x => p = q /\ OwnsAsFallback(q, x)'
                      /\ obj'[p].security = x => p = q /\ OwnsAsSecurity(q, x)'
    BY <1>4, <2>0 DEF OwnedIsPrivate
  <2>1. CASE p = n
    BY <2>1, <1>6, <1>new
  <2>2. CASE p # n /\ q = o /\ x = n
    <3>1. obj[p].fallback # n /\ obj[p].security # n
      BY <2>2, <1>1 DEF IInv, NoDanglingPointer
    <3> QED BY <2>2, <3>1, <1>1, <1>5, <1>6, <1>7
  <2>3. CASE p # n /\ ~(q = o /\ x = n)
    <3>1. Owns(q, x) /\ x # n /\ x \in Live \ held
      BY <2>3, <1>1, <1>12
    <3>2. CASE p # o
      BY <2>3, <3>1, <3>2, <1>6, <1>7 DEF IInv, OwnedIsPrivate
    <3>3. CASE p = o
      BY <2>3, <3>1, <3>3, <1>1, <1>5, <1>6, <1>7 DEF IInv, OwnedIsPrivate
    <3> QED BY <3>2, <3>3
  <2> QED BY <2>1, <2>2, <2>3
<1>16. ForgottenIsFree'
  BY <1>1, <1>4, <1>7, <1>12 DEF IInv, ForgottenIsFree
<1> QED BY <1>9, <1>10, <1>11, <1>13, <1>14, <1>15, <1>16 DEF IInv, DestroyedOnce

\* The security configuration is replaced by one that is made from a source.
LEMMA ParseSecurityStep ==
  ASSUME IInv, NEW o \in Object, NEW n \in Object, NEW entries \in SUBSET Entry,
         NEW where \in Entry, ParseSecurity(o, n, entries, where)
  PROVE  IInv'
<1> DEFINE D == OldSecurity(o)
           r == [obj[o] EXCEPT !.security = n, !.scope = where, !.ownsSecurity = TRUE]
<1>1. /\ o \in held /\ o \in Live /\ Live \subseteq Object /\ obj \in [Live -> Fields]
      /\ held \subseteq Live /\ forgotten \subseteq Live /\ n \in Object \ Live /\ n # o
  BY DEF IInv, OwnersOK, ParseSecurity, Fresh
<1>2. Replaced(D, o) /\ obj[o].fallback \notin D
  BY <1>1, OldSecurityFacts
<1>3. o \notin D /\ n \notin D
  BY <1>1, <1>2 DEF Replaced
<1>4. /\ Live' = (Live \ D) \cup {n}
      /\ obj' = [x \in (Live \ D) \cup {n} |->
                   IF x = n THEN New(entries) ELSE IF x = o THEN r ELSE obj[x]]
      /\ held' = held /\ forgotten' = forgotten /\ exc' = "none"
  BY <1>1, <1>3 DEF ParseSecurity, Live, Returns, After, Both
<1>5. /\ r \in Fields /\ r.security = n /\ r.ownsSecurity = TRUE
      /\ r.fallback = obj[o].fallback /\ r.ownsFallback = obj[o].ownsFallback
  BY <1>1 DEF Fields
<1>6. /\ obj'[o] = r /\ obj'[n] = New(entries)
      /\ \A x \in Live \ D : x # o => obj'[x] = obj[x]
  BY <1>1, <1>3, <1>4
<1>new. /\ New(entries) \in Fields
        /\ New(entries).fallback = None /\ New(entries).security = Default
        /\ New(entries).ownsFallback = FALSE /\ New(entries).ownsSecurity = FALSE
  BY NewFacts
<1>7. /\ \A p \in Live \ D, x \in Object :
           p # o => /\ Owns(p, x)' <=> Owns(p, x)
                    /\ OwnsAsFallback(p, x)' <=> OwnsAsFallback(p, x)
                    /\ OwnsAsSecurity(p, x)' <=> OwnsAsSecurity(p, x)
      /\ \A x \in Object : /\ OwnsAsSecurity(o, x)' <=> x = n
                           /\ OwnsAsFallback(o, x)' <=> OwnsAsFallback(o, x)
                           /\ Owns(o, x)' <=> x = n \/ OwnsAsFallback(o, x)
      /\ \A x \in Object : ~Owns(n, x)'
  BY <1>5, <1>6, <1>new DEF Owns, OwnsAsFallback, OwnsAsSecurity
<1>8. held' \subseteq Live' /\ forgotten' \subseteq Live'
  BY <1>1, <1>2, <1>4 DEF Replaced
<1>9. OwnersOK'
  BY <1>1, <1>4, <1>5, <1>new, <1>8 DEF OwnersOK
<1>10. SomethingToDestroy'
  BY <1>4, <1>5, <1>6, <1>new DEF IInv, DestroyedOnce, SomethingToDestroy
<1>11. NoDanglingPointer'
  BY <1>1, <1>2, <1>3, <1>4, <1>5, <1>6, <1>new DEF IInv, NoDanglingPointer, Replaced
<1>12. \A p \in Live \ D, x \in Object :
         Owns(p, x)' /\ ~(p = o /\ x = n) => Owns(p, x) /\ x \notin D /\ x \in Live \ held
  BY <1>1, <1>2, <1>7 DEF IInv, DestroyedOnce, OneToDestroy, Replaced, Owns, OwnsAsFallback,
    OwnsAsSecurity
<1>13. OneToDestroy'
  <2> SUFFICES ASSUME NEW q \in Live \ D, NEW x \in Object, Owns(q, x)'
               PROVE  /\ x \in Live' \ held
                      /\ ~(OwnsAsFallback(q, x)' /\ OwnsAsSecurity(q, x)')
                      /\ \A p \in Live \ D : Owns(p, x)' => p = q
    BY <1>4, <1>7 DEF OneToDestroy
  <2>1. CASE q = o /\ x = n
    <3>1. \A p \in Live : ~Owns(p, n)
      BY <1>1 DEF IInv, DestroyedOnce, OneToDestroy
    <3> QED BY <2>1, <3>1, <1>1, <1>4, <1>7, <1>12 DEF Owns
  <2>2. CASE ~(q = o /\ x = n)
    <3>1. Owns(q, x) /\ x \notin D /\ x \in Live \ held /\ x # n
      BY <2>2, <1>1, <1>12
    <3> QED BY <2>2, <3>1, <1>1, <1>4, <1>7, <1>12 DEF IInv, DestroyedOnce, OneToDestroy
  <2> QED BY <2>1, <2>2
<1>14. NothingElseIsForgotten'
  <2> SUFFICES ASSUME NEW x \in (Live \ D) \cup {n}, x \notin held \cup forgotten
               PROVE  \E p \in Live' : Owns(p, x)'
    BY <1>4 DEF NothingElseIsForgotten
  <2>1. CASE x = n
    BY <2>1, <1>1, <1>3, <1>4, <1>7
  <2>2. CASE x # n
    <3>1. PICK p \in Live : Owns(p, x)
      BY <2>2 DEF IInv, NothingElseIsForgotten
    <3>2. p \notin D
      BY <3>1, <2>2, <1>1, <1>2 DEF Replaced
    <3>3. CASE p # o
      BY <2>2, <3>1, <3>2, <3>3, <1>1, <1>4, <1>7
    <3>4. CASE p = o
      <4>1. ~OwnsAsSecurity(o, x)
        <5> SUFFICES ASSUME OwnsAsSecurity(o, x) PROVE FALSE
          OBVIOUS
        <5>1. D = Tree(x)
          BY DEF OldSecurity, OwnsAsSecurity
        <5> QED BY <5>1, <2>2, <1>1, TreeFacts
      <4> QED BY <4>1, <3>1, <3>4, <2>2, <1>1, <1>3, <1>4, <1>7 DEF Owns
    <3> QED BY <3>3, <3>4
  <2> QED BY <2>1, <2>2
<1>15. OwnedIsPrivate'
  <2>0. \A q \in Live', x \in Object : Owns(q, x)' => q \in Live \ D
    BY <1>4, <1>7
  <2> SUFFICES ASSUME NEW q \in Live \ D, NEW p \in (Live \ D) \cup {n}, NEW x \in Object,
                      Owns(q, x)', p # x
               PROVE  /\ obj'[p].fallback = x => p = q /\ OwnsAsFallback(q, x)'
                      /\ obj'[p].security = x => p = q /\ OwnsAsSecurity(q, x)'
    BY <1>4, <2>0 DEF OwnedIsPrivate
  <2>1. CASE p = n
    BY <2>1, <1>6, <1>new
  <2>2. CASE p # n /\ q = o /\ x = n
    <3>1. obj[p].fallback # n /\ obj[p].security # n
      BY <2>2, <1>1 DEF IInv, NoDanglingPointer
    <3> QED BY <2>2, <3>1, <1>1, <1>5, <1>6, <1>7
  <2>3. CASE p # n /\ ~(q = o /\ x = n)
    <3>1. Owns(q, x) /\ x # n /\ x \in Live \ held
      BY <2>3, <1>1, <1>12
    <3>2. CASE p # o
      BY <2>3, <3>1, <3>2, <1>6, <1>7 DEF IInv, OwnedIsPrivate
    <3>3. CASE p = o
      BY <2>3, <3>1, <3>3, <1>1, <1>5, <1>6, <1>7 DEF IInv, OwnedIsPrivate
    <3> QED BY <3>2, <3>3
  <2> QED BY <2>1, <2>2, <2>3
<1>16. ForgottenIsFree'
  BY <1>1, <1>4, <1>7, <1>12 DEF IInv, ForgottenIsFree
<1> QED BY <1>9, <1>10, <1>11, <1>13, <1>14, <1>15, <1>16 DEF IInv, DestroyedOnce

\* The security configuration is replaced by an object of the program, which may
\* give it away; one that was owned is forgotten.
LEMMA SetSecurityStep ==
  ASSUME IInv, NEW o \in Object, NEW s \in Object, NEW take \in BOOLEAN, NEW where \in Entry,
         SetSecurity(o, s, take, where)
  PROVE  IInv'
<1> DEFINE r == [obj[o] EXCEPT !.security = s, !.scope = where, !.ownsSecurity = take]
           old == obj[o].security
<1>1. /\ o \in held /\ s \in held /\ o \in Live /\ s \in Live /\ Live \subseteq Object
      /\ obj \in [Live -> Fields] /\ held \subseteq Live /\ forgotten \subseteq Live
  BY DEF IInv, OwnersOK, SetSecurity
<1>2. /\ Live' = Live /\ obj' = [x \in Live |-> IF x = o THEN r ELSE obj[x]]
      /\ held' = (IF take THEN held \ {s} ELSE held) /\ exc' = "none"
      /\ forgotten' = (IF obj[o].ownsSecurity THEN forgotten \cup {old} ELSE forgotten)
  BY <1>1 DEF SetSecurity, Live
<1>3. /\ r \in Fields /\ r.security = s /\ r.ownsSecurity = take
      /\ r.fallback = obj[o].fallback /\ r.ownsFallback = obj[o].ownsFallback
  <2> DEFINE with(t) == [obj[o] EXCEPT !.security = s, !.scope = where, !.ownsSecurity = t]
             Right(t) == /\ with(t) \in Fields /\ with(t).security = s /\ with(t).ownsSecurity = t
                         /\ with(t).fallback = obj[o].fallback
                         /\ with(t).ownsFallback = obj[o].ownsFallback
  <2>1. obj[o] \in Fields
    BY <1>1
  <2>2. Right(TRUE)
    BY <2>1 DEF Fields
  <2>3. Right(FALSE)
    BY <2>1 DEF Fields
  <2> HIDE DEF with
  <2>4. take = TRUE \/ take = FALSE
    OBVIOUS
  <2>5. Right(take)
    BY <2>2, <2>3, <2>4, Zenon
  <2> QED BY <2>5, Zenon DEF with
<1>4. /\ obj'[o] = r
      /\ \A x \in Live : x # o => obj'[x] = obj[x]
  BY <1>1, <1>2
<1>5. /\ \A p \in Live, x \in Object :
           p # o => /\ Owns(p, x)' <=> Owns(p, x)
                    /\ OwnsAsFallback(p, x)' <=> OwnsAsFallback(p, x)
                    /\ OwnsAsSecurity(p, x)' <=> OwnsAsSecurity(p, x)
      /\ \A x \in Object : /\ OwnsAsSecurity(o, x)' <=> take /\ x = s
                           /\ OwnsAsFallback(o, x)' <=> OwnsAsFallback(o, x)
                           /\ Owns(o, x)' <=> (take /\ x = s) \/ OwnsAsFallback(o, x)
  BY <1>3, <1>4 DEF Owns, OwnsAsFallback, OwnsAsSecurity
<1>6. \A p \in Live : ~Owns(p, s)
  BY <1>1 DEF IInv, DestroyedOnce, OneToDestroy
<1>7. \A p \in Live, x \in Object : Owns(p, x)' /\ x # s => Owns(p, x)
  BY <1>5 DEF Owns
<1>8. \A p \in Live : Owns(p, s)' => p = o /\ take
  BY <1>1, <1>5, <1>6 DEF Owns
<1>9. ASSUME obj[o].ownsSecurity
      PROVE  old \in Live \ held /\ old # s /\ Owns(o, old) /\ OwnsAsSecurity(o, old)
  <2>1. OwnsAsSecurity(o, old)
    BY <1>9 DEF OwnsAsSecurity
  <2>2. Owns(o, old)
    BY <2>1 DEF Owns
  <2>3. old \in Object
    <3>1. \A p \in Live : obj[p].ownsSecurity => obj[p].security \in Object
      BY DEF IInv, DestroyedOnce, SomethingToDestroy
    <3> QED BY <3>1, <1>1, <1>9
  <2> QED BY <2>1, <2>2, <2>3, <1>1 DEF IInv, DestroyedOnce, OneToDestroy
<1>10. held' \subseteq Live' /\ forgotten' \subseteq Live' /\ held' \subseteq held
  BY <1>1, <1>2, <1>9
<1>11. OwnersOK'
  BY <1>1, <1>2, <1>3, <1>10 DEF OwnersOK
<1>12. SomethingToDestroy'
  BY <1>1, <1>2, <1>3, <1>4 DEF IInv, DestroyedOnce, SomethingToDestroy
<1>13. NoDanglingPointer'
  BY <1>1, <1>2, <1>3, <1>4 DEF IInv, NoDanglingPointer
<1>14. OneToDestroy'
  <2> SUFFICES ASSUME NEW q \in Live, NEW x \in Object, Owns(q, x)'
               PROVE  /\ x \in Live \ held'
                      /\ ~(OwnsAsFallback(q, x)' /\ OwnsAsSecurity(q, x)')
                      /\ \A p \in Live : Owns(p, x)' => p = q
    BY <1>2 DEF OneToDestroy
  <2>1. CASE x = s
    BY <2>1, <1>1, <1>2, <1>5, <1>6, <1>8 DEF Owns
  <2>2. CASE x # s
    BY <2>2, <1>5, <1>7, <1>10 DEF IInv, DestroyedOnce, OneToDestroy
  <2> QED BY <2>1, <2>2
<1>15. NothingElseIsForgotten'
  <2> SUFFICES ASSUME NEW x \in Live, x \notin held' \cup forgotten'
               PROVE  \E p \in Live : Owns(p, x)'
    BY <1>2 DEF NothingElseIsForgotten
  <2>1. CASE x = s
    <3>1. take
      BY <2>1, <1>1, <1>2
    <3> QED BY <2>1, <3>1, <1>1, <1>5
  <2>2. CASE x # s
    <3>1. x \notin held \cup forgotten
      BY <2>2, <1>2
    <3>2. PICK p \in Live : Owns(p, x)
      BY <3>1 DEF IInv, NothingElseIsForgotten
    <3>3. CASE p # o
      BY <3>2, <3>3, <1>1, <1>5
    <3>4. CASE p = o
      <4>1. ~OwnsAsSecurity(o, x)
        <5> SUFFICES ASSUME OwnsAsSecurity(o, x) PROVE FALSE
          OBVIOUS
        <5>1. obj[o].ownsSecurity /\ old = x
          BY DEF OwnsAsSecurity
        <5> QED BY <5>1, <1>2
      <4> QED BY <4>1, <3>2, <3>4, <1>1, <1>5 DEF Owns
    <3> QED BY <3>3, <3>4
  <2> QED BY <2>1, <2>2
<1>16. OwnedIsPrivate'
  <2> SUFFICES ASSUME NEW q \in Live, NEW p \in Live, NEW x \in Object, Owns(q, x)', p # x
               PROVE  /\ obj'[p].fallback = x => p = q /\ OwnsAsFallback(q, x)'
                      /\ obj'[p].security = x => p = q /\ OwnsAsSecurity(q, x)'
    BY <1>2 DEF OwnedIsPrivate
  <2>1. CASE x = s
    <3>1. q = o /\ take /\ OwnsAsSecurity(o, s)'
      BY <2>1, <1>1, <1>5, <1>8
    <3>2. obj[p].fallback # s /\ (obj[p].security = s => p = o)
      BY <2>1, <3>1 DEF SetSecurity, MayGive
    <3> QED BY <2>1, <3>1, <3>2, <1>3, <1>4
  <2>2. CASE x # s
    <3>1. Owns(q, x)
      BY <2>2, <1>7
    <3>2. CASE p # o
      BY <2>2, <3>1, <3>2, <1>4, <1>5 DEF IInv, OwnedIsPrivate
    <3>3. CASE p = o
      BY <2>2, <3>1, <3>3, <1>1, <1>3, <1>4, <1>5 DEF IInv, OwnedIsPrivate
    <3> QED BY <3>2, <3>3
  <2> QED BY <2>1, <2>2
<1>17. ForgottenIsFree'
  <2> SUFFICES ASSUME NEW x \in forgotten'
               PROVE  x \notin held' /\ \A p \in Live : ~Owns(p, x)'
    BY <1>2 DEF ForgottenIsFree
  <2>1. CASE x \in forgotten
    <3>1. x \in Object /\ x \notin held /\ \A p \in Live : ~Owns(p, x)
      BY <2>1, <1>1 DEF IInv, ForgottenIsFree
    <3> QED BY <3>1, <1>1, <1>7, <1>10
  <2>2. CASE x \notin forgotten
    <3>1. obj[o].ownsSecurity /\ x = old
      BY <2>2, <1>2
    <3>2. x \in Live \ held /\ x # s /\ Owns(o, x) /\ OwnsAsSecurity(o, x)
      BY <3>1, <1>9
    <3>3. \A p \in Live : p # o => ~Owns(p, x)
      BY <3>2, <1>1 DEF IInv, DestroyedOnce, OneToDestroy
    <3>4. ~OwnsAsFallback(o, x)
      BY <3>2, <1>1 DEF IInv, DestroyedOnce, OneToDestroy
    <3> QED BY <3>2, <3>3, <3>4, <1>1, <1>5, <1>10
  <2> QED BY <2>1, <2>2
<1> QED BY <1>11, <1>12, <1>13, <1>14, <1>15, <1>16, <1>17 DEF IInv, DestroyedOnce

----------------------------------------------------------------------------
(* Chains of fallbacks. *)

\* The chains as a function, and what is said of them.
ChainOf == [s \in Object |-> Chain(s)]

\* A chain begins with its first object, has the fallback of every object in it,
\* and whatever else is in it is the fallback of an object in it.
ChainOK(s) ==
  /\ s \in ChainOf[s] /\ ChainOf[s] \subseteq Object
  /\ \A p \in ChainOf[s] \cap Live : obj[p].fallback \in Object => obj[p].fallback \in ChainOf[s]
  /\ \A y \in ChainOf[s] \ {s} : \E p \in ChainOf[s] \cap Live : obj[p].fallback = y
  /\ \A S \in SUBSET Object : s \in S /\ ClosedUnderFallback(S) => ChainOf[s] \subseteq S
  /\ \A w \in Entry :
       Find(s, w) <=> w \in obj[s].holds \/ \E p \in ChainOf[s] \ {s} : "bare" \in obj[p].holds
  /\ OwnFallbacksOnly(s) <=>
       \A p \in ChainOf[s] : obj[p].fallback \in Object => obj[p].ownsFallback

LEMMA ChainFacts == \A s \in Object : ChainOK(s)
<1> SUFFICES ASSUME NEW s \in Object PROVE ChainOK(s)
  OBVIOUS
<1> DEFINE C == Chain(s)
           S == {s} \cup {y \in C : \E p \in C \cap Live : obj[p].fallback = y}
<1>1. s \in C /\ C \subseteq Object
  BY DEF Chain
<1>2. \A p \in C \cap Live : obj[p].fallback \in Object => obj[p].fallback \in C
  BY DEF Chain, ClosedUnderFallback
<1>3. ClosedUnderFallback(S)
  <2> SUFFICES ASSUME NEW p \in S \cap Live, obj[p].fallback \in Object
               PROVE  obj[p].fallback \in S
    BY DEF ClosedUnderFallback
  <2>1. p \in C \cap Live
    BY <1>1
  <2> QED BY <2>1, <1>2
<1>4. S \in SUBSET Object /\ s \in S
  BY <1>1
<1>5. C \subseteq S
  BY <1>3, <1>4 DEF Chain
<1>6. \A T \in SUBSET Object : s \in T /\ ClosedUnderFallback(T) => C \subseteq T
  BY DEF Chain
<1>7. ChainOf[s] = C
  BY DEF ChainOf
<1> HIDE DEF C
<1> QED BY <1>1, <1>2, <1>5, <1>6, <1>7 DEF ChainOK, Find, OwnFallbacksOnly, C

\* The same of the next state.
LEMMA ChainFactsNext == \A s \in Object : ChainOK(s)'
<1>1. (\A s \in Object : ChainOK(s))'
  BY ChainFacts, PTL
<1> QED BY <1>1
\* The chain of an object that exists leads to objects that exist.
LEMMA ChainIsLive ==
  ASSUME IInv, NEW s \in Live
  PROVE  s \in Object /\ \A p \in ChainOf[s] : p \in Live
<1>1. s \in Object /\ Live \subseteq Object
  BY DEF IInv, OwnersOK
<1>2. /\ \A y \in ChainOf[s] \ {s} : \E p \in ChainOf[s] \cap Live : obj[p].fallback = y
      /\ ChainOf[s] \subseteq Object
  BY <1>1, ChainFacts DEF ChainOK
<1>3. \A p \in Live : obj[p].fallback \in Live \cup {None}
  BY DEF IInv, NoDanglingPointer
<1> QED BY <1>1, <1>2, <1>3

\* The same fallbacks, the same chains.
LEMMA SameChains ==
  ASSUME Live \subseteq Object, Live' = Live, \A x \in Live : obj'[x].fallback = obj[x].fallback
  PROVE  ChainOf' = ChainOf
<1>1. \A S \in SUBSET Object : ClosedUnderFallback(S)' <=> ClosedUnderFallback(S)
  BY DEF ClosedUnderFallback
<1> QED BY <1>1 DEF Chain, ChainOf

\* What every operation leaves as it was: objects that nobody holds and that exist
\* before and after.
Untouched ==
  \A x \in Live \cap Live' :
    x \notin held' => /\ obj'[x].fallback = obj[x].fallback
                      /\ obj'[x].ownsFallback = obj[x].ownsFallback
                      /\ obj'[x].holds = obj[x].holds

\* Where new objects go: to the program, to nobody, or to an object the program holds.
NewOnesKnown ==
  \A x \in Live' \ Live :
    \/ x \in held' \cup forgotten'
    \/ \E o \in held' : Owns(o, x)'

\* A security configuration is owned since before, or its lists were just found.
SecuritiesKept ==
  \A q \in Live' :
    obj'[q].ownsSecurity =>
      \/ /\ q \in Live /\ obj[q].ownsSecurity
         /\ obj'[q].security = obj[q].security /\ obj'[q].scope = obj[q].scope
      \/ Find(obj[q].security, obj[q].scope)'

\* Nobody holds an owned security configuration or what it asks, so nobody can
\* empty them: what they answered they answer.
LEMMA AnswersKept ==
  ASSUME IInv, IInv', OwnedSecurityAnswers, Untouched, NewOnesKnown, SecuritiesKept
  PROVE  OwnedSecurityAnswers'
<1> SUFFICES ASSUME NEW q \in Live', obj'[q].ownsSecurity, NEW s, s = obj'[q].security,
                    NEW w \in Entry, w = obj'[q].scope, OwnFallbacksOnly(s)'
             PROVE  Find(s, w)'
  BY DEF OwnedSecurityAnswers, IInv, OwnersOK, Fields
<1>1. CASE Find(obj[q].security, obj[q].scope)'
  BY <1>1
<1>2. CASE /\ q \in Live /\ obj[q].ownsSecurity
           /\ s = obj[q].security /\ w = obj[q].scope
  <2>1. Live \subseteq Object /\ Live' \subseteq Object /\ held' \subseteq Live'
    BY DEF IInv, OwnersOK
  <2>2. /\ s \in Object /\ Owns(q, s)' /\ OwnsAsSecurity(q, s)'
        /\ s \in Live' /\ s \notin held'
    <3>1. \A p \in Live' : obj'[p].ownsSecurity => obj'[p].security \in Object
      BY DEF IInv, DestroyedOnce, SomethingToDestroy
    <3>2. s \in Object
      BY <3>1
    <3>3. OwnsAsSecurity(q, s)' /\ Owns(q, s)'
      BY DEF Owns, OwnsAsSecurity
    <3> QED BY <3>2, <3>3 DEF IInv, DestroyedOnce, OneToDestroy
  <2>3. s \in Live
    <3>1. \A p \in Live : obj[p].ownsSecurity => obj[p].security \in Object
      BY DEF IInv, DestroyedOnce, SomethingToDestroy
    <3>2. \A p \in Live : obj[p].security \in Live \cup {Default}
      BY DEF IInv, NoDanglingPointer
    <3> QED BY <3>1, <3>2, <1>2
  <2> DEFINE C == ChainOf'[s]
             B == ChainOf[s]
  <2>4. /\ s \in C /\ C \subseteq Object
        /\ \A p \in C \cap Live' : obj'[p].fallback \in Object => obj'[p].fallback \in C
        /\ \A y \in C \ {s} : \E p \in C \cap Live' : obj'[p].fallback = y
    BY <2>2, ChainFactsNext DEF ChainOK
  <2>5. /\ s \in B /\ B \subseteq Object
        /\ \A p \in B \cap Live : obj[p].fallback \in Object => obj[p].fallback \in B
        /\ \A y \in B \ {s} : \E p \in B \cap Live : obj[p].fallback = y
    BY <2>2, ChainFacts DEF ChainOK
  <2>6. \A y \in C \ {s} : \E p \in C \cap Live' : OwnsAsFallback(p, y)'
    <3>1. \A p \in C : obj'[p].fallback \in Object => obj'[p].ownsFallback
      BY <2>2, ChainFactsNext DEF ChainOK
    <3> QED BY <2>4, <3>1 DEF OwnsAsFallback
  <2>7. \A y \in C : y \in Live' /\ y \notin held' /\ y \notin forgotten'
    <3> SUFFICES ASSUME NEW y \in C PROVE y \in Live' /\ y \notin held' /\ y \notin forgotten'
      OBVIOUS
    <3>1. PICK p \in Live' : Owns(p, y)'
      BY <2>2, <2>6 DEF Owns
    <3>2. y \in Object
      BY <2>4
    <3> QED BY <3>1, <3>2 DEF IInv, DestroyedOnce, OneToDestroy, ForgottenIsFree
  <2>8. \A y \in C : y \in Live
    <3> SUFFICES ASSUME NEW y \in C, y \notin Live PROVE FALSE
      OBVIOUS
    <3>1. PICK o \in held' : Owns(o, y)'
      BY <2>7 DEF NewOnesKnown
    <3>2. y # s /\ y \in Object /\ o \in Live'
      BY <2>1, <2>3, <2>4
    <3>3. PICK p \in C \cap Live' : OwnsAsFallback(p, y)'
      BY <3>2, <2>6
    <3>4. Owns(p, y)'
      BY <3>3 DEF Owns
    <3>5. p = o
      BY <3>1, <3>2, <3>4 DEF IInv, DestroyedOnce, OneToDestroy
    <3> QED BY <3>5, <2>7
  <2>9. \A y \in C : /\ obj'[y].fallback = obj[y].fallback
                     /\ obj'[y].ownsFallback = obj[y].ownsFallback
                     /\ obj'[y].holds = obj[y].holds
    BY <2>7, <2>8 DEF Untouched
  <2>10. B \subseteq C
    <3>1. ClosedUnderFallback(C)
      BY <2>4, <2>7, <2>9 DEF ClosedUnderFallback
    <3>2. \A S \in SUBSET Object : s \in S /\ ClosedUnderFallback(S) => B \subseteq S
      BY <2>2, ChainFacts DEF ChainOK
    <3> HIDE DEF C, B
    <3> QED BY <3>1, <3>2, <2>4
  <2>11. C \subseteq B
    <3> DEFINE T == B \cap C
    <3>1. \A p \in T \cap Live' : obj'[p].fallback \in Object => obj'[p].fallback \in T
      BY <2>4, <2>5, <2>8, <2>9
    <3>2. \A S \in SUBSET Object :
            /\ s \in S
            /\ \A p \in S \cap Live' : obj'[p].fallback \in Object => obj'[p].fallback \in S
            => C \subseteq S
      BY <2>2, ChainFactsNext DEF ChainOK, ClosedUnderFallback
    <3>3. T \in SUBSET Object /\ s \in T
      BY <2>4, <2>5
    <3> HIDE DEF C, T
    <3>4. C \subseteq T
      BY <3>1, <3>2, <3>3
    <3> QED BY <3>4 DEF T
  <2>12. OwnFallbacksOnly(s)
    <3>1. \A p \in C : obj'[p].fallback \in Object => obj'[p].ownsFallback
      BY <2>2, ChainFactsNext DEF ChainOK
    <3>2. \A p \in B : obj[p].fallback \in Object => obj[p].ownsFallback
      BY <2>9, <2>10, <3>1
    <3> QED BY <2>2, <3>2, ChainFacts DEF ChainOK
  <2>13. Find(s, w)
    BY <2>12, <1>2 DEF OwnedSecurityAnswers
  <2>14. w \in obj[s].holds \/ \E p \in B \ {s} : "bare" \in obj[p].holds
    BY <2>2, <2>13, ChainFacts DEF ChainOK
  <2>15. w \in obj'[s].holds \/ \E p \in C \ {s} : "bare" \in obj'[p].holds
    BY <2>4, <2>9, <2>10, <2>14
  <2> QED BY <2>2, <2>15, ChainFactsNext DEF ChainOK
<1> QED BY <1>1, <1>2 DEF SecuritiesKept

----------------------------------------------------------------------------
(* Together. *)

LEMMA IInvStep == IInv /\ [Next]_vars => IInv'
<1> SUFFICES ASSUME IInv, [Next]_vars PROVE IInv'
  OBVIOUS
<1>1. ASSUME NEW o \in Object, Create(o) PROVE IInv'
  BY <1>1, NewObject DEF Create, Returns
<1>2. ASSUME NEW o \in Object, NEW entries \in SUBSET Entry, Parse(o, entries) PROVE IInv'
  <2>1. obj[o].holds \cup entries \in SUBSET Entry
    BY <1>2 DEF Parse, IInv, OwnersOK, Fields
  <2> QED BY <1>2, <2>1, OtherLists DEF Parse
<1>3. ASSUME NEW o \in Object, Empty(o) PROVE IInv'
  <2>1. {} \in SUBSET Entry /\ o \in held
    BY <1>3 DEF Empty
  <2>2. obj' = [obj EXCEPT ![o].holds = {}] /\ UNCHANGED <<held, forgotten>> /\ exc' = "none"
    BY <1>3 DEF Empty, Returns
  <2> QED BY <2>1, <2>2, OtherLists
<1>4. ASSUME exc' \in {"none", "config", "foreign"}, UNCHANGED <<obj, held, forgotten>> PROVE IInv'
  <2>1. OwnersOK'
    BY <1>4 DEF IInv, OwnersOK, Live
  <2>2. DestroyedOnce'
    BY <1>4 DEF IInv, DestroyedOnce, SomethingToDestroy, OneToDestroy, Live, Owns,
      OwnsAsFallback, OwnsAsSecurity
  <2>3. NoDanglingPointer' /\ NothingElseIsForgotten'
    BY <1>4 DEF IInv, NoDanglingPointer, NothingElseIsForgotten, Live, Owns,
      OwnsAsFallback, OwnsAsSecurity
  <2>4. OwnedIsPrivate' /\ ForgottenIsFree'
    BY <1>4 DEF IInv, OwnedIsPrivate, ForgottenIsFree, Live, Owns, OwnsAsFallback, OwnsAsSecurity
  <2> QED BY <2>1, <2>2, <2>3, <2>4 DEF IInv
<1>5. ASSUME NEW o \in Object, NEW n \in Object, ParseFails(o, n) PROVE IInv'
  <2>1. CASE exc' = "config" /\ UNCHANGED <<obj, forgotten>>
    BY <1>5, <1>4, <2>1 DEF ParseFails
  <2>2. CASE /\ exc' = "foreign" /\ obj' = After({}, Only(n, New({})))
             /\ forgotten' = forgotten \cup {n}
    BY <1>5, <2>2, NewObject DEF ParseFails
  <2> QED BY <1>5, <2>1, <2>2 DEF ParseFails
<1>6. ASSUME NEW o \in Object, NEW s \in Object, NEW where \in Entry, SetSecurityFails(o, s, where)
      PROVE  IInv'
  BY <1>4, <1>6 DEF SetSecurityFails
<1>7. ASSUME NEW o \in Object, ExecFails(o) PROVE IInv'
  BY <1>4, <1>7 DEF ExecFails
<1>8. CASE UNCHANGED vars
  <2>1. exc' \in {"none", "config", "foreign"}
    BY <1>8 DEF vars, IInv, OwnersOK
  <2> QED BY <1>4, <1>8, <2>1 DEF vars
<1> QED
  BY <1>1, <1>2, <1>3, <1>5, <1>6, <1>7, <1>8, DestroyStep, SetFallbackStep, ParseFallbackStep,
     ParseSecurityStep, SetSecurityStep DEF Next

\* Whatever the operation, nobody changes what nobody holds, a new object has a
\* place, and the lists were looked up.
LEMMA StepKeepsAnswers ==
  ASSUME IInv, IInv', Next
  PROVE  Untouched /\ NewOnesKnown /\ SecuritiesKept
<1> DEFINE Goal == Untouched /\ NewOnesKnown /\ SecuritiesKept
<1>0. /\ Live \subseteq Object /\ obj \in [Live -> Fields] /\ held \subseteq Live
      /\ Live' \subseteq Object /\ held' \subseteq Live'
  BY DEF IInv, OwnersOK
<1>1. ASSUME UNCHANGED obj PROVE Goal
  BY <1>1 DEF Live, Untouched, NewOnesKnown, SecuritiesKept
<1>2. ASSUME NEW n \in Fresh, obj' = After({}, Only(n, New({}))), n \in held' \cup forgotten'
      PROVE  Goal
  <2>1. /\ Live' = Live \cup {n} /\ n \notin Live
        /\ \A x \in Live : obj'[x] = obj[x]
        /\ obj'[n].ownsSecurity = FALSE
    BY <1>2, NewFacts DEF Live, Fresh, After, Only
  <2> QED BY <1>2, <2>1 DEF Untouched, NewOnesKnown, SecuritiesKept
<1>3. ASSUME NEW o \in held, o \in held', NEW entries \in SUBSET Entry,
             obj' = [obj EXCEPT ![o].holds = entries]
      PROVE  Goal
  <2>1. /\ Live' = Live
        /\ \A x \in Live : x # o => obj'[x] = obj[x]
        /\ o \in Live /\ obj[o] \in Fields /\ obj'[o] = [obj[o] EXCEPT !.holds = entries]
    BY <1>0, <1>3 DEF Live
  <2>2. /\ obj'[o].ownsSecurity = obj[o].ownsSecurity /\ obj'[o].security = obj[o].security
        /\ obj'[o].scope = obj[o].scope
    BY <2>1 DEF Fields
  <2> QED BY <1>3, <2>1, <2>2 DEF Untouched, NewOnesKnown, SecuritiesKept
<1>4. ASSUME NEW o \in Object, Destroy(o) PROVE Goal
  <2>1. Live' \subseteq Live /\ \A x \in Live' : obj'[x] = obj[x]
    BY <1>4 DEF Destroy, Live
  <2> QED BY <2>1 DEF Untouched, NewOnesKnown, SecuritiesKept
<1>5. ASSUME NEW o \in Object, NEW f \in Object \cup {None}, SetFallback(o, f) PROVE Goal
  <2> DEFINE r == [obj[o] EXCEPT !.fallback = f, !.ownsFallback = FALSE]
  <2>1. o \in held /\ held' = held /\ o \in Live /\ obj[o] \in Fields
    BY <1>0, <1>5 DEF SetFallback
  <2>2. Live' \subseteq Live /\ obj'[o] = r /\ \A x \in Live' : x # o => obj'[x] = obj[x]
    BY <1>5, <2>1 DEF SetFallback, Live, After, Only
  <2>3. /\ r.ownsSecurity = obj[o].ownsSecurity /\ r.security = obj[o].security
        /\ r.scope = obj[o].scope
    BY <2>1 DEF Fields
  <2> QED BY <2>1, <2>2, <2>3 DEF Untouched, NewOnesKnown, SecuritiesKept
<1>6. ASSUME NEW o \in Object, NEW n \in Object, NEW entries \in SUBSET Entry,
             ParseFallback(o, n, entries)
      PROVE  Goal
  <2> DEFINE r == [obj[o] EXCEPT !.fallback = n, !.ownsFallback = TRUE]
  <2>1. o \in held /\ held' = held /\ o \in Live /\ obj[o] \in Fields /\ n \in Fresh /\ n # o
    BY <1>0, <1>6 DEF ParseFallback, Fresh
  <2>2. /\ Live' \subseteq Live \cup {n} /\ obj'[o] = r /\ obj'[n] = New(entries)
        /\ \A x \in Live' : x # o /\ x # n => obj'[x] = obj[x]
    BY <1>6, <2>1 DEF ParseFallback, Live, After, Both
  <2>3. /\ r.ownsSecurity = obj[o].ownsSecurity /\ r.security = obj[o].security
        /\ r.scope = obj[o].scope /\ r.fallback = n /\ r.ownsFallback = TRUE
    BY <2>1 DEF Fields
  <2>4. New(entries).ownsSecurity = FALSE
    BY NewFacts
  <2>5. Owns(o, n)'
    BY <2>2, <2>3 DEF Owns, OwnsAsFallback
  <2>6. Untouched
    BY <2>1, <2>2 DEF Untouched, Fresh
  <2>7. NewOnesKnown
    BY <2>1, <2>2, <2>5 DEF NewOnesKnown
  <2>8. SecuritiesKept
    BY <2>1, <2>2, <2>3, <2>4 DEF SecuritiesKept
  <2> QED BY <2>6, <2>7, <2>8
<1>7. ASSUME NEW o \in Object, NEW n \in Object, NEW entries \in SUBSET Entry, NEW where \in Entry,
             ParseSecurity(o, n, entries, where)
      PROVE  Goal
  <2> DEFINE r == [obj[o] EXCEPT !.security = n, !.scope = where, !.ownsSecurity = TRUE]
  <2>1. /\ o \in held /\ held' = held /\ o \in Live /\ obj[o] \in Fields /\ n \in Fresh /\ n # o
        /\ where \in entries
    BY <1>0, <1>7 DEF ParseSecurity, Fresh
  <2>2. /\ Live' \subseteq Live \cup {n} /\ obj'[o] = r /\ obj'[n] = New(entries)
        /\ \A x \in Live' : x # o /\ x # n => obj'[x] = obj[x]
    BY <1>7, <2>1 DEF ParseSecurity, Live, After, Both
  <2>3. r.ownsSecurity = TRUE /\ r.security = n /\ r.scope = where
    BY <2>1 DEF Fields
  <2>4. New(entries).ownsSecurity = FALSE /\ New(entries).holds = entries
    BY NewFacts
  <2>5. Owns(o, n)'
    BY <2>2, <2>3 DEF Owns, OwnsAsSecurity
  <2>6. Find(n, where)'
    <3>1. where \in obj'[n].holds
      BY <2>1, <2>2, <2>4
    <3> QED BY <3>1, <2>1, ChainFactsNext DEF ChainOK
  <2>7. Untouched
    BY <2>1, <2>2 DEF Untouched, Fresh
  <2>8. NewOnesKnown
    BY <2>1, <2>2, <2>5 DEF NewOnesKnown
  <2>9. SecuritiesKept
    <3> SUFFICES ASSUME NEW q \in Live', obj'[q].ownsSecurity,
                        NEW s, s = obj'[q].security, NEW w, w = obj'[q].scope
                 PROVE  \/ /\ q \in Live /\ obj[q].ownsSecurity
                           /\ s = obj[q].security /\ w = obj[q].scope
                        \/ Find(s, w)'
      BY DEF SecuritiesKept
    <3>1. q = o \/ (q # o /\ q # n)
      BY <2>2, <2>4
    <3> QED BY <3>1, <2>1, <2>2, <2>3, <2>6
  <2> QED BY <2>7, <2>8, <2>9
<1>8. ASSUME NEW o \in Object, NEW s \in Object, NEW take \in BOOLEAN, NEW where \in Entry,
             SetSecurity(o, s, take, where)
      PROVE  Goal
  <2>1. o \in held /\ o \in Live /\ obj[o] \in Fields /\ Find(s, where)
    BY <1>0, <1>8 DEF SetSecurity
  <2>2. /\ Live' = Live /\ \A x \in Live : x # o => obj'[x] = obj[x]
        /\ obj'[o] = [obj[o] EXCEPT !.security = s, !.scope = where, !.ownsSecurity = take]
    BY <1>0, <1>8, <2>1 DEF SetSecurity, Live
  <2>3. /\ obj'[o].fallback = obj[o].fallback /\ obj'[o].ownsFallback = obj[o].ownsFallback
        /\ obj'[o].holds = obj[o].holds /\ obj'[o].security = s /\ obj'[o].scope = where
    BY <2>1, <2>2 DEF Fields
  <2>4. Find(s, where)'
    <3>1. ChainOf' = ChainOf
      BY <1>0, <2>2, <2>3, SameChains
    <3>2. \A x \in Live : obj'[x].holds = obj[x].holds
      BY <2>2, <2>3
    <3>3. where \in obj[s].holds \/ \E p \in ChainOf[s] \ {s} : "bare" \in obj[p].holds
      BY <2>1, ChainFacts DEF ChainOK
    <3>4. s \in Live /\ \A p \in ChainOf[s] : p \in Live
      BY <1>0, <1>8, ChainIsLive DEF SetSecurity
    <3>5. where \in obj'[s].holds \/ \E p \in ChainOf'[s] \ {s} : "bare" \in obj'[p].holds
      BY <3>1, <3>2, <3>3, <3>4
    <3> QED BY <3>5, ChainFactsNext DEF ChainOK
  <2>5. Untouched /\ NewOnesKnown
    BY <2>2, <2>3 DEF Untouched, NewOnesKnown
  <2>6. SecuritiesKept
    <3> SUFFICES ASSUME NEW q \in Live', obj'[q].ownsSecurity,
                        NEW z, z = obj'[q].security, NEW w, w = obj'[q].scope
                 PROVE  \/ /\ q \in Live /\ obj[q].ownsSecurity
                           /\ z = obj[q].security /\ w = obj[q].scope
                        \/ Find(z, w)'
      BY DEF SecuritiesKept
    <3> QED BY <2>2, <2>3, <2>4
  <2> QED BY <2>5, <2>6
<1>9. ASSUME NEW o \in Object, NEW n \in Object, ParseFails(o, n) PROVE Goal
  BY <1>9, <1>1, <1>2 DEF ParseFails
<1>10. ASSUME NEW o \in Object, NEW entries \in SUBSET Entry, Parse(o, entries) PROVE Goal
  <2>1. o \in held /\ o \in held' /\ obj' = [obj EXCEPT ![o].holds = obj[o].holds \cup entries]
    BY <1>10 DEF Parse
  <2>2. obj[o].holds \cup entries \in SUBSET Entry
    BY <1>0, <2>1 DEF Fields
  <2> QED BY <2>1, <2>2, <1>3
<1>11. ASSUME NEW o \in Object, Empty(o) PROVE Goal
  <2>1. o \in held /\ o \in held' /\ obj' = [obj EXCEPT ![o].holds = {}] /\ {} \in SUBSET Entry
    BY <1>11 DEF Empty
  <2> QED BY <2>1, <1>3
<1> QED
  <2> HIDE DEF Goal
  <2>1. Goal
    BY <1>1, <1>2, <1>4, <1>5, <1>6, <1>7, <1>8, <1>9, <1>10, <1>11
       DEF Next, Create, SetSecurityFails, ExecFails
  <2> QED BY <2>1 DEF Goal

\* The invariant of the proofs holds in every state.
THEOREM Invariant == Spec => []IInv
<1>1. Init => IInv
  BY InitIInv
<1>2. IInv /\ [Next]_vars => IInv'
  BY IInvStep
<1> QED BY <1>1, <1>2, PTL DEF Spec

\* Types.
THEOREM OwnersTypes == Spec => []OwnersOK
<1>1. IInv => OwnersOK
  BY DEF IInv
<1> QED BY <1>1, Invariant, PTL

\* Whatever objects a program sets up, and in whatever order, none is destroyed twice.
THEOREM NoneTwice == Spec => []DestroyedOnce
<1>1. IInv => DestroyedOnce
  BY DEF IInv
<1> QED BY <1>1, Invariant, PTL

\* No pointer of an object leads to memory that was given back.
THEOREM NoneDangling == Spec => []NoDanglingPointer
<1>1. IInv => NoDanglingPointer
  BY DEF IInv
<1> QED BY <1>1, Invariant, PTL

\* Only setSecurityConfiguration, and exceptions of other kinds, forget objects.
THEOREM NoneForgotten == Spec => []NothingElseIsForgotten
<1>1. IInv => NothingElseIsForgotten
  BY DEF IInv
<1> QED BY <1>1, Invariant, PTL

\* A security configuration that is owned answers: what it is asked for was looked up
\* when it was set, and neither it nor a fallback it owns can be reached by a program
\* that would empty it, in whatever order objects are set up, replaced and destroyed.
THEOREM OwnedSecurityIsLookedUp == Spec => []OwnedSecurityAnswers
<1>1. Init => OwnedSecurityAnswers
  BY DEF Init, Live, OwnedSecurityAnswers
<1>2. IInv /\ IInv' /\ OwnedSecurityAnswers /\ [Next]_vars => OwnedSecurityAnswers'
  <2> SUFFICES ASSUME IInv, IInv', OwnedSecurityAnswers, [Next]_vars
               PROVE  OwnedSecurityAnswers'
    OBVIOUS
  <2>1. CASE Next
    BY <2>1, StepKeepsAnswers, AnswersKept
  <2>2. CASE UNCHANGED vars
    BY <2>2 DEF vars, OwnedSecurityAnswers, OwnFallbacksOnly, Find, Chain, ClosedUnderFallback, Live
  <2> QED BY <2>1, <2>2
<1> QED BY <1>1, <1>2, Invariant, PTL DEF Spec

\* A ConfigurationException leaves the objects as they were.
THEOREM ConfigExceptionChangesNothing == Spec => ExceptionChangesNothing
<1> DEFINE A == exc' = "config" =>
                  /\ DOMAIN obj' = Live /\ held' = held
                  /\ \A o \in Live : [obj'[o] EXCEPT !.holds = {}] = [obj[o] EXCEPT !.holds = {}]
<1>1. IInv /\ [Next]_vars => [A]_vars
  <2> SUFFICES ASSUME IInv, Next, exc' = "config"
               PROVE  /\ DOMAIN obj' = Live /\ held' = held
                      /\ \A o \in Live : [obj'[o] EXCEPT !.holds = {}] = [obj[o] EXCEPT !.holds = {}]
    OBVIOUS
  <2>1. CASE UNCHANGED <<obj, held>>
    BY <2>1 DEF Live
  <2>2. ASSUME NEW o \in Object, NEW entries \in SUBSET Entry, Parse(o, entries)
        PROVE  /\ DOMAIN obj' = Live /\ held' = held
               /\ \A x \in Live : [obj'[x] EXCEPT !.holds = {}] = [obj[x] EXCEPT !.holds = {}]
    <3>1. /\ obj \in [Live -> Fields] /\ o \in Live /\ held' = held
          /\ obj' = [obj EXCEPT ![o].holds = @ \cup entries]
      BY <2>2 DEF Parse, IInv, OwnersOK
    <3> QED BY <3>1 DEF Live, Fields
  <2>3. \/ UNCHANGED <<obj, held>>
        \/ \E o \in Object, entries \in SUBSET Entry : Parse(o, entries)
    BY DEF Next, Create, Destroy, Empty, SetFallback, ParseFallback, SetSecurity, ParseSecurity,
      Returns, SetSecurityFails, ExecFails, ParseFails
  <2> QED BY <2>1, <2>2, <2>3
<1> QED BY <1>1, Invariant, PTL DEF Spec, ExceptionChangesNothing

=============================================================================
